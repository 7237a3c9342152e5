----------------------------- MODULE Redirects -----------------------------
(***************************************************************************)
(* From the identity provider's discovery document to the redirects of a   *)
(* login: what the resolver takes over (internal/resolver, pkg/rest), what *)
(* the OAuth2 filter is given, and what the response half of the Lua       *)
(* script makes of a Location header (pkg/luascript/ztoperator.lua).       *)
(*                                                                         *)
(* A URI is a sequence of parts, so that one can begin with another and    *)
(* the empty string is << >>.  A query is a sequence of key-value pairs.   *)
(***************************************************************************)
EXTENDS SequencesExt

CONSTANTS
  WellKnown,    \* GetWellknownURIToDiscoveryDocument: documents by uri
  WellKnownURI, \* the uris an AuthPolicy may name
  Documents,    \* what a provider may answer; a field is a set of at most one
  Rejected(_),  \* URIs that url.Parse or the check for unsafe characters refuse
  Specs,        \* AuthPolicies, with the fields of the variable spec
  Elsewhere     \* the Locations a workload redirects to

AtMostOne(S) == \A a, b \in S : a = b

\* A field of a document, which may be missing.
URIField == { f \in SUBSET Seq(STRING) : AtMostOne(f) }

Document == [ issuer : URIField, jwks : URIField, token : URIField,
              authorization : URIField, endSession : URIField ]

ASSUME DocumentsAssumption ==
  Documents \subseteq Document /\ \A u \in DOMAIN WellKnown : WellKnown[u] \in Document
ASSUME WellKnownAssumption == DOMAIN WellKnown \subseteq WellKnownURI
ASSUME SpecsAssumption ==
  \A s \in Specs : /\ IsFiniteSet(DOMAIN s.loginParams)
                   /\ AtMostOne(s.postLogout)
                   /\ s.resources \in Seq(STRING \ { "" })
ASSUME ElsewhereAssumption == \A l \in Elsewhere : l.base # << >>

VARIABLES
  spec,       \* [ uri, autoLogin, loginParams, postLogout, resources ]
  uris,       \* IdentityProviderUris of the last pass that resolved them
  phase,      \* "resolve", "failed", "ready", "redirect", "rewritten"
  original,   \* the Location that was sent
  location    \* the Location that the browser gets

rvars == << spec, uris, phase, original, location >>

Location(base, query) == [ base |-> base, query |-> query ]
NoValue == ""
Nowhere == Location(<< >>, << >>)
NoUris == [ authorization |-> << >>, endSession |-> {} ]

RInit ==
  /\ spec \in Specs
  /\ uris = NoUris
  /\ phase = "resolve"
  /\ original = Nowhere
  /\ location = Nowhere

----------------------------------------------------------------------------
(* The resolver.                                                           *)

\* GetOAuthDiscoveryDocument: the built-in table before the network.
GetOAuthDiscoveryDocument(uri) ==
  IF uri \in DOMAIN WellKnown THEN { WellKnown[uri] } ELSE Documents

\* Slip: the end session endpoint is not asked for.
SupportsLogin(doc, autoLogin) == autoLogin => doc.authorization # {}

\* Auto-login needs both endpoints.
SupportsAutoLogin(doc, autoLogin) ==
  autoLogin => doc.authorization # {} /\ doc.endSession # {}

\* Every field that is there is validated.
Usable(doc, autoLogin) ==
  /\ doc.issuer # {} /\ doc.jwks # {} /\ doc.token # {}
  /\ SupportsAutoLogin(doc, autoLogin)
  /\ \A u \in doc.issuer \cup doc.jwks \cup doc.token \cup doc.authorization \cup doc.endSession :
       ~Rejected(u)

OrEmpty(field) == IF field = {} THEN << >> ELSE CHOOSE u \in field : TRUE

ResolveDiscoveryDocument ==
  /\ phase = "resolve"
  /\ \E doc \in GetOAuthDiscoveryDocument(spec.uri) :
       IF Usable(doc, spec.autoLogin)
       THEN /\ uris' = [ authorization |-> OrEmpty(doc.authorization),
                         endSession |-> doc.endSession ]
            /\ phase' = "ready"
       ELSE phase' = "failed" /\ UNCHANGED uris
  /\ UNCHANGED << spec, original, location >>

\* The request fails, or its status is not 200.
ResolveFails ==
  /\ phase = "resolve" /\ spec.uri \notin DOMAIN WellKnown
  /\ phase' = "failed"
  /\ UNCHANGED << spec, uris, original, location >>

\* The next pass, after an error or an event.
NextPass ==
  /\ phase \in { "failed", "ready", "rewritten" }
  /\ phase' = "resolve"
  /\ UNCHANGED << spec, uris, original, location >>

----------------------------------------------------------------------------
(* Redirects.                                                              *)

\* The filters exist once a pass with auto-login got through.
Redirect(l) ==
  /\ phase \in { "ready", "rewritten" } /\ spec.autoLogin
  /\ original' = l
  /\ location' = l
  /\ phase' = "redirect"
  /\ UNCHANGED << spec, uris >>

\* authorization_endpoint, auth_scopes and resources of the OAuth2 filter.
OAuth2Login ==
  Redirect(Location(uris.authorization,
    << <<"client_id", "me">>, <<"scope", "openid">>, <<"state", "s1">> >>
      \o [ i \in 1..Len(spec.resources) |-> <<"resource", spec.resources[i]>> ]))

\* end_session_endpoint of the OAuth2 filter, which adds where to return to;
\* without one (or with an empty one) a sign-out goes to the start page.
\* A browser that signs out with expired cookies has no id token.
OAuth2Logout ==
  \E token \in { NoValue, "t1" } :
    IF OrEmpty(uris.endSession) = << >> THEN Redirect(Location(<< "app" >>, << >>))
    ELSE Redirect(Location(OrEmpty(uris.endSession),
           << <<"id_token_hint", token>>, <<"client_id", "me">>,
              <<"post_logout_redirect_uri", "app">> >>))

WorkloadRedirect == \E l \in Elsewhere : Redirect(l)

----------------------------------------------------------------------------
(* The script on a response.                                               *)

\* The pairs that the pattern finds (no empty value), the last of a key wins.
Params(query) ==
  LET found == { i \in DOMAIN query : query[i][2] # NoValue }
      LastOf(k) == CHOOSE i \in found : /\ query[i][1] = k
                                        /\ \A j \in found : query[j][1] = k => j <= i
  IN  [ k \in { query[i][1] : i \in found } |-> query[LastOf(k)][2] ]

\* url.QueryEscape is undone by the receiver; the key is kept as it is.
LoginParams == spec.loginParams

WithLoginParams(params) ==
  [ k \in DOMAIN LoginParams \cup DOMAIN params |->
      IF k \in DOMAIN LoginParams THEN LoginParams[k] ELSE params[k] ]

\* post_logout_redirect_uri of the script: an empty one is none.
PostLogout == spec.postLogout \ { NoValue }

WithPostLogout(params) ==
  [ k \in (DOMAIN params \ { "post_logout_redirect_uri" })
          \cup { "post_logout_redirect_uri" : u \in PostLogout } |->
      IF k = "post_logout_redirect_uri" THEN CHOOSE u \in PostLogout : TRUE
      ELSE params[k] ]

\* A table written as a query again, in the order of Lua's pairs.
QueriesOf(params) == SetToSeqs({ << k, params[k] >> : k \in DOMAIN params })

\* Nothing is added to a Location without a query.
Rewritten(l, params) ==
  IF l.query = << >> THEN { l }
  ELSE { Location(l.base, q) : q \in QueriesOf(params) }

Authorizes(l) == IsPrefix(uris.authorization, l.base) /\ DOMAIN LoginParams # {}
EndsSession(l) == IsPrefix(OrEmpty(uris.endSession), l.base)

\* Slip: the logout is looked at only if the login was not.
FirstMatchRewrites(l) ==
  IF Authorizes(l) THEN Rewritten(l, WithLoginParams(Params(l.query)))
  ELSE IF EndsSession(l) THEN Rewritten(l, WithPostLogout(Params(l.query))) ELSE { l }

\* Slip: the parameters of the login replace the others.
OnlyLoginParams(l) ==
  IF EndsSession(l) THEN Rewritten(l, WithPostLogout(Params(l.query)))
  ELSE IF Authorizes(l) THEN Rewritten(l, LoginParams) ELSE { l }

\* Both branches start from the Location as it came, so the second prevails.
Outcomes(l) ==
  IF EndsSession(l) THEN Rewritten(l, WithPostLogout(Params(l.query)))
  ELSE IF Authorizes(l) THEN Rewritten(l, WithLoginParams(Params(l.query))) ELSE { l }

envoy_on_response ==
  /\ phase = "redirect"
  /\ location' \in Outcomes(original)
  /\ phase' = "rewritten"
  /\ UNCHANGED << spec, uris, original >>

RNext ==
  \/ ResolveDiscoveryDocument \/ ResolveFails \/ NextPass
  \/ OAuth2Login \/ OAuth2Logout \/ WorkloadRedirect
  \/ envoy_on_response

RSpec == RInit /\ [][RNext]_rvars

----------------------------------------------------------------------------
(* Properties.                                                             *)

ValuesOf(l, key) == { l.query[i][2] : i \in { j \in DOMAIN l.query : l.query[j][1] = key } }

ToProvider == phase = "rewritten" /\ original.base = uris.authorization

Keys(l) == { l.query[i][1] : i \in DOMAIN l.query }
OccursOnce(l, key) == \A i, j \in DOMAIN l.query : l.query[i][1] = key /\ l.query[j][1] = key => i = j

\* lua_script_generator.go: "Redirects to the authorize endpoint have any
\* configured loginParams (e.g. acr_values, ui_locales) merged into the query
\* string": each with its one value, and beside them there is what the OAuth2
\* filter put there and nothing else: every parameter that occurs once (client,
\* scope, state, a single resource) as it was.  Of one that is repeated, several
\* resources, only some value: AcceptedResources' "The resource indicators
\* specified will be added to the initial authorize request" is not kept then.
LoginParamsMerged ==
  ToProvider =>
    /\ location.base = original.base
    /\ \A k \in DOMAIN LoginParams : ValuesOf(location, k) = { LoginParams[k] }
    /\ \A k \in (Keys(original) \cup Keys(location)) \ DOMAIN LoginParams :
         /\ ValuesOf(location, k) # {} /\ ValuesOf(location, k) \subseteq ValuesOf(original, k)
         /\ OccursOnce(original, k) => ValuesOf(location, k) = ValuesOf(original, k)

\* "If omitted, no post_logout_redirect_uri will be used" (PostLogoutRedirectURI):
\* a logout goes to the end session endpoint with the configured URI or none,
\* never with the filter's own, and without the parameters of a login, even
\* where one endpoint begins with the other.
LogoutAsConfigured ==
  phase = "rewritten" /\ original.base \in uris.endSession \ { << >> } =>
    /\ location.base = original.base
    /\ ValuesOf(location, "post_logout_redirect_uri") = PostLogout
    /\ ValuesOf(location, "client_id") = { "me" }
    /\ \A k \in DOMAIN LoginParams \ DOMAIN Params(original.query) : ValuesOf(location, k) = {}

\* lua_script_test.go: "A 302 to some arbitrary location must pass through
\* unmodified": the script leaves a workload's own redirects alone, with
\* empty and repeated parameters as they are.
OtherRedirectsUntouched ==
  phase = "rewritten" /\ original \in Elsewhere => location = original
=============================================================================
