----------------------------- MODULE AutoLogin -----------------------------
(***************************************************************************)
(* A request's way through the sidecar of a protected pod: the generated   *)
(* Lua script (pkg/luascript), the OAuth2 filter as it is configured       *)
(* (pkg/resourcegenerators/envoyfilter), the JWT filter made from the      *)
(* RequestAuthentication and the RBAC filter made from the three           *)
(* AuthorizationPolicies; and the browser that follows the redirects.      *)
(* Without auto-login a request starts at the JWT filter.                  *)
(***************************************************************************)
EXTENDS AuthorizationPolicies

\* Auto-login as the AuthPolicy gives it; a path is a set of at most one.
CONSTANT AutoLogins

AutoLoginSpec == [ enabled : BOOLEAN, redirectPath : SUBSET Path,
                   logoutPath : SUBSET Path, loginPath : SUBSET Path ]

CONSTANTS DefaultRedirectPath, DefaultLogoutPath

ASSUME AutoLoginsAssumption ==
  /\ AutoLogins \subseteq AutoLoginSpec
  /\ DefaultRedirectPath \in Path /\ DefaultLogoutPath \in Path
ASSUME BrowserAssumption == "GET" \in Method

VARIABLES
  login,           \* the resolved auto-login configuration
  script,          \* the rule tables of the Lua script
  claims,          \* the conditions the user's tokens satisfy
  session,         \* the browser holds the cookies of a session
  carries,         \* what the request carries: see Gateway
  headers,         \* x-bypass-login and x-deny-redirect
  stage,           \* the filter the request is at
  answer,          \* what the client got
  goal             \* the page the user came for

config == << policy, istio, login, script, claims >>
chainVars == << vars, login, script, claims, session, carries, headers, stage, answer, goal >>

----------------------------------------------------------------------------
(* Resolving auto-login, and generating the Lua script.                    *)

\* SetSaneDefaults.
OrDefault(paths, default) == IF paths = {} THEN default ELSE CHOOSE p \in paths : TRUE

ResolveAutoLoginConfig(spec) ==
  [ enabled |-> spec.enabled,
    redirectPath |-> OrDefault(spec.redirectPath, DefaultRedirectPath),
    logoutPath |-> OrDefault(spec.logoutPath, DefaultLogoutPath),
    loginPaths |-> spec.loginPath ]

IgnoreAuthMatchers(p) == Elems(p.ignoreRules)

MatcherOf(r) == [ paths |-> r.paths, methods |-> r.methods ]

DenyRedirectMatchers(p) ==
  { MatcherOf(r) : r \in { q \in Elems(p.authRules) : q.denyRedirect } }

\* Slip: the paths of the login are not among the required ones.
RequireAuthMatchersOfRules(p, l) == { MatcherOf(r) : r \in Elems(p.authRules) }

\* The auth rules, and the paths of the login for every method.
RequireAuthMatchers(p, l) ==
  { MatcherOf(r) : r \in Elems(p.authRules) }
    \cup { [ paths |-> { {l.redirectPath}, {l.logoutPath} } \cup { {x} : x \in l.loginPaths },
             methods |-> {} ] }

GenerateLuaScript(p, l) ==
  [ ignore |-> IgnoreAuthMatchers(p),
    require |-> RequireAuthMatchers(p, l),
    denyRedirect |-> DenyRedirectMatchers(p) ]

----------------------------------------------------------------------------
(* The script on a request.                                                *)

match(rules, req) == \E m \in rules : Covers(m, req)

\* Slip: an ignore rule is enough.
BypassIgnored(req) == match(script.ignore, req)

should_bypass(req) == match(script.ignore, req) /\ ~match(script.require, req)

\* Slip: wherever login is required, redirects are denied.
DenyEveryRedirect(req) == match(script.require, req)

should_deny_redirect(req) == match(script.denyRedirect, req)

NoHeaders == [ bypass |-> FALSE, denyRedirect |-> FALSE ]

\* A request enters the chain.
Arrive(path, method, carried) ==
  /\ request' = [ path |-> path, method |-> method, holds |-> {} ]
  /\ carries' = carried
  /\ headers' = NoHeaders
  /\ stage' = IF login.enabled THEN "lua" ELSE "jwt_authn"
  /\ answer' = "none"
  /\ decision' = "open"

ChainInit ==
  /\ \E p \in Policies : Generate(p)
  /\ \E s \in AutoLogins : login = ResolveAutoLoginConfig(s)
  /\ script = GenerateLuaScript(policy, login)
  /\ claims \in SUBSET Condition
  /\ session = FALSE
  /\ request \in [ path : Path, method : Method, holds : { {} } ]
  /\ goal = request
  /\ carries \in { "none", "good", "bad" }
  /\ headers = NoHeaders
  /\ stage = IF login.enabled THEN "lua" ELSE "jwt_authn"
  /\ answer = "none"
  /\ decision = "open"

Answer(a) == answer' = a /\ stage' = "answered"
PassTo(filter) == stage' = filter /\ UNCHANGED answer

envoy_on_request ==
  /\ stage = "lua"
  /\ headers' = [ bypass |-> should_bypass(request),
                  denyRedirect |-> should_deny_redirect(request) ]
  /\ PassTo("oauth2")
  /\ UNCHANGED << config, session, carries, request, decision, goal >>

----------------------------------------------------------------------------
(* The filters, as they are configured.                                    *)

\* pass_through_matcher: a bearer token, or the script's header.
PassThrough == carries \in { "good", "bad" } \/ headers.bypass

OAuth2PassThrough ==
  /\ stage = "oauth2" /\ PassThrough
  /\ PassTo("jwt_authn")
  /\ UNCHANGED << config, session, carries, headers, request, decision, goal >>

\* signout_path: the session ends and the browser goes to the end session
\* endpoint.
OAuth2SignOut ==
  /\ stage = "oauth2" /\ ~PassThrough
  /\ request.path = login.logoutPath
  /\ session' = FALSE
  /\ Answer("logout")
  /\ UNCHANGED << config, carries, headers, request, decision, goal >>

\* redirect_path_matcher: the code is exchanged for tokens.
OAuth2Callback ==
  /\ stage = "oauth2" /\ ~PassThrough
  /\ request.path = login.redirectPath /\ request.path # login.logoutPath
  /\ IF carries = "code" THEN session' = TRUE /\ Answer("callback")
     ELSE Answer("unauthorized") /\ UNCHANGED session
  /\ UNCHANGED << config, carries, headers, request, decision, goal >>

\* Slip: no request is spared the redirect.
OAuth2AlwaysRedirects ==
  /\ stage = "oauth2" /\ ~PassThrough
  /\ request.path \notin { login.redirectPath, login.logoutPath }
  /\ IF session THEN PassTo("jwt_authn") ELSE Answer("login")
  /\ UNCHANGED << config, session, carries, headers, request, decision, goal >>

\* forward_bearer_token, deny_redirect_matcher and authorization_endpoint.
OAuth2Authenticate ==
  /\ stage = "oauth2" /\ ~PassThrough
  /\ request.path \notin { login.redirectPath, login.logoutPath }
  /\ IF session THEN PassTo("jwt_authn")
     ELSE Answer(IF headers.denyRedirect THEN "unauthorized" ELSE "login")
  /\ UNCHANGED << config, session, carries, headers, request, decision, goal >>

\* The token that reaches the JWT filter: the session's, once the OAuth2
\* filter forwarded it, or the client's own.
Token ==
  IF carries \in { "good", "bad" } THEN carries
  ELSE IF login.enabled /\ session /\ ~headers.bypass THEN "good" ELSE "none"

\* RequestAuthentication: an invalid token is refused, a request without one
\* goes on without claims.
JwtAuthn ==
  /\ stage = "jwt_authn"
  /\ IF Token = "bad" THEN Answer("unauthorized") /\ UNCHANGED request
     ELSE /\ PassTo("rbac")
          /\ request' = [ request EXCEPT !.holds = IF Token = "good" THEN claims ELSE {} ]
  /\ UNCHANGED << config, session, carries, headers, decision, goal >>

\* The AuthorizationPolicies decide.
Rbac ==
  /\ stage = "rbac"
  /\ Decide
  /\ Answer(IF decision' = "allow" THEN "served" ELSE "forbidden")
  /\ UNCHANGED << login, script, claims, session, carries, headers, goal >>

FilterStep ==
  \/ envoy_on_request
  \/ OAuth2PassThrough \/ OAuth2SignOut \/ OAuth2Callback \/ OAuth2Authenticate
  \/ JwtAuthn \/ Rbac

----------------------------------------------------------------------------
(* The browser.                                                            *)

\* The user logs in and the identity provider sends the browser back.
FollowLogin ==
  /\ stage = "answered" /\ answer = "login"
  /\ Arrive(login.redirectPath, "GET", "code")
  /\ UNCHANGED << config, session, goal >>

\* Back to the page the user came for.
FollowCallback ==
  /\ stage = "answered" /\ answer = "callback"
  /\ Arrive(goal.path, "GET", "none")
  /\ UNCHANGED << config, session, goal >>

\* Another request, of this browser or of a client with a token.
NewRequest ==
  /\ stage = "answered" /\ answer \notin { "login", "callback" }
  /\ \E path \in Path, method \in Method, c \in { "none", "good", "bad" } :
       /\ Arrive(path, method, c)
       /\ goal' = [ path |-> path, method |-> method, holds |-> {} ]
  /\ UNCHANGED << config, session >>

ChainNext == FilterStep \/ FollowLogin \/ FollowCallback \/ NewRequest

ChainSpec == ChainInit /\ [][ChainNext]_chainVars

\* Filters answer and browsers follow redirects; nobody has to ask again.
FairChainSpec ==
  ChainSpec /\ WF_chainVars(FilterStep) /\ WF_chainVars(FollowLogin \/ FollowCallback)

----------------------------------------------------------------------------
(* Properties.                                                             *)

\* What the chain implements: a filter's step is no step of the promise until
\* it answers.
Promise ==
  INSTANCE Gateway WITH
    Logins <- { ResolveAutoLoginConfig(s) : s \in AutoLogins },
    request <- [ request EXCEPT !.holds = {} ]

\* Every answer is one the AuthPolicy allows, whichever filter gives it: the
\* workload serves a request only if the rules intend it, public pages never
\* ask for a login, protected pages always do unless denyRedirect says
\* otherwise, and only the login changes the session.
KeepsPromise == Promise!Spec

\* README: "Automatic OAuth 2.0 login will trigger on requests towards
\* protected endpoints, except for requests towards /api* where denyRedirect
\* is set to true".
LoginTriggersOnProtected ==
  stage = "answered" /\ login.enabled /\ ~session /\ carries = "none"
    /\ request.path \notin { login.redirectPath, login.logoutPath }
    /\ ~Intended(policy, [ request EXCEPT !.holds = {} ])
  => answer = IF \E r \in Elems(policy.authRules) : r.denyRedirect /\ Covers(r, request)
              THEN "unauthorized" ELSE "login"

\* What the script lets pass without a login, the policies let pass without a
\* token: the two never disagree about a page being public.
BypassedIsServed ==
  stage = "answered" /\ headers.bypass /\ carries = "none" => answer = "served"

\* A login ends: the redirect path reaches the OAuth2 filter even where an
\* ignore rule covers it, so the user gets a session and then the page (or a
\* refusal), never another login.
LoginEnds ==
  (stage = "answered" /\ answer = "login")
    ~> (stage = "answered" /\ session /\ answer \in { "served", "forbidden" })
=============================================================================
