---------------------------- MODULE MCRedirects ----------------------------
(***************************************************************************)
(* Small instances of Redirects: providers with and without the endpoints  *)
(* of a login, one whose end session endpoint begins with its authorize    *)
(* endpoint, one with an unusable field; AuthPolicies with and without     *)
(* parameters; redirects of the workload with empty and repeated           *)
(* parameters.                                                             *)
(***************************************************************************)
EXTENDS Redirects

Issuer == << "idp" >>
Authorize == << "idp", "auth" >>
EndSession == << "idp", "logout" >>
Quoted == << "idp", "quote" >>
IsQuoted(u) == u = Quoted

Doc(auth, end) ==
  [ issuer |-> { Issuer }, jwks |-> { << "idp", "keys" >> }, token |-> { << "idp", "token" >> },
    authorization |-> auth, endSession |-> end ]

Uris == { "builtin", "fetched" }

\* Of the built-in providers one has no login at all.
Table == [ u \in { "builtin" } |-> Doc({}, {}) ]

Providers ==
  { Doc({ Authorize }, { EndSession }), Doc({ Authorize }, {}), Doc({}, {}),
    Doc({ Authorize }, { << "idp", "auth", "end" >> }), Doc({ Authorize }, { Quoted }),
    [ Doc({ Authorize }, { EndSession }) EXCEPT !.jwks = {} ] }

NoParams == [ k \in {} |-> "" ]
Acr == [ k \in { "acr_values" } |-> "high" ]
Scope == [ k \in { "scope", "acr_values" } |-> "high" ]

SpecsWith(params, resources) ==
  [ uri : Uris, autoLogin : BOOLEAN, loginParams : params,
    postLogout : { {}, { "" }, { "bye" } }, resources : resources ]

Combinations == SpecsWith({ NoParams, Acr, Scope }, { << >>, << "r1" >>, << "r1", "r2" >> })

Others ==
  { Location(<< "app", "page" >>, << >>),
    Location(<< "app", "page" >>, << <<"a", "1">>, <<"a", "2">>, <<"b", "">> >>),
    Location(<< "idp" >>, << <<"a", "">> >>) }
=============================================================================
