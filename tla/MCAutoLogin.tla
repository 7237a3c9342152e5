---------------------------- MODULE MCAutoLogin ----------------------------
(***************************************************************************)
(* Small instances of AutoLogin: a page, an API, the paths of the login,   *)
(* rules that cover one of them, some or all, with and without             *)
(* denyRedirect, and auto-login on or off, by default paths or not.        *)
(***************************************************************************)
EXTENDS AutoLogin

Paths5 == { "/page", "/api", "/enter", "/logout", "/callback" }

Everything == Paths5
Patterns == { {"/page"}, {"/page", "/api"}, Everything }

AuthRules == [ paths : { {s} : s \in Patterns }, methods : { {}, {"GET"} },
               when : { << "w" >> }, denyRedirect : BOOLEAN ]
IgnoreMatchers == [ paths : { {s} : s \in Patterns }, methods : { {}, {"GET"} } ]

UpTo(n, S) == UNION { [ 1..m -> S ] : m \in 0..n }

OneRuleEach ==
  [ base : { << "iss" >> }, authRules : UpTo(1, AuthRules),
    ignoreRules : UpTo(1, IgnoreMatchers) ]

Configs ==
  { [ enabled |-> FALSE, redirectPath |-> {}, logoutPath |-> {}, loginPath |-> {} ],
    [ enabled |-> TRUE, redirectPath |-> {}, logoutPath |-> {}, loginPath |-> {"/enter"} ],
    [ enabled |-> TRUE, redirectPath |-> {"/enter"}, logoutPath |-> {}, loginPath |-> {} ] }
=============================================================================
