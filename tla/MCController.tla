---------------------------- MODULE MCController ----------------------------
(***************************************************************************)
(* Small instances of Controller for TLC: which specs the users switch     *)
(* between, and how often each disturbance happens.                        *)
(***************************************************************************)
EXTENDS Controller

\* No auto-login: RequestAuthentication and RequirePolicy only.
Plain == [ enabled |-> TRUE, autoLogin |-> FALSE, validPaths |-> TRUE,
           authRules |-> 0, ignoreRules |-> 0, jwt |-> 1 ]
\* The same with a path that does not validate: DenyPolicy (deny all) only.
BadPath == [ Plain EXCEPT !.validPaths = FALSE ]
Disabled == [ Plain EXCEPT !.enabled = FALSE ]
\* Auto-login: Secret and EnvoyFilter too.
Login == [ Plain EXCEPT !.autoLogin = TRUE ]

None == [ d \in Disturbances |-> 0 ]

\* What comes together in the safety run.
PlainSpecs == { Plain, BadPath, Disabled }
Combined ==
  { \* edits while passes run, a call of which fails
    [ None EXCEPT !["edit"] = 2 ],
    [ None EXCEPT !["edit"] = 1, !["apiFail"] = 1 ],
    \* somebody changes a child meanwhile
    [ None EXCEPT !["tamper"] = 1, !["edit"] = 1 ],
    [ None EXCEPT !["tamper"] = 1, !["apiFail"] = 1 ],
    \* deletion and recreation
    [ None EXCEPT !["delete"] = 1, !["recreate"] = 1, !["crash"] = 1 ],
    \* a restart, with a foreign object at a child's name or missing labels
    [ None EXCEPT !["crash"] = 1, !["foreign"] = 1 ],
    [ None EXCEPT !["crash"] = 1, !["strip"] = 1 ] }

\* Auto-login, or rules for the deny and the ignore policy.
Rules == [ Plain EXCEPT !.authRules = 1, !.ignoreRules = 1 ]
LiveSpecs == { Login, Rules }
LostAndRotated ==
  { [ None EXCEPT !["rotate"] = 1, !["listFail"] = 1, !["statusFail"] = 1 ],
    [ None EXCEPT !["pod"] = 1 ] }

\* A path becomes invalid, or an invalid one is repaired, and a call fails.
ShutSpecs == { Plain, BadPath }
OneFails == { [ None EXCEPT !["edit"] = 1, !["apiFail"] = 1 ] }
=============================================================================
