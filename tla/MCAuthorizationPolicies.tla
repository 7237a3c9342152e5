---------------------- MODULE MCAuthorizationPolicies ----------------------
(***************************************************************************)
(* Small instances of AuthorizationPolicies: overlapping patterns, a path  *)
(* that no rule mentions, a method beyond the accepted ones, up to two     *)
(* auth rules and one ignore rule.                                         *)
(***************************************************************************)
EXTENDS AuthorizationPolicies

Patterns == { {"a"}, {"a", "b"} }

AuthRules == [ paths : { {s} : s \in Patterns }, methods : { {}, {"GET"} },
               when : { << >>, << "w1" >>, << "w2" >>, << "w1", "w2" >> },
               denyRedirect : { FALSE } ]
IgnoreMatchers == [ paths : { {s} : s \in Patterns }, methods : { {}, {"GET"} } ]

UpTo(n, S) == UNION { [ 1..m -> S ] : m \in 0..n }

PoliciesWith(base) ==
  [ base : { base }, authRules : UpTo(2, AuthRules), ignoreRules : UpTo(1, IgnoreMatchers) ]

\* Issuer and audience: the base slice has no room to spare.
ExactPolicies == PoliciesWith(<< "iss", "aud" >>)

\* With three baseline claims the slice of five has room for a sixth.
SparePolicies ==
  [ base : { << "iss", "aud", "c1", "c2", "c3" >> }, ignoreRules : { << >> },
    authRules : [ 1..2 -> [ paths : { {s} : s \in Patterns }, methods : { {"GET"} },
                            when : { << "w1" >>, << "w2" >> },
                            denyRedirect : { FALSE } ] ] ]
\* And rules of which one outgrows it, with something to ignore.
SharingPolicies ==
  [ base : { << "iss", "aud", "c1", "c2", "c3" >> },
    ignoreRules : UpTo(1, [ paths : { {s} : s \in Patterns }, methods : { {} } ]),
    authRules : [ 1..2 -> [ paths : { {s} : s \in Patterns }, methods : { {"GET"} },
                            when : { << "w1" >>, << "w2" >>, << "w1", "w2" >> },
                            denyRedirect : { FALSE } ] ] ]

ExactAndSharing == ExactPolicies \cup SharingPolicies
Conditions == { "iss", "aud", "c1", "c2", "c3", "w1", "w2" }
=============================================================================
