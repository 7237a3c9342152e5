---------------------------- MODULE AccessRules ----------------------------
(***************************************************************************)
(* The rules of an AuthPolicy (api/v1alpha1/authpolicy_types.go) and what  *)
(* they ask for, one request at a time.  Every module about requests       *)
(* measures what the generated configuration does against this.            *)
(*                                                                         *)
(* A path pattern is the set of paths it matches (see Paths).  A condition *)
(* is an opaque name: a request is told by its path, its method and the    *)
(* set of conditions its token satisfies (none without a token).  A rule's *)
(* conditions are a sequence, because the generator builds it as a Go      *)
(* slice.                                                                  *)
(***************************************************************************)
EXTENDS Integers, Sequences

CONSTANTS
  Path,         \* request paths
  Method,       \* request methods
  Accepted,     \* GetAcceptedHTTPMethods
  Condition,    \* conditions on the claims of a token
  Policies      \* the AuthPolicies that are applied

\* A pattern is a set of paths; no methods means every method.
Matcher == [ paths : SUBSET SUBSET Path, methods : SUBSET Accepted ]

AuthRule == [ paths : SUBSET SUBSET Path, methods : SUBSET Accepted,
              when : Seq(Condition), denyRedirect : BOOLEAN ]

\* base: the conditions on issuer, audience and baseline claims, in order.
AuthPolicy == [ base : Seq(Condition), authRules : Seq(AuthRule),
                ignoreRules : Seq(Matcher) ]

Request == [ path : Path, method : Method, holds : SUBSET Condition ]

Elems(seq) == { seq[i] : i \in 1..Len(seq) }

\* The issuer is always among the base conditions; rules without a path are
\* left out (the schema admits them, and Istio reads them as every path).
WellFormed(p) ==
  /\ p \in AuthPolicy
  /\ Len(p.base) >= 1
  /\ \A r \in Elems(p.authRules) : r.paths # {}
  /\ \A m \in Elems(p.ignoreRules) : m.paths # {}

ASSUME MethodAssumption == Accepted \subseteq Method
ASSUME PoliciesAssumption == \A p \in Policies : WellFormed(p)

----------------------------------------------------------------------------
(* What the AuthPolicy asks for.                                           *)

MatchesOne(patterns, path) == \E s \in patterns : path \in s

Covers(m, req) ==
  /\ MatchesOne(m.paths, req.path)
  /\ m.methods = {} \/ req.method \in m.methods

\* An auth rule's own conditions and the base conditions where one applies
\* (every one that does); else nothing where it is ignored; else the base.
Intended(p, req) ==
  LET applying == { r \in Elems(p.authRules) : Covers(r, req) }
      ignored == \E m \in Elems(p.ignoreRules) : Covers(m, req)
  IN  IF applying # {}
      THEN /\ Elems(p.base) \subseteq req.holds
           /\ \A r \in applying : Elems(r.when) \subseteq req.holds
      ELSE ignored \/ Elems(p.base) \subseteq req.holds
=============================================================================
