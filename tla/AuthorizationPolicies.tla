----------------------- MODULE AuthorizationPolicies -----------------------
(***************************************************************************)
(* The three Istio AuthorizationPolicies generated from a valid, enabled   *)
(* AuthPolicy (pkg/resourcegenerators/authorizationpolicy), and what Istio *)
(* makes of them for one request.                                          *)
(***************************************************************************)
EXTENDS AccessRules

VARIABLES
  policy,                  \* the AuthPolicy in force
  deny, ignore, require,   \* the rules of its three AuthorizationPolicies
  request,                 \* the request at hand
  decision                 \* what Istio does with it: "open" until decided

istio == << deny, ignore, require >>
vars == << policy, deny, ignore, require, request, decision >>

----------------------------------------------------------------------------
(* Rules of an AuthorizationPolicy.                                        *)

\* One entry of a rule's To list; an empty set does not constrain.
Operation(paths, notPaths, methods, notMethods) ==
  [ paths |-> paths, notPaths |-> notPaths,
    methods |-> methods, notMethods |-> notMethods ]

\* Where it applies, and the conditions on the claims: values for an ALLOW
\* rule, notValues for a DENY rule.
Rule(to, values, notValues) == [ to |-> to, values |-> values, notValues |-> notValues ]

RoundedUp(n, to) == to * ((n + to - 1) \div to)

\* slices.Concat grows a nil slice of pointers, so its capacity is that of
\* the allocator's size class: 8, 16, 24, 32, 48, 64, ... 256, 288, 320, ...
\* 512 bytes; slices of more than MaxExact pointers are not rounded exactly.
MaxExact == 64
Capacity(n) == RoundedUp(n, IF n <= 4 THEN 1 ELSE IF n <= 32 THEN 2 ELSE 4)

\* The conditions of auth rule i once every rule is built.  Each rule appends
\* to the same base slice: while there is room, they go to the backing array
\* that the rules share, and the last rule to write a place wins; a rule that
\* outgrows the array has its own copy.
SpecifiedWhen(p, i) ==
  LET when == p.authRules[i].when
      spare == Capacity(Len(p.base)) - Len(p.base)
      Writers(j) == { r \in 1..Len(p.authRules) : Len(p.authRules[r].when) >= j }
      LastWriter(j) == CHOOSE r \in Writers(j) : \A q \in Writers(j) : q <= r
  IN  Elems(p.base) \cup
        IF Len(when) > spare THEN Elems(when)
        ELSE { p.authRules[LastWriter(j)].when[j] : j \in 1..Len(when) }

\* No room to share, or nobody to share it with.
NoSharing(p) ==
  \/ Len(p.base) <= MaxExact /\ Capacity(Len(p.base)) = Len(p.base)
  \/ Len(p.authRules) <= 1

\* Slip: a rule's own conditions are not denied.
DenyRulesOfBase(p) ==
  UNION { { Rule({ Operation(r.paths, {}, r.methods, {}) }, {}, {c}) :
              c \in Elems(p.base) } : r \in Elems(p.authRules) }

\* Slip: the rules are made once all conditions have been appended.
DenyRulesLater(p) ==
  UNION { { Rule({ Operation(p.authRules[i].paths, {}, p.authRules[i].methods, {}) }, {}, {c}) :
              c \in SpecifiedWhen(p, i) } : i \in 1..Len(p.authRules) }

\* deny.GetDesired: one rule for every auth rule and condition.  It appends to
\* a shared slice too, but is done with it before the next auth rule does.
DenyRules(p) ==
  UNION { { Rule({ Operation(r.paths, {}, r.methods, {}) }, {}, {c}) :
              c \in Elems(p.base) \cup Elems(r.when) } : r \in Elems(p.authRules) }

\* Slip: the methods of an ignore rule are left out.
IgnoreRulesAnyMethod(p) ==
  IF p.ignoreRules = << >> THEN {}
  ELSE { Rule({ Operation(m.paths, {}, {}, {}) : m \in Elems(p.ignoreRules) }, {}, {}) }

\* ignore.GetDesired: one rule for all matchers, no policy without matchers.
IgnoreRules(p) ==
  IF p.ignoreRules = << >> THEN {}
  ELSE { Rule({ Operation(m.paths, {}, m.methods, {}) : m \in Elems(p.ignoreRules) }, {}, {}) }

SpecifiedPathsAllowRules(p) ==
  { Rule({ Operation(p.authRules[i].paths, {}, p.authRules[i].methods, {}) },
         SpecifiedWhen(p, i), {}) : i \in 1..Len(p.authRules) }

Matchers(p) ==
  { [ paths |-> r.paths, methods |-> r.methods ] : r \in Elems(p.authRules) }
    \cup Elems(p.ignoreRules)

\* The other methods of every mentioned path, and every other path.
UnspecifiedPathsAllowRule(p) ==
  Rule({ Operation(m.paths, {}, {}, IF m.methods = {} THEN Accepted ELSE m.methods) :
           m \in Matchers(p) }
         \cup { Operation({Path}, UNION { m.paths : m \in Matchers(p) }, {}, {}) },
       Elems(p.base), {})

\* require.GetDesired.
RequireRules(p) ==
  IF p.authRules = << >> /\ p.ignoreRules = << >>
  THEN { Rule({ Operation({Path}, {}, {}, {}) }, Elems(p.base), {}) }
  ELSE { UnspecifiedPathsAllowRule(p) } \cup SpecifiedPathsAllowRules(p)

----------------------------------------------------------------------------
(* How Istio applies them.                                                 *)

OperationMatches(op, req) ==
  /\ op.paths = {} \/ MatchesOne(op.paths, req.path)
  /\ ~MatchesOne(op.notPaths, req.path)
  /\ op.methods = {} \/ req.method \in op.methods
  /\ req.method \notin op.notMethods

RuleMatches(rule, req) ==
  /\ \E op \in rule.to : OperationMatches(op, req)
  /\ rule.values \subseteq req.holds
  /\ rule.notValues \cap req.holds = {}

\* DENY policies first; then some ALLOW rule has to match, if there is any.
Allowed(denyRules, allowRules, req) ==
  /\ ~\E r \in denyRules : RuleMatches(r, req)
  /\ \/ allowRules = {}
     \/ \E r \in allowRules : RuleMatches(r, req)

----------------------------------------------------------------------------
\* ControllerResources: the three policies of a valid AuthPolicy.
Generate(p) ==
  /\ policy = p
  /\ deny = DenyRules(p)
  /\ ignore = IgnoreRules(p)
  /\ require = RequireRules(p)

Init ==
  /\ \E p \in Policies : Generate(p)
  /\ request \in Request
  /\ decision = "open"

Decide ==
  /\ decision = "open"
  /\ decision' = IF Allowed(deny, ignore \cup require, request) THEN "allow" ELSE "deny"
  /\ UNCHANGED << policy, istio, request >>

\* A behaviour decides one request; Init takes them all.
Next == Decide

Spec == Init /\ [][Next]_vars

----------------------------------------------------------------------------
\* The three generated policies together admit exactly the requests that the
\* AuthPolicy asks to admit: every auth rule is enforced on its paths and
\* methods, ignored requests pass without a token, and everything else needs
\* the base conditions.  (Where rules share spare room, NothingAdmittedInError
\* is what is left of it.)
DecisionsAsIntended ==
  decision # "open" /\ NoSharing(policy) => (decision = "allow" <=> Intended(policy, request))

\* README: "Endpoints not explicitly mentioned in the manifest require
\* authentication by default."  A request without a token gets through only
\* where an ignore rule covers it and no auth rule does.
AnonymousOnlyWhereIgnored ==
  decision = "allow" /\ request.holds = {} =>
    /\ \E m \in Elems(policy.ignoreRules) : Covers(m, request)
    /\ \A r \in Elems(policy.authRules) : ~Covers(r, request)

\* Rules that share the spare room of the base slice overwrite each other's
\* conditions in the require policy, which may then ask for less than a rule
\* does; the deny policy makes up for it, so that no request is admitted that
\* the AuthPolicy does not intend.
NothingAdmittedInError ==
  decision = "allow" => Intended(policy, request)

\* constructSpecifiedPathsAllowRules: "Each auth rule should result in an
\* allow rule for the specified paths, methods and conditions."
EachAuthRuleHasItsAllowRule ==
  \A r \in Elems(policy.authRules) :
    Rule({ Operation(r.paths, {}, r.methods, {}) },
         Elems(policy.base) \cup Elems(r.when), {}) \in require
=============================================================================
