---------------------------- MODULE AccessProofs ----------------------------
(***************************************************************************)
(* Proofs about who gets in, for every AuthPolicy and every request.       *)
(*                                                                         *)
(* AuthorizationPolicies: what the generated policies admit is what the    *)
(* AuthPolicy intends.  Refusing too much is possible only where auth      *)
(* rules share spare room behind the base conditions.                      *)
(*                                                                         *)
(* AutoLogin: where they share none, and for every auto-login              *)
(* configuration, the filter chain answers as Gateway promises, and the    *)
(* Lua script and the policies agree on what is public.                    *)
(***************************************************************************)
EXTENDS AutoLogin, TLAPS

----------------------------------------------------------------------------
(* AuthorizationPolicies: the rules of the policies and of the AuthPolicy. *)

\* An operation made from a matcher with paths applies where the matcher does.
LEMMA OperationOfMatcher ==
  ASSUME NEW m, NEW req, m.paths # {}
  PROVE  OperationMatches(Operation(m.paths, {}, m.methods, {}), req) <=> Covers(m, req)
BY DEF OperationMatches, Operation, Covers, MatchesOne

\* Some deny rule matches iff an applying auth rule has an unmet condition.
LEMMA DenyMatches ==
  ASSUME NEW p, NEW req, WellFormed(p)
  PROVE  (\E d \in DenyRules(p) : RuleMatches(d, req)) <=>
           \E r \in Elems(p.authRules) :
             /\ Covers(r, req)
             /\ \E c \in Elems(p.base) \cup Elems(r.when) : c \notin req.holds
<1> DEFINE D(r, c) == Rule({ Operation(r.paths, {}, r.methods, {}) }, {}, {c})
<1>1. \A r \in Elems(p.authRules) : \A c : RuleMatches(D(r, c), req) <=> Covers(r, req) /\ c \notin req.holds
  <2> TAKE r \in Elems(p.authRules)
  <2> TAKE c
  <2>1. r.paths # {}
    BY DEF WellFormed
  <2>2. RuleMatches(D(r, c), req) <=>
          OperationMatches(Operation(r.paths, {}, r.methods, {}), req) /\ c \notin req.holds
    BY DEF RuleMatches, Rule
  <2> QED BY <2>1, <2>2, OperationOfMatcher
<1>2. \A d : d \in DenyRules(p) <=>
          \E r \in Elems(p.authRules) : \E c \in Elems(p.base) \cup Elems(r.when) : d = D(r, c)
  <2> DEFINE F(r) == { D(r, c) : c \in Elems(p.base) \cup Elems(r.when) }
  <2>1. DenyRules(p) = UNION { F(r) : r \in Elems(p.authRules) }
    BY DEF DenyRules
  <2>2. \A r, d : d \in F(r) <=> \E c \in Elems(p.base) \cup Elems(r.when) : d = D(r, c)
    BY Zenon
  <2> HIDE DEF F
  <2>3. \A d : d \in UNION { F(r) : r \in Elems(p.authRules) } <=>
                 \E r \in Elems(p.authRules) : d \in F(r)
    OBVIOUS
  <2> HIDE DEF D
  <2> TAKE d
  <2>4. d \in DenyRules(p) <=> \E r \in Elems(p.authRules) : d \in F(r)
    BY <2>1, <2>3
  <2> QED BY <2>2, <2>4
<1> HIDE DEF D
<1> QED BY <1>1, <1>2

\* The ignore policy admits what an ignore rule covers.
LEMMA IgnoreMatches ==
  ASSUME NEW p, NEW req, WellFormed(p)
  PROVE  (\E a \in IgnoreRules(p) : RuleMatches(a, req)) <=>
           \E m \in Elems(p.ignoreRules) : Covers(m, req)
<1>1. CASE p.ignoreRules = << >>
  BY <1>1 DEF IgnoreRules, Elems
<1>2. CASE p.ignoreRules # << >>
  <2> DEFINE To == { Operation(m.paths, {}, m.methods, {}) : m \in Elems(p.ignoreRules) }
  <2>1. IgnoreRules(p) = { Rule(To, {}, {}) }
    BY <1>2 DEF IgnoreRules
  <2>2. RuleMatches(Rule(To, {}, {}), req) <=> \E op \in To : OperationMatches(op, req)
    BY DEF RuleMatches, Rule
  <2>3. (\E op \in To : OperationMatches(op, req)) <=>
          \E m \in Elems(p.ignoreRules) : Covers(m, req)
    <3>1. \A m \in Elems(p.ignoreRules) : m.paths # {}
      BY DEF WellFormed
    <3> QED BY <3>1, OperationOfMatcher
  <2> QED BY <2>1, <2>2, <2>3
<1> QED BY <1>1, <1>2

\* The rule for everything unspecified always asks for the base conditions,
\* and then admits at least what no matcher covers.
LEMMA UnspecifiedMatches ==
  ASSUME NEW p, NEW req \in Request, WellFormed(p)
  PROVE  /\ RuleMatches(UnspecifiedPathsAllowRule(p), req) => Elems(p.base) \subseteq req.holds
         /\ /\ Elems(p.base) \subseteq req.holds
            /\ \A m \in Matchers(p) : ~Covers(m, req)
            => RuleMatches(UnspecifiedPathsAllowRule(p), req)
<1> DEFINE Other(m) == Operation(m.paths, {}, {}, IF m.methods = {} THEN Accepted ELSE m.methods)
           Rest == Operation({Path}, UNION { m.paths : m \in Matchers(p) }, {}, {})
           R == UnspecifiedPathsAllowRule(p)
<1>1. R.values = Elems(p.base) /\ R.notValues = {}
      /\ R.to = { Other(m) : m \in Matchers(p) } \cup {Rest}
  BY DEF UnspecifiedPathsAllowRule, Rule
<1>2. ASSUME Elems(p.base) \subseteq req.holds, \A m \in Matchers(p) : ~Covers(m, req)
      PROVE  \E op \in R.to : OperationMatches(op, req)
  <2>1. CASE \E m \in Matchers(p) : MatchesOne(m.paths, req.path)
    <3>1. PICK m \in Matchers(p) : MatchesOne(m.paths, req.path)
      BY <2>1
    <3>2. m.methods # {} /\ req.method \notin m.methods
      BY <3>1, <1>2 DEF Covers
    <3>3. OperationMatches(Other(m), req)
      BY <3>1, <3>2 DEF OperationMatches, Operation, MatchesOne
    <3> QED BY <3>3, <1>1
  <2>2. CASE \A m \in Matchers(p) : ~MatchesOne(m.paths, req.path)
    <3>1. ~MatchesOne(UNION { m.paths : m \in Matchers(p) }, req.path)
      BY <2>2 DEF MatchesOne
    <3>2. MatchesOne({Path}, req.path)
      BY DEF MatchesOne, Request
    <3>3. OperationMatches(Rest, req)
      BY <3>1, <3>2 DEF OperationMatches, Operation
    <3> QED BY <3>3, <1>1
  <2> QED BY <2>1, <2>2
<1> HIDE DEF R
<1>3. RuleMatches(R, req) <=> (\E op \in R.to : OperationMatches(op, req)) /\ Elems(p.base) \subseteq req.holds
  BY <1>1 DEF RuleMatches
<1> QED BY <1>2, <1>3 DEF R

\* An ALLOW rule of the require policy matches only requests that satisfy the
\* base conditions.
LEMMA RequireNeedsBase ==
  ASSUME NEW p, NEW req \in Request, WellFormed(p),
         NEW a \in RequireRules(p), RuleMatches(a, req)
  PROVE  Elems(p.base) \subseteq req.holds
<1>1. CASE p.authRules = << >> /\ p.ignoreRules = << >>
  BY <1>1 DEF RequireRules, RuleMatches, Rule
<1>2. CASE ~(p.authRules = << >> /\ p.ignoreRules = << >>)
  <2>1. CASE a = UnspecifiedPathsAllowRule(p)
    BY <2>1, UnspecifiedMatches
  <2>2. CASE a \in SpecifiedPathsAllowRules(p)
    <3>1. PICK i \in 1..Len(p.authRules) : a.values = SpecifiedWhen(p, i)
      BY <2>2 DEF SpecifiedPathsAllowRules, Rule
    <3>2. Elems(p.base) \subseteq SpecifiedWhen(p, i)
      BY DEF SpecifiedWhen
    <3> QED BY <3>1, <3>2 DEF RuleMatches
  <2> QED BY <1>2, <2>1, <2>2 DEF RequireRules
<1> QED BY <1>1, <1>2

\* Whatever conditions the rules share: what is admitted is intended.
LEMMA AllowedIsIntended ==
  ASSUME NEW p, NEW req \in Request, WellFormed(p),
         Allowed(DenyRules(p), IgnoreRules(p) \cup RequireRules(p), req)
  PROVE  Intended(p, req)
<1>1. \A r \in Elems(p.authRules) : Covers(r, req) =>
        Elems(p.base) \subseteq req.holds /\ Elems(r.when) \subseteq req.holds
  BY DenyMatches DEF Allowed
<1>2. RequireRules(p) # {}
  BY DEF RequireRules
<1>3. \/ \E m \in Elems(p.ignoreRules) : Covers(m, req)
      \/ Elems(p.base) \subseteq req.holds
  BY <1>2, IgnoreMatches, RequireNeedsBase DEF Allowed
<1> QED BY <1>1, <1>3 DEF Intended

\* Without room to share, every auth rule keeps its own conditions.
LEMMA OwnConditions ==
  ASSUME NEW p, WellFormed(p), NoSharing(p), NEW i \in 1..Len(p.authRules)
  PROVE  SpecifiedWhen(p, i) = Elems(p.base) \cup Elems(p.authRules[i].when)
<1> DEFINE when == p.authRules[i].when
<1>1. p.authRules \in Seq(AuthRule) /\ Len(p.authRules) \in Nat
  BY DEF WellFormed, AuthPolicy
<1>2. Len(when) \in Nat
  <2>1. p.authRules[i] \in AuthRule
    BY <1>1
  <2>2. when \in Seq(Condition)
    BY <2>1 DEF AuthRule
  <2> QED BY <2>2
<1>3. CASE Capacity(Len(p.base)) = Len(p.base)
  <2>1. Capacity(Len(p.base)) - Len(p.base) = 0
    BY <1>3 DEF WellFormed, AuthPolicy
  <2>2. CASE Len(when) > 0
    BY <2>1, <2>2 DEF SpecifiedWhen
  <2>3. CASE Len(when) = 0
    BY <2>1, <2>3 DEF SpecifiedWhen, Elems
  <2> QED BY <1>2, <2>2, <2>3
<1>4. CASE Len(p.authRules) <= 1
  <2>1. i = 1 /\ Len(p.authRules) = 1
    <3>1. \A n \in Nat : n <= 1 /\ i \in 1..n => i = 1 /\ n = 1
      OBVIOUS
    <3> QED BY <3>1, <1>1, <1>4
  <2> DEFINE Writers(j) == { r \in 1..Len(p.authRules) : Len(p.authRules[r].when) >= j }
             LastWriter(j) == CHOOSE r \in Writers(j) : \A q \in Writers(j) : q <= r
  <2>2. \A j \in 1..Len(when) : LastWriter(j) = 1
    <3> TAKE j \in 1..Len(when)
    <3>1. Writers(j) = {1}
      BY <1>2, <2>1
    <3> QED BY <3>1
  <2>3. { p.authRules[LastWriter(j)].when[j] : j \in 1..Len(when) } = Elems(when)
    BY <2>1, <2>2 DEF Elems
  <2> QED BY <2>3 DEF SpecifiedWhen
<1> QED BY <1>3, <1>4 DEF NoSharing

\* And then what is intended is admitted.
LEMMA IntendedIsAllowed ==
  ASSUME NEW p, NEW req \in Request, WellFormed(p), NoSharing(p), Intended(p, req)
  PROVE  Allowed(DenyRules(p), IgnoreRules(p) \cup RequireRules(p), req)
<1>1. ~\E d \in DenyRules(p) : RuleMatches(d, req)
  BY DenyMatches DEF Intended
<1>2. CASE \E r \in Elems(p.authRules) : Covers(r, req)
  <2>1. PICK i \in 1..Len(p.authRules) : Covers(p.authRules[i], req)
    BY <1>2 DEF Elems
  <2> DEFINE r == p.authRules[i]
             a == Rule({ Operation(r.paths, {}, r.methods, {}) }, SpecifiedWhen(p, i), {})
  <2>2. r \in Elems(p.authRules) /\ r.paths # {}
    BY DEF Elems, WellFormed
  <2>3. a \in RequireRules(p)
    <3>1. p.authRules # << >>
      BY <2>2 DEF Elems
    <3> QED BY <3>1 DEF RequireRules, SpecifiedPathsAllowRules
  <2>4. OperationMatches(Operation(r.paths, {}, r.methods, {}), req)
    BY <2>1, <2>2, OperationOfMatcher
  <2>5. SpecifiedWhen(p, i) \subseteq req.holds
    BY <2>1, <2>2, OwnConditions DEF Intended
  <2>6. RuleMatches(a, req)
    BY <2>4, <2>5 DEF RuleMatches, Rule
  <2> QED BY <1>1, <2>3, <2>6 DEF Allowed
<1>3. CASE /\ ~\E r \in Elems(p.authRules) : Covers(r, req)
           /\ \E m \in Elems(p.ignoreRules) : Covers(m, req)
  BY <1>1, <1>3, IgnoreMatches DEF Allowed
<1>4. CASE /\ ~\E r \in Elems(p.authRules) : Covers(r, req)
           /\ ~\E m \in Elems(p.ignoreRules) : Covers(m, req)
  <2>1. Elems(p.base) \subseteq req.holds
    BY <1>4 DEF Intended
  <2>2. CASE p.authRules = << >> /\ p.ignoreRules = << >>
    <3> DEFINE a == Rule({ Operation({Path}, {}, {}, {}) }, Elems(p.base), {})
    <3>1. RuleMatches(a, req)
      BY <2>1 DEF RuleMatches, Rule, OperationMatches, Operation, MatchesOne, Request
    <3> QED BY <1>1, <2>2, <3>1 DEF Allowed, RequireRules
  <2>3. CASE ~(p.authRules = << >> /\ p.ignoreRules = << >>)
    <3>1. \A m \in Matchers(p) : ~Covers(m, req)
      BY <1>4 DEF Matchers, Covers
    <3>2. RuleMatches(UnspecifiedPathsAllowRule(p), req)
      BY <2>1, <3>1, UnspecifiedMatches
    <3> QED BY <1>1, <2>3, <3>2 DEF Allowed, RequireRules
  <2> QED BY <2>2, <2>3
<1> QED BY <1>2, <1>3, <1>4

----------------------------------------------------------------------------
\* The generated policies and the request stay as they are until decided.
Inv ==
  /\ policy \in Policies /\ request \in Request
  /\ deny = DenyRules(policy)
  /\ ignore = IgnoreRules(policy)
  /\ require = RequireRules(policy)
  /\ decision \in { "open", "allow", "deny" }
  /\ decision # "open" =>
       (decision = "allow" <=> Allowed(deny, ignore \cup require, request))

LEMMA Invariance == Spec => []Inv
<1>1. Init => Inv
  BY DEF Init, Inv, Generate
<1>2. Inv /\ [Next]_vars => Inv'
  BY DEF Inv, Next, Decide, vars, istio
<1> QED BY <1>1, <1>2, PTL DEF Spec

\* For every AuthPolicy whose auth rules share no spare room: a request is
\* admitted exactly when the AuthPolicy asks to admit it.
THEOREM Correctness == Spec => []DecisionsAsIntended
<1>1. Inv => DecisionsAsIntended
  <2> SUFFICES ASSUME Inv, decision # "open", NoSharing(policy)
               PROVE  decision = "allow" <=> Intended(policy, request)
    BY DEF DecisionsAsIntended
  <2>1. WellFormed(policy) /\ request \in Request
    BY PoliciesAssumption DEF Inv
  <2> QED BY <2>1, AllowedIsIntended, IntendedIsAllowed DEF Inv
<1> QED BY <1>1, Invariance, PTL

\* For every AuthPolicy, shared room or not: a request without a token gets
\* through only where an ignore rule covers it and no auth rule does.
THEOREM AnonymousRefused == Spec => []AnonymousOnlyWhereIgnored
<1>1. Inv => AnonymousOnlyWhereIgnored
  <2> SUFFICES ASSUME Inv, decision = "allow", request.holds = {}
               PROVE  /\ \E m \in Elems(policy.ignoreRules) : Covers(m, request)
                      /\ \A r \in Elems(policy.authRules) : ~Covers(r, request)
    BY DEF AnonymousOnlyWhereIgnored
  <2>1. WellFormed(policy) /\ request \in Request
    BY PoliciesAssumption DEF Inv
  <2>2. Intended(policy, request)
    BY <2>1, AllowedIsIntended DEF Inv
  <2>3. policy.base[1] \in Elems(policy.base)
    BY <2>1 DEF WellFormed, AuthPolicy, Elems
  <2> QED BY <2>2, <2>3 DEF Intended
<1> QED BY <1>1, Invariance, PTL

\* For every AuthPolicy, shared room or not: what is admitted is intended.
\* The require policy alone does not see to it, because a rule may have lost
\* its conditions there; the deny policy has them all.
THEOREM SharingAdmitsNothing == Spec => []NothingAdmittedInError
<1>1. Inv => NothingAdmittedInError
  <2> SUFFICES ASSUME Inv, decision = "allow"
               PROVE  Intended(policy, request)
    BY DEF NothingAdmittedInError
  <2>1. WellFormed(policy) /\ request \in Request
    BY PoliciesAssumption DEF Inv
  <2> QED BY <2>1, AllowedIsIntended DEF Inv
<1> QED BY <1>1, Invariance, PTL

----------------------------------------------------------------------------
(* Gateway's reading of the rules is AccessRules' own.                     *)

LEMMA SameCovers ==
  ASSUME NEW m, NEW q
  PROVE  Promise!Covers(m, q) <=> Covers(m, q)
BY DEF Promise!Covers, Promise!MatchesOne, Covers, MatchesOne

LEMMA SameIntended ==
  ASSUME NEW p, NEW q
  PROVE  Promise!Intended(p, q) <=> Intended(p, q)
<1>1. \A s : Promise!Elems(s) = Elems(s)
  BY DEF Promise!Elems, Elems
<1> QED BY <1>1, SameCovers DEF Promise!Intended, Intended

\* Whether a matcher covers a request is a matter of path and method.
LEMMA CoversByPathAndMethod ==
  ASSUME NEW m, NEW q, NEW r, q.path = r.path, q.method = r.method
  PROVE  Covers(m, q) <=> Covers(m, r)
BY DEF Covers

Bare == [ request EXCEPT !.holds = {} ]
With(h) == [ request EXCEPT !.holds = h ]

LEMMA BareFields ==
  ASSUME request \in Request, NEW h
  PROVE  /\ Bare.path = request.path /\ Bare.method = request.method /\ Bare.holds = {}
         /\ With(h).path = request.path /\ With(h).method = request.method /\ With(h).holds = h
         /\ [ Bare EXCEPT !.holds = h ] = With(h)
         /\ request.path \in Path /\ request.method \in Method
BY DEF Request, Bare, With

LEMMA IntendedForIs ==
  ASSUME request \in Request, NEW h
  PROVE  Promise!IntendedFor(h) <=> Intended(policy, With(h))
BY SameIntended, BareFields DEF Promise!IntendedFor, Bare

----------------------------------------------------------------------------
(* What the script lets pass is what is public.                            *)

RuleCovers == \E r \in Elems(policy.authRules) : Covers(r, request)
IgnoreCovers == \E m \in Elems(policy.ignoreRules) : Covers(m, request)
LoginPath == { login.redirectPath, login.logoutPath } \cup login.loginPaths

\* Without a token: only what is ignored and under no auth rule.
LEMMA IntendedAnonymously ==
  ASSUME request \in Request, WellFormed(policy)
  PROVE  Intended(policy, With({})) <=> IgnoreCovers /\ ~RuleCovers
<1>1. policy.base[1] \in Elems(policy.base)
  BY DEF WellFormed, AuthPolicy, Elems
<1>2. \A m : Covers(m, With({})) <=> Covers(m, request)
  BY BareFields, CoversByPathAndMethod
<1>3. With({}).holds = {}
  BY BareFields
<1> HIDE DEF With
<1> QED BY <1>1, <1>2, <1>3 DEF Intended, RuleCovers, IgnoreCovers

\* What is open to anyone stays open to those who show claims.
LEMMA AnonymousIsWeakest ==
  ASSUME request \in Request, IgnoreCovers, ~RuleCovers, NEW h
  PROVE  Intended(policy, With(h))
<1>1. \A m : Covers(m, With(h)) <=> Covers(m, request)
  BY BareFields, CoversByPathAndMethod
<1> HIDE DEF With
<1> QED BY <1>1 DEF Intended, RuleCovers, IgnoreCovers

LEMMA MatcherCovers ==
  ASSUME NEW r, NEW q
  PROVE  Covers(MatcherOf(r), q) <=> Covers(r, q)
BY DEF Covers, MatcherOf

LEMMA BypassIs ==
  ASSUME script = GenerateLuaScript(policy, login)
  PROVE  should_bypass(request) <=> IgnoreCovers /\ ~RuleCovers /\ request.path \notin LoginPath
<1> DEFINE OwnPaths == [ paths |-> { {login.redirectPath}, {login.logoutPath} }
                                     \cup { {x} : x \in login.loginPaths },
                         methods |-> {} ]
<1>1. script.ignore = Elems(policy.ignoreRules)
      /\ script.require = { MatcherOf(r) : r \in Elems(policy.authRules) } \cup { OwnPaths }
  BY DEF GenerateLuaScript, IgnoreAuthMatchers, RequireAuthMatchers
<1>2. Covers(OwnPaths, request) <=> request.path \in LoginPath
  BY DEF Covers, MatchesOne, LoginPath
<1> HIDE DEF OwnPaths
<1>3. match(script.require, request) <=> RuleCovers \/ request.path \in LoginPath
  BY <1>1, <1>2, MatcherCovers DEF match, RuleCovers
<1>4. match(script.ignore, request) <=> IgnoreCovers
  BY <1>1 DEF match, IgnoreCovers
<1> QED BY <1>3, <1>4 DEF should_bypass

DeniesRedirect == \E r \in Elems(policy.authRules) : r.denyRedirect /\ Covers(r, request)

LEMMA DenyRedirectIs ==
  ASSUME script = GenerateLuaScript(policy, login)
  PROVE  should_deny_redirect(request) <=> DeniesRedirect
<1>1. script.denyRedirect = { MatcherOf(r) : r \in { q \in Elems(policy.authRules) : q.denyRedirect } }
  BY DEF GenerateLuaScript, DenyRedirectMatchers
<1> QED BY <1>1, MatcherCovers DEF should_deny_redirect, match, DeniesRedirect

LEMMA PublicIs ==
  ASSUME request \in Request, WellFormed(policy), script = GenerateLuaScript(policy, login)
  PROVE  Promise!Public <=> should_bypass(request)
<1>1. Promise!LoginPaths = LoginPath
  BY DEF Promise!LoginPaths, LoginPath
<1>2. Bare.path = request.path
  BY BareFields
<1>3. Promise!Public <=> Promise!IntendedFor({}) /\ request.path \notin LoginPath
  BY <1>1, <1>2 DEF Promise!Public, Bare
<1>4. Promise!IntendedFor({}) <=> IgnoreCovers /\ ~RuleCovers
  BY IntendedForIs, IntendedAnonymously
<1>5. should_bypass(request) <=> IgnoreCovers /\ ~RuleCovers /\ request.path \notin LoginPath
  BY BypassIs
<1> QED BY <1>3, <1>4, <1>5

----------------------------------------------------------------------------
(* The invariant of the chain.                                             *)

\* The configuration is generated from one AuthPolicy.
ConfigInv ==
  /\ policy \in Policies
  /\ deny = DenyRules(policy) /\ ignore = IgnoreRules(policy) /\ require = RequireRules(policy)
  /\ login \in { ResolveAutoLoginConfig(s) : s \in AutoLogins }
  /\ script = GenerateLuaScript(policy, login)
  /\ claims \in SUBSET Condition

ClientInv ==
  /\ session \in BOOLEAN
  /\ request \in Request /\ goal.path \in Path
  /\ carries \in { "none", "good", "bad", "code" }

\* The headers tell the filters after the script what it found.
HeadersInv ==
  IF login.enabled
  THEN /\ headers.bypass <=> should_bypass(request)
       /\ headers.denyRedirect <=> should_deny_redirect(request)
  ELSE ~headers.bypass

\* How a request got past the OAuth2 filter.
PastLogin ==
  login.enabled =>
    PassThrough \/ (session /\ request.path \notin { login.redirectPath, login.logoutPath })

StageInv ==
  /\ stage \in { "lua", "oauth2", "jwt_authn", "rbac", "answered" }
  /\ stage # "answered" => answer = "none" /\ decision = "open"
  /\ stage = "answered" =>
       answer \in { "served", "unauthorized", "forbidden", "login", "callback", "logout" }
  /\ stage \in { "lua", "oauth2" } => login.enabled
  /\ stage \in { "oauth2", "jwt_authn", "rbac" } => HeadersInv
  /\ stage \in { "jwt_authn", "rbac" } => PastLogin
  /\ stage = "rbac" => Token # "bad"
                       /\ request.holds = IF Token = "good" THEN claims ELSE {}

ChainInv == ConfigInv /\ ClientInv /\ StageInv /\ BypassedIsServed /\ LoginTriggersOnProtected

LEMMA ConfigStep == ConfigInv /\ [ChainNext]_chainVars => ConfigInv'
<1> SUFFICES ASSUME ConfigInv, [ChainNext]_chainVars PROVE ConfigInv'
  OBVIOUS
<1>1. UNCHANGED << policy, deny, ignore, require, login, script, claims >>
  BY DEF ChainNext, FilterStep, envoy_on_request, OAuth2PassThrough, OAuth2SignOut,
         OAuth2Callback, OAuth2Authenticate, JwtAuthn, Rbac, Decide, FollowLogin,
         FollowCallback, NewRequest, config, istio, chainVars, vars
<1> QED BY <1>1 DEF ConfigInv, GenerateLuaScript, DenyRules, IgnoreRules, RequireRules

\* The paths of the login are paths.
LEMMA LoginPathsExist ==
  ASSUME ConfigInv
  PROVE  login.redirectPath \in Path /\ login.logoutPath \in Path
<1>1. PICK s \in AutoLogins : login = ResolveAutoLoginConfig(s)
  BY DEF ConfigInv
<1>2. s.redirectPath \subseteq Path /\ s.logoutPath \subseteq Path
  BY AutoLoginsAssumption DEF AutoLoginSpec
<1> QED BY <1>1, <1>2, AutoLoginsAssumption DEF ResolveAutoLoginConfig, OrDefault

LEMMA ClientStep == ConfigInv /\ ClientInv /\ [ChainNext]_chainVars => ClientInv'
<1> SUFFICES ASSUME ConfigInv, ClientInv, [ChainNext]_chainVars PROVE ClientInv'
  OBVIOUS
<1> USE DEF ClientInv
<1>1. CASE envoy_on_request \/ OAuth2PassThrough \/ OAuth2SignOut \/ OAuth2Callback
           \/ OAuth2Authenticate \/ Rbac
  BY <1>1 DEF envoy_on_request, OAuth2PassThrough, OAuth2SignOut, OAuth2Callback,
              OAuth2Authenticate, Rbac, Decide
<1>2. CASE JwtAuthn
  <2>1. request' = request \/ \E h \in SUBSET Condition : request' = [ request EXCEPT !.holds = h ]
    BY <1>2 DEF JwtAuthn, ConfigInv
  <2>2. request' \in Request
    BY <2>1 DEF Request
  <2> QED BY <1>2, <2>2 DEF JwtAuthn
<1>3. CASE FollowLogin \/ FollowCallback \/ NewRequest
  <2>1. \A path \in Path, method \in Method :
          LET q == [ path |-> path, method |-> method, holds |-> {} ]
          IN  q \in Request /\ q.path = path
    BY DEF Request
  <2>2. CASE FollowLogin \/ FollowCallback
    BY <2>1, <2>2, LoginPathsExist, BrowserAssumption DEF FollowLogin, FollowCallback, Arrive
  <2>3. CASE NewRequest
    BY <2>1, <2>3 DEF NewRequest, Arrive
  <2> QED BY <1>3, <2>2, <2>3
<1>4. CASE UNCHANGED chainVars
  BY <1>4 DEF chainVars, vars
<1> QED BY <1>1, <1>2, <1>3, <1>4 DEF ChainNext, FilterStep

\* What the script found does not depend on the claims that are known later.
LEMMA SameFindings ==
  ASSUME script' = script, request'.path = request.path, request'.method = request.method
  PROVE  /\ should_bypass(request)' <=> should_bypass(request)
         /\ should_deny_redirect(request)' <=> should_deny_redirect(request)
<1>1. \A m : Covers(m, request') <=> Covers(m, request)
  BY CoversByPathAndMethod
<1> QED BY <1>1 DEF should_bypass, should_deny_redirect, match

\* A request on its way stays on its way, with what the filters found out.
LEMMA PassOn ==
  ASSUME ConfigInv, ClientInv, StageInv,
         \/ envoy_on_request \/ OAuth2PassThrough
         \/ OAuth2Authenticate /\ session
         \/ JwtAuthn /\ Token # "bad"
  PROVE  /\ StageInv'
         /\ stage' # "answered"
         /\ UNCHANGED << policy, login, claims, session, carries, answer, Bare >>
<1> USE DEF config, istio
<1>1. CASE envoy_on_request
  <2>1. /\ stage' = "oauth2" /\ stage = "lua" /\ answer' = answer /\ decision' = decision
        /\ UNCHANGED << login, script, request, policy, claims, session, carries >>
        /\ headers' = [ bypass |-> should_bypass(request),
                        denyRedirect |-> should_deny_redirect(request) ]
    BY <1>1 DEF envoy_on_request, PassTo
  <2>2. /\ headers'.bypass <=> should_bypass(request)
        /\ headers'.denyRedirect <=> should_deny_redirect(request)
    BY <2>1
  <2>3. HeadersInv'
    BY <2>1, <2>2, SameFindings DEF HeadersInv, StageInv
  <2> QED BY <2>1, <2>3 DEF StageInv, Bare
<1>2. CASE OAuth2PassThrough \/ (OAuth2Authenticate /\ session)
  <2>1. /\ stage' = "jwt_authn" /\ stage = "oauth2" /\ answer' = answer /\ decision' = decision
        /\ UNCHANGED << login, script, request, headers, policy, claims, session, carries >>
        /\ PassThrough \/ (session /\ request.path \notin { login.redirectPath, login.logoutPath })
    BY <1>2 DEF OAuth2PassThrough, OAuth2Authenticate, PassTo
  <2>2. HeadersInv'
    BY <2>1, SameFindings DEF HeadersInv, StageInv
  <2>3. PastLogin'
    BY <2>1 DEF PastLogin, PassThrough
  <2> QED BY <2>1, <2>2, <2>3 DEF StageInv, Bare
<1>3. CASE JwtAuthn /\ Token # "bad"
  <2>1. /\ stage' = "rbac" /\ stage = "jwt_authn" /\ answer' = answer /\ decision' = decision
        /\ UNCHANGED << login, script, headers, policy, claims, session, carries >>
        /\ request' = With(IF Token = "good" THEN claims ELSE {})
    BY <1>3 DEF JwtAuthn, PassTo, With
  <2>2. /\ request'.path = request.path /\ request'.method = request.method
        /\ request'.holds = IF Token = "good" THEN claims ELSE {}
    BY <2>1, BareFields DEF ClientInv
  <2>3. HeadersInv'
    BY <2>1, <2>2, SameFindings DEF HeadersInv, StageInv
  <2>4. PastLogin'
    BY <2>1, <2>2 DEF PastLogin, PassThrough, StageInv
  <2>5. Token' = Token
    BY <2>1 DEF Token
  <2>6. Bare' = Bare
    <3>1. [ With(IF Token = "good" THEN claims ELSE {}) EXCEPT !.holds = {} ] = Bare
      BY DEF Bare, With, ClientInv, Request
    <3> QED BY <2>1, <3>1 DEF Bare
  <2> QED BY <1>3, <2>1, <2>2, <2>3, <2>4, <2>5, <2>6 DEF StageInv
<1> QED BY <1>1, <1>2, <1>3

\* A new request starts at the script, or at the JWT filter without it.
LEMMA AskStep ==
  ASSUME ConfigInv, ClientInv, StageInv, FollowLogin \/ FollowCallback \/ NewRequest
  PROVE  StageInv' /\ stage' # "answered" /\ answer # "none" /\ answer' = "none"
         /\ UNCHANGED << policy, login, claims, session >>
<1>1. /\ headers' = NoHeaders /\ answer' = "none" /\ decision' = "open"
      /\ stage' = IF login.enabled THEN "lua" ELSE "jwt_authn"
      /\ UNCHANGED << policy, login, claims, session >>
      /\ stage = "answered"
  BY DEF FollowLogin, FollowCallback, NewRequest, Arrive, config
<1>2. ~headers'.bypass
  BY <1>1 DEF NoHeaders
<1> QED BY <1>1, <1>2 DEF StageInv, HeadersInv, PastLogin

----------------------------------------------------------------------------
(* Every answer is one that Gateway allows.                                *)

Own == { login.redirectPath, login.logoutPath }
Watched == login.enabled /\ carries \notin { "good", "bad" }

\* Gateway's terms in the terms of the chain.
LEMMA Reading ==
  ASSUME ConfigInv, ClientInv
  PROVE  /\ Promise!InLogin <=> Watched
         /\ Promise!Anonymous <=>
              Watched /\ ~session /\ ~should_bypass(request) /\ request.path \notin Own
         /\ Promise!DenyRedirect <=> should_deny_redirect(request)
         /\ Promise!Known = IF carries = "good" \/ (Watched /\ session) THEN claims ELSE {}
         /\ Promise!MayLogOut <=> Watched /\ request.path = login.logoutPath
         /\ Promise!MayCallBack <=> Watched /\ request.path = login.redirectPath /\ carries = "code"
<1>1. WellFormed(policy) /\ script = GenerateLuaScript(policy, login) /\ request \in Request
  BY PoliciesAssumption DEF ConfigInv, ClientInv
<1>2. Bare.path = request.path /\ Bare.method = request.method
  BY <1>1, BareFields
<1>3. Promise!InLogin <=> Watched
  BY DEF Promise!InLogin, Promise!HasBearer, Watched
<1>4. Promise!Public <=> should_bypass(request)
  BY <1>1, PublicIs
<1>5. Promise!DenyRedirect <=> should_deny_redirect(request)
  <2>1. \A q : Promise!Elems(q) = Elems(q)
    BY DEF Promise!Elems, Elems
  <2>2. \A r : Promise!Covers(r, Bare) <=> Covers(r, request)
    BY <1>2, SameCovers, CoversByPathAndMethod
  <2>3. Promise!DenyRedirect <=> DeniesRedirect
    BY <2>1, <2>2 DEF Promise!DenyRedirect, DeniesRedirect, Bare
  <2> QED BY <1>1, <2>3, DenyRedirectIs
<1>6. Promise!Anonymous <=>
        Promise!InLogin /\ ~session /\ ~Promise!Public /\ request.path \notin Own
  BY <1>2 DEF Promise!Anonymous, Own, Bare
<1>7. Promise!Known = IF carries = "good" \/ (Watched /\ session) THEN claims ELSE {}
  BY <1>3 DEF Promise!Known
<1>8. /\ Promise!MayLogOut <=> Promise!InLogin /\ request.path = login.logoutPath
      /\ Promise!MayCallBack <=>
           Promise!InLogin /\ request.path = login.redirectPath /\ carries = "code"
  BY <1>2 DEF Promise!MayLogOut, Promise!MayCallBack, Bare
<1> QED BY <1>3, <1>4, <1>5, <1>6, <1>7, <1>8

\* The answers of the OAuth2 filter.
LEMMA LoginAnswers ==
  ASSUME ConfigInv, ClientInv, StageInv,
         \/ OAuth2SignOut \/ OAuth2Callback
         \/ OAuth2Authenticate /\ ~session
  PROVE  /\ Watched /\ ~should_bypass(request)
         /\ headers.bypass <=> should_bypass(request)
         /\ \/ /\ answer' = "logout" /\ session' = FALSE /\ Promise!MayLogOut
               /\ request.path \in Own
            \/ /\ answer' = "callback" /\ session' = TRUE /\ Promise!MayCallBack
               /\ request.path \in Own
            \/ /\ answer' = "unauthorized" /\ session' = session /\ Promise!MayBeUnauthorized
               /\ request.path \notin Own => should_deny_redirect(request)
            \/ /\ answer' = "login" /\ session' = session /\ Promise!MaySendToLogin
               /\ request.path \notin Own /\ ~should_deny_redirect(request)
<1>1. stage = "oauth2" /\ ~PassThrough /\ login.enabled /\ HeadersInv
  BY DEF OAuth2SignOut, OAuth2Callback, OAuth2Authenticate, StageInv
<1>2. Watched /\ ~should_bypass(request)
      /\ (headers.bypass <=> should_bypass(request))
      /\ (headers.denyRedirect <=> should_deny_redirect(request))
  BY <1>1 DEF PassThrough, HeadersInv, Watched
<1>3. Bare.path = request.path
  BY BareFields DEF ClientInv
<1>4. CASE OAuth2SignOut
  BY <1>2, <1>4, Reading DEF OAuth2SignOut, Answer, Own
<1>5. CASE OAuth2Callback
  <2>1. request.path = login.redirectPath
    BY <1>5 DEF OAuth2Callback
  <2>2. CASE carries = "code"
    BY <1>2, <1>5, <2>1, <2>2, Reading DEF OAuth2Callback, Answer, Own
  <2>3. CASE carries # "code"
    <3>1. Promise!MayBeUnauthorized
      BY <1>2, <1>3, <2>1, <2>3, Reading DEF Promise!MayBeUnauthorized, Bare
    <3> QED BY <1>2, <1>5, <2>1, <2>3, <3>1 DEF OAuth2Callback, Answer, Own
  <2> QED BY <2>2, <2>3
<1>6. CASE OAuth2Authenticate /\ ~session
  <2>1. Promise!Anonymous /\ request.path \notin Own /\ session' = session
    BY <1>2, <1>6, Reading DEF OAuth2Authenticate, Own
  <2>2. CASE headers.denyRedirect
    <3>1. Promise!MayBeUnauthorized
      BY <1>2, <2>1, <2>2, Reading DEF Promise!MayBeUnauthorized
    <3> QED BY <1>2, <1>6, <2>1, <2>2, <3>1 DEF OAuth2Authenticate, Answer
  <2>3. CASE ~headers.denyRedirect
    <3>1. Promise!MaySendToLogin
      BY <1>2, <2>1, <2>3, Reading DEF Promise!MaySendToLogin
    <3> QED BY <1>2, <1>6, <2>1, <2>3, <3>1 DEF OAuth2Authenticate, Answer
  <2> QED BY <2>2, <2>3
<1> QED BY <1>2, <1>4, <1>5, <1>6

\* The answers of the AuthorizationPolicies.
LEMMA RbacAnswers ==
  ASSUME ConfigInv, ClientInv, StageInv, NoSharing(policy), Rbac
  PROVE  /\ \/ answer' = "served" /\ Promise!MayServe
            \/ answer' = "forbidden" /\ Promise!MayForbid
         /\ headers.bypass /\ carries = "none" => answer' = "served"
         /\ login.enabled /\ carries = "none" /\ ~session => should_bypass(request)
<1>1. /\ HeadersInv /\ PastLogin
      /\ Token # "bad" /\ request.holds = IF Token = "good" THEN claims ELSE {}
  BY DEF Rbac, StageInv
<1>2. WellFormed(policy) /\ request \in Request /\ script = GenerateLuaScript(policy, login)
  BY PoliciesAssumption DEF ConfigInv, ClientInv
<1>3. carries # "bad" /\ Bare.path = request.path
  BY <1>1, <1>2, BareFields DEF Token
<1>4. answer' = IF Intended(policy, request) THEN "served" ELSE "forbidden"
  <2>1. decision' = IF Allowed(DenyRules(policy), IgnoreRules(policy) \cup RequireRules(policy), request)
                    THEN "allow" ELSE "deny"
    BY DEF Rbac, Decide, ConfigInv
  <2>2. Allowed(DenyRules(policy), IgnoreRules(policy) \cup RequireRules(policy), request)
          <=> Intended(policy, request)
    BY <1>2, AllowedIsIntended, IntendedIsAllowed
  <2> QED BY <2>1, <2>2 DEF Rbac, Answer
<1>5. request = With(request.holds)
  BY <1>2 DEF With, Request
<1>6. ASSUME Watched
      PROVE  /\ headers.bypass \/ (session /\ request.path \notin Own)
             /\ headers.bypass <=> should_bypass(request)
  BY <1>1, <1>6 DEF PastLogin, PassThrough, HeadersInv, Watched, Own
<1>7. headers.bypass => Intended(policy, request) /\ Intended(policy, With(Promise!Known))
                        /\ request.path \notin Own
  <2> SUFFICES ASSUME headers.bypass
               PROVE  Intended(policy, request) /\ Intended(policy, With(Promise!Known))
                      /\ request.path \notin Own
    OBVIOUS
  <2>1. should_bypass(request)
    BY <1>1 DEF HeadersInv
  <2>2. IgnoreCovers /\ ~RuleCovers /\ request.path \notin Own
    BY <1>2, <2>1, BypassIs DEF LoginPath, Own
  <2>3. \A h : Intended(policy, With(h))
    BY <1>2, <2>2, AnonymousIsWeakest
  <2> QED BY <1>5, <2>2, <2>3
<1>8. ~headers.bypass => request.holds = Promise!Known
  BY <1>1, <1>3, Reading DEF Token, Watched, ClientInv
<1>9. Promise!IntendedFor(Promise!Known) <=> Intended(policy, request)
  <2>1. Promise!IntendedFor(Promise!Known) <=> Intended(policy, With(Promise!Known))
    BY <1>2, IntendedForIs
  <2> QED BY <1>5, <1>7, <1>8, <2>1
<1>10. ~Promise!Anonymous /\ (Promise!InLogin => request.path \notin Own)
  BY <1>6, <1>7, Reading
<1>11. CASE Intended(policy, request)
  <2>1. Promise!MayServe
    BY <1>3, <1>9, <1>10, <1>11 DEF Promise!MayServe, Bare, Own
  <2> QED BY <1>4, <1>6, <1>11, <2>1 DEF Watched
<1>12. CASE ~Intended(policy, request)
  <2>1. Promise!MayForbid
    BY <1>3, <1>9, <1>10, <1>12 DEF Promise!MayForbid
  <2> QED BY <1>4, <1>6, <1>7, <1>12, <2>1 DEF Watched
<1> QED BY <1>11, <1>12

\* A filter that answers makes a Reply of Gateway, and keeps the properties.
Replying ==
  \/ OAuth2SignOut \/ OAuth2Callback \/ Rbac
  \/ OAuth2Authenticate /\ ~session
  \/ JwtAuthn /\ Token = "bad"

LEMMA ReplyUnchanged ==
  ASSUME Replying, StageInv
  PROVE  /\ stage' = "answered" /\ answer = "none"
         /\ UNCHANGED << policy, login, script, claims, request, carries, headers >>
BY DEF Replying, OAuth2SignOut, OAuth2Callback, OAuth2Authenticate, JwtAuthn, Rbac, Decide, Answer,
       config, StageInv

LEMMA ReplyStep ==
  ASSUME ConfigInv, ClientInv, StageInv, NoSharing(policy), Replying
  PROVE  Promise!Reply
<1> DEFINE Gives(a) ==
      /\ answer' = a /\ Promise!May(a)
      /\ session' = CASE a = "callback" -> TRUE [] a = "logout" -> FALSE [] OTHER -> session
<1>1. \E a \in Promise!Answers : Gives(a)
  <2>1. CASE OAuth2SignOut \/ OAuth2Callback \/ (OAuth2Authenticate /\ ~session)
    BY <2>1, LoginAnswers DEF Promise!May, Promise!Answers
  <2>2. CASE JwtAuthn /\ Token = "bad"
    <3>1. answer' = "unauthorized" /\ session' = session /\ carries = "bad"
      BY <2>2 DEF JwtAuthn, Answer, Token
    <3> QED BY <3>1 DEF Promise!May, Promise!MayBeUnauthorized, Promise!Answers
  <2>3. CASE Rbac
    <3>1. session' = session
      BY <2>3 DEF Rbac
    <3> QED BY <2>3, <3>1, RbacAnswers DEF Promise!May, Promise!Answers
  <2> QED BY <2>1, <2>2, <2>3 DEF Replying
<1>2. answer = "none" /\ UNCHANGED << policy, login, claims, request, carries >>
  BY ReplyUnchanged
<1> QED BY <1>1, <1>2 DEF Promise!Reply

LEMMA ReplyKeeps ==
  ASSUME ConfigInv, ClientInv, StageInv, NoSharing(policy), Replying
  PROVE  StageInv' /\ BypassedIsServed' /\ LoginTriggersOnProtected'
<1>1. /\ stage' = "answered"
      /\ UNCHANGED << policy, login, script, claims, request, carries, headers >>
  BY ReplyUnchanged
<1>2. answer' \in { "served", "unauthorized", "forbidden", "login", "callback", "logout" }
  BY LoginAnswers, RbacAnswers DEF Replying, JwtAuthn, Answer
<1>3. StageInv'
  BY <1>1, <1>2 DEF StageInv
<1>4. BypassedIsServed'
  <2> SUFFICES ASSUME headers.bypass, carries = "none" PROVE answer' = "served"
    BY <1>1 DEF BypassedIsServed
  <2>1. ~(OAuth2SignOut \/ OAuth2Callback \/ (OAuth2Authenticate /\ ~session))
    BY LoginAnswers
  <2>2. ~(JwtAuthn /\ Token = "bad")
    BY DEF Token
  <2> QED BY <2>1, <2>2, RbacAnswers DEF Replying
<1>5. LoginTriggersOnProtected'
  <2> SUFFICES ASSUME login.enabled, ~session', carries = "none", request.path \notin Own,
                      ~Intended(policy, Bare)
               PROVE  answer' = IF DeniesRedirect THEN "unauthorized" ELSE "login"
    BY <1>1 DEF LoginTriggersOnProtected, DeniesRedirect, Bare, Own
  <2>1. CASE OAuth2SignOut \/ OAuth2Callback \/ (OAuth2Authenticate /\ ~session)
    BY <2>1, LoginAnswers, DenyRedirectIs DEF ConfigInv
  <2>2. ~(JwtAuthn /\ Token = "bad")
    BY DEF Token
  <2>3. ~Rbac
    <3> SUFFICES ASSUME Rbac PROVE FALSE
      OBVIOUS
    <3>1. should_bypass(request)
      BY RbacAnswers DEF Rbac
    <3>2. IgnoreCovers /\ ~RuleCovers
      BY <3>1, BypassIs DEF ConfigInv
    <3>3. Intended(policy, With({}))
      BY <3>2, AnonymousIsWeakest DEF ClientInv
    <3> QED BY <3>3 DEF Bare, With
  <2> QED BY <2>1, <2>2, <2>3 DEF Replying
<1> QED BY <1>3, <1>4, <1>5

\* Every step passes a request on, answers it, or brings the next one.
LEMMA StepKinds ==
  ASSUME [ChainNext]_chainVars
  PROVE  \/ Replying
         \/ envoy_on_request \/ OAuth2PassThrough
         \/ OAuth2Authenticate /\ session
         \/ JwtAuthn /\ Token # "bad"
         \/ FollowLogin \/ FollowCallback \/ NewRequest
         \/ UNCHANGED chainVars
BY DEF ChainNext, FilterStep, Replying

LEMMA ChainInvInit == ChainInit => ChainInv
<1> SUFFICES ASSUME ChainInit PROVE ChainInv
  OBVIOUS
<1>1. ConfigInv
  BY DEF ChainInit, ConfigInv, Generate
<1>2. ClientInv
  <2>1. request \in Request /\ request.path \in Path
    BY DEF ChainInit, Request
  <2> QED BY <2>1 DEF ChainInit, ClientInv
<1>3. stage # "answered"
  BY DEF ChainInit
<1>4. ~headers.bypass
  BY DEF ChainInit, NoHeaders
<1>5. StageInv
  BY <1>4 DEF ChainInit, StageInv, HeadersInv, PastLogin
<1> QED BY <1>1, <1>2, <1>3, <1>5 DEF ChainInv, BypassedIsServed, LoginTriggersOnProtected

LEMMA ChainInvStep ==
  ASSUME \A p \in Policies : NoSharing(p)
  PROVE  ChainInv /\ [ChainNext]_chainVars => ChainInv'
<1> SUFFICES ASSUME ChainInv, [ChainNext]_chainVars PROVE ChainInv'
  OBVIOUS
<1>1. ConfigInv /\ ClientInv /\ StageInv /\ NoSharing(policy)
  BY DEF ChainInv, ConfigInv
<1>2. ConfigInv' /\ ClientInv'
  BY <1>1, ConfigStep, ClientStep
<1>3. CASE Replying
  BY <1>1, <1>2, <1>3, ReplyKeeps DEF ChainInv
<1>4. CASE UNCHANGED chainVars
  <2>1. StageInv' /\ BypassedIsServed' /\ LoginTriggersOnProtected'
    BY <1>1, <1>4 DEF ChainInv, chainVars, vars, StageInv, HeadersInv, PastLogin, PassThrough, Token,
                      should_bypass, should_deny_redirect, match, BypassedIsServed,
                      LoginTriggersOnProtected
  <2> QED BY <1>2, <2>1 DEF ChainInv
<1>5. CASE ~Replying /\ ~UNCHANGED chainVars
  <2>1. StageInv' /\ stage' # "answered"
    BY <1>1, <1>5, StepKinds, PassOn, AskStep
  <2> QED BY <1>2, <2>1 DEF ChainInv, BypassedIsServed, LoginTriggersOnProtected
<1> QED BY <1>3, <1>4, <1>5

LEMMA ChainInvariance ==
  ASSUME \A p \in Policies : NoSharing(p)
  PROVE  ChainSpec => []ChainInv
BY ChainInvInit, ChainInvStep, PTL DEF ChainSpec

\* The Lua script and the AuthorizationPolicies agree: what the script sends
\* past the login without a token, the policies serve without a token.
THEOREM ScriptAndPoliciesAgree ==
  ASSUME \A p \in Policies : NoSharing(p)
  PROVE  ChainSpec => []BypassedIsServed
<1>1. ChainInv => BypassedIsServed
  BY DEF ChainInv
<1> QED BY <1>1, ChainInvariance, PTL

\* Auto-login triggers on every protected page, and is answered with 401
\* exactly where an auth rule with denyRedirect covers the request.
THEOREM LoginTriggers ==
  ASSUME \A p \in Policies : NoSharing(p)
  PROVE  ChainSpec => []LoginTriggersOnProtected
<1>1. ChainInv => LoginTriggersOnProtected
  BY DEF ChainInv
<1> QED BY <1>1, ChainInvariance, PTL

\* The chain of filters, with the headers of the script, the session of the
\* OAuth2 filter and the three policies, implements Gateway.
THEOREM ChainImplementsGateway ==
  ASSUME \A p \in Policies : NoSharing(p)
  PROVE  ChainSpec => KeepsPromise
<1>1. ChainInit => Promise!Init
  <2> SUFFICES ASSUME ChainInit PROVE Promise!Init
    OBVIOUS
  <2>1. Bare \in Promise!Request
    BY DEF ChainInit, Bare, Promise!Request
  <2>2. policy \in Policies
    BY DEF ChainInit, Generate
  <2> QED BY <2>1, <2>2 DEF ChainInit, Promise!Init, Promise!Carried, Bare
<1>2. ChainInv /\ [ChainNext]_chainVars => [Promise!Next]_(Promise!vars)
  <2> SUFFICES ASSUME ChainInv, [ChainNext]_chainVars
               PROVE  Promise!Next \/ UNCHANGED Promise!vars
    OBVIOUS
  <2>1. ConfigInv /\ ClientInv /\ StageInv /\ NoSharing(policy)
    BY DEF ChainInv, ConfigInv
  <2>2. CASE Replying
    BY <2>1, <2>2, ReplyStep DEF Promise!Next
  <2>3. CASE FollowLogin \/ FollowCallback \/ NewRequest
    <3>1. ClientInv'
      BY <2>1, ClientStep
    <3>2. Bare' \in Promise!Request /\ carries' \in Promise!Carried
      BY <3>1 DEF ClientInv, Bare, Request, Promise!Request, Promise!Carried
    <3>3. answer # "none" /\ answer' = "none" /\ UNCHANGED << policy, login, claims, session >>
      BY <2>1, <2>3, AskStep
    <3> QED BY <3>2, <3>3 DEF Promise!Next, Promise!Ask, Bare
  <2>4. CASE UNCHANGED chainVars
    BY <2>4 DEF chainVars, vars, Promise!vars
  <2>5. CASE \/ envoy_on_request \/ OAuth2PassThrough
             \/ OAuth2Authenticate /\ session
             \/ JwtAuthn /\ Token # "bad"
    BY <2>1, <2>5, PassOn DEF Promise!vars, Bare
  <2> QED BY <2>2, <2>3, <2>4, <2>5, StepKinds
<1> QED BY <1>1, <1>2, ChainInvariance, PTL DEF ChainSpec, KeepsPromise, Promise!Spec
=============================================================================
