-------------------------- MODULE ControllerProofs --------------------------
(***************************************************************************)
(* Proofs about Controller, for every set of specs, every budget and every *)
(* lag of the informers: type correctness; that a pass only changes what   *)
(* its AuthPolicy controls, unless somebody else takes a name the operator *)
(* still holds an owned copy of; and that ObservedGeneration is valid and  *)
(* never goes back, unless the AuthPolicy is recreated under a pass.       *)
(***************************************************************************)
EXTENDS Controller, TLAPS

----------------------------------------------------------------------------
(* Types of what the generators and the API server produce.                *)

LEMMA NoObjectType == NoObject \in Object
BY DEF NoObject, Object, Absent

LEMMA WantedType ==
  ASSUME NEW uid \in Nat, NEW body \in Seq(Int), NEW extra \in Nat
  PROVE  Wanted(uid, body, extra) \in Object
BY DEF Wanted, Object, Foreign

\* A generator returns an object or none.
LEMMA DesiredType ==
  ASSUME NEW k, NEW spec \in PolicySpec, NEW uid \in Nat, NEW cred \in Nat, NEW hmac \in Nat
  PROVE  GetDesired(k, spec, uid, cred, hmac) \in Object
<1>0. spec.authRules \in Nat /\ spec.ignoreRules \in Nat /\ spec.jwt \in Nat
  BY DEF PolicySpec
<1>1. SecretGetDesired(spec, uid, cred, hmac) \in Object
  <2>1. << cred >> \in Seq(Int)
    OBVIOUS
  <2> QED BY <2>1, WantedType, NoObjectType DEF SecretGetDesired
<1>2. EnvoyFilterGetDesired(spec, uid) \in Object
  <2>1. << spec.authRules, spec.ignoreRules, spec.jwt >> \in Seq(Int)
    BY <1>0
  <2> QED BY <2>1, WantedType, NoObjectType DEF EnvoyFilterGetDesired
<1>3. RequestAuthenticationGetDesired(spec, uid) \in Object
  <2>1. << spec.jwt >> \in Seq(Int)
    BY <1>0
  <2> QED BY <2>1, WantedType, NoObjectType DEF RequestAuthenticationGetDesired
<1>4. DenyGetDesired(spec, uid) \in Object
  <2>1. << spec.authRules, spec.jwt >> \in Seq(Int) /\ << >> \in Seq(Int)
    BY <1>0
  <2> QED BY <2>1, WantedType, NoObjectType DEF DenyGetDesired, DenyAll
<1>5. IgnoreGetDesired(spec, uid) \in Object
  <2>1. << spec.ignoreRules >> \in Seq(Int)
    BY <1>0
  <2> QED BY <2>1, WantedType, NoObjectType DEF IgnoreGetDesired
<1>6. RequireGetDesired(spec, uid) \in Object
  <2>1. << spec.authRules, spec.ignoreRules, spec.jwt >> \in Seq(Int)
    BY <1>0
  <2> QED BY <2>1, WantedType, NoObjectType DEF RequireGetDesired
<1> QED BY <1>1, <1>2, <1>3, <1>4, <1>5, <1>6 DEF GetDesired

\* An update keeps the controller reference of the object it is applied to.
LEMMA MergePatchType ==
  ASSUME NEW k, NEW srv \in Object, NEW before \in Object, NEW desired \in Object
  PROVE  LET patched == MergePatch(srv, before, UpdateFields(k, before, desired))
         IN  patched \in Object /\ patched.owner = srv.owner
<1>1. UpdateFields(k, before, desired) \in Object
  BY DEF UpdateFields, Object
<1>2. \A after \in Object : MergePatch(srv, before, after) \in Object /\ MergePatch(srv, before, after).owner = srv.owner
  BY DEF MergePatch, Object
<1> QED BY <1>1, <1>2

LEMMA KindType == \A i \in 1..6 : ControllerResources[i] \in Kinds
BY DEF ControllerResources, Kinds

----------------------------------------------------------------------------
(* Type correctness.                                                       *)

LEMMA SetPolicyType ==
  ASSUME TypeOK, NEW new \in Policy, SetPolicy(new)
  PROVE  policy' \in Policy /\ epolicy' \in Seq(Policy)
BY DEF TypeOK, SetPolicy

LEMMA SetChildType ==
  ASSUME TypeOK, NEW k \in Kinds, NEW new \in Object, SetChild(k, new)
  PROVE  children' \in [Kinds -> Object] /\ echildren' \in [Kinds -> Seq(Object)]
BY DEF TypeOK, SetChild

LEMMA SpendType ==
  ASSUME TypeOK, NEW d \in Disturbances, Spend(d)
  PROVE  used' \in [Disturbances -> Nat]
BY DEF TypeOK, Spend

\* A disturbance that no budget allows.
Never(d) == \A b \in Budgets : b[d] = 0

LEMMA NeverSpent ==
  ASSUME TypeOK, NEW d \in Disturbances, Never(d)
  PROVE  ~Spend(d)
<1>1. used[d] \in Nat
  BY DEF TypeOK
<1> QED BY <1>1 DEF Spend, Never

LEMMA IdlePassType == IdlePass \in Pass
<1>1. (CHOOSE s \in Specs : TRUE) \in Specs
  BY SpecsAssumption
<1>2. NoObject \in Object
  BY NoObjectType
<1>3. NewStatus \in Status
  BY DEF NewStatus, Status, Phases
<1> QED BY <1>1, <1>2, <1>3 DEF IdlePass, Pass, PCs, Phases, Creds, MaxTries

\* The child the pass is at, and what the pass wants there.
LEMMA PassTypes ==
  ASSUME TypeOK
  PROVE  Kind \in Kinds /\ Desired(Kind) \in Object
<1>1. pass.idx \in 1..6 /\ pass.spec \in PolicySpec /\ pass.uid \in Nat
      /\ pass.cred \in Nat /\ pass.hmac \in Nat
  BY SpecsAssumption DEF TypeOK, Pass, Creds
<1> QED BY <1>1, KindType, DesiredType DEF Kind, Desired

LEMMA AdvanceType ==
  ASSUME TypeOK, NEW ok \in SUBSET Kinds, NEW failed \in SUBSET Kinds
  PROVE  Advance(ok, failed) \in Pass
<1>1. pass \in Pass /\ NoObject \in Object
  BY NoObjectType DEF TypeOK
<1>2. pass.idx # 6 => pass.idx + 1 \in 1..6
  BY <1>1 DEF Pass
<1> QED BY <1>1, <1>2 DEF Advance, Pass, PCs

LEMMA WrittenType ==
  ASSUME TypeOK
  PROVE  Written \in Object
<1>1. Kind \in Kinds /\ Desired(Kind) \in Object
  BY PassTypes
<1>2. children[Kind] \in Object /\ pass.cur \in Object
  BY <1>1 DEF TypeOK, Pass
<1>3. MergePatch(children[Kind], pass.cur, UpdateFields(Kind, pass.cur, Desired(Kind))) \in Object
  BY <1>1, <1>2, MergePatchType
<1> QED BY <1>1, <1>3, NoObjectType DEF Written

LEMMA ReconciliationStateType == ReconciliationState \in Phases
BY DEF ReconciliationState, DetermineReconciliationState, Phases

LEMMA ComputedStatusType ==
  ASSUME TypeOK
  PROVE  ComputedStatus \in Status
<1>1. pass.gen \in Nat /\ pass.cond \in Phases
  BY DEF TypeOK, Pass
<1> QED BY <1>1, ReconciliationStateType DEF ComputedStatus, Status, Phases

LEMMA EndPassType ==
  ASSUME TypeOK, NEW err, EndPass(err)
  PROVE  pass' \in Pass /\ queued' \in BOOLEAN
BY IdlePassType DEF EndPass

LEMMA InitType == Init => TypeOK
<1> SUFFICES ASSUME Init PROVE TypeOK
  OBVIOUS
<1>1. policy \in Policy
  BY DEF Init, NewPolicy, NewStatus, Policy, Status, Phases
<1>2. cpolicy \in Policy
  BY <1>1 DEF Init, Policy
<1>3. epolicy \in Seq(Policy)
  BY <1>1 DEF Init
<1>4. children \in [Kinds -> Object] /\ cchildren \in [Kinds -> Object]
  BY NoObjectType DEF Init
<1>5. echildren \in [Kinds -> Seq(Object)]
  BY DEF Init
<1>6. oauth \in Creds /\ coauth \in Creds /\ eoauth \in Seq(Creds)
  BY DEF Init, Creds
<1>7. pass \in Pass /\ queued \in BOOLEAN /\ used \in [Disturbances -> Nat]
  BY IdlePassType DEF Init
<1> QED BY <1>1, <1>2, <1>3, <1>4, <1>5, <1>6, <1>7 DEF TypeOK

\* Steps of users and of the garbage collector.
LEMMA NextGenerationType ==
  ASSUME TypeOK
  PROVE  policy.gen + 1 \in Nat \ {0} /\ policy.uid + 1 \in Nat \ {0}
<1>1. policy.gen \in Nat /\ policy.uid \in Nat
  BY DEF TypeOK, Policy
<1> QED BY <1>1

LEMMA EnvironmentType ==
  ASSUME TypeOK, UserStep \/ CollectStep \/ PodEvent \/ Resync
  PROVE  TypeOK'
<1> USE DEF policyVars, childVars, oauthVars, server, caches
<1>0. policy \in Policy /\ \A d : d \in { "edit", "strip", "delete", "recreate", "rotate",
           "tamper", "foreign", "race", "pod" } => d \in Disturbances
  BY DEF TypeOK, Disturbances
<1>1. CASE EditSpec
  <2>1. PICK s \in Specs : SetPolicy([ policy EXCEPT !.spec = s, !.gen = @ + 1 ])
    BY <1>1 DEF EditSpec
  <2>2. [ policy EXCEPT !.spec = s, !.gen = @ + 1 ] \in Policy
    BY <1>0, NextGenerationType DEF Policy
  <2> QED BY <1>0, <1>1, <2>1, <2>2, SetPolicyType, SpendType DEF EditSpec, TypeOK
<1>2. CASE StripLabels
  <2>1. [ policy EXCEPT !.labelled = FALSE ] \in Policy
    BY <1>0 DEF Policy
  <2> QED BY <1>0, <1>2, <2>1, SetPolicyType, SpendType DEF StripLabels, TypeOK
<1>3. CASE DeletePolicy
  <2>1. /\ [ policy EXCEPT !.present = FALSE ] \in Policy
        /\ [ policy EXCEPT !.deleting = TRUE, !.gen = @ + 1 ] \in Policy
    BY <1>0, NextGenerationType DEF Policy
  <2> QED BY <1>0, <1>3, <2>1, SetPolicyType, SpendType DEF DeletePolicy, TypeOK
<1>4. CASE RecreatePolicy
  <2>1. PICK s \in Specs : SetPolicy(NewPolicy(policy.uid + 1, s))
    BY <1>4 DEF RecreatePolicy
  <2>2. NewPolicy(policy.uid + 1, s) \in Policy
    BY NextGenerationType DEF NewPolicy, Policy, NewStatus, Status, Phases
  <2> QED BY <1>0, <1>4, <2>1, <2>2, SetPolicyType, SpendType DEF RecreatePolicy, TypeOK
<1>5. CASE ChangeOauth
  BY <1>0, <1>5, SpendType DEF ChangeOauth, SetOauth, TypeOK
<1>6. CASE \E k \in Kinds : TamperChild(k)
  <2>1. PICK k \in Kinds : TamperChild(k)
    BY <1>6
  <2>2. children[k] \in Object /\ Tampered \in Seq(Int)
    BY DEF TypeOK, Tampered
  <2>3. /\ [ children[k] EXCEPT !.body = Tampered ] \in Object
        /\ [ children[k] EXCEPT !.labels = FALSE ] \in Object
    BY <2>2 DEF Object
  <2> QED BY <1>0, <2>1, <2>3, NoObjectType, SetChildType, SpendType DEF TamperChild, TypeOK
<1>7. CASE \E k \in Kinds : CreateForeign(k)
  <2>1. PICK k \in Kinds : CreateForeign(k)
    BY <1>7
  <2>2. ForeignObject \in Object
    BY DEF ForeignObject, Object, Foreign, Tampered
  <2> QED BY <1>0, <2>1, <2>2, SetChildType, SpendType DEF CreateForeign, TypeOK
<1>8. CASE \E k \in Kinds : DeleteForeign(k) \/ CollectChild(k)
  BY <1>8, NoObjectType, SetChildType DEF DeleteForeign, CollectChild, TypeOK
<1>9. CASE CollectPolicy
  <2>1. [ policy EXCEPT !.present = FALSE, !.deleting = FALSE ] \in Policy
    BY <1>0 DEF Policy
  <2> QED BY <1>9, <2>1, SetPolicyType DEF CollectPolicy, TypeOK
<1>10. CASE PodEvent
  <2>1. policy.present \in BOOLEAN
    BY <1>0 DEF Policy
  <2> QED BY <1>0, <1>10, <2>1, SpendType DEF PodEvent, TypeOK
<1>11. CASE Resync
  BY <1>11 DEF Resync, TypeOK
<1> QED BY <1>1, <1>2, <1>3, <1>4, <1>5, <1>6, <1>7, <1>8, <1>9, <1>10, <1>11
        DEF UserStep, CollectStep

\* Informers, and the operator's restart.
LEMMA SyncType ==
  ASSUME TypeOK, SyncStep \/ Crash
  PROVE  TypeOK'
<1> USE DEF policyVars, childVars, oauthVars, server, caches
<1>0. "listFail" \in Disturbances /\ "crash" \in Disturbances
  BY DEF Disturbances
<1>1. EnqueueAuthPoliciesInNamespace => queued' \in BOOLEAN /\ used' \in [Disturbances -> Nat]
  BY <1>0, SpendType DEF EnqueueAuthPoliciesInNamespace, TypeOK, Policy
<1>2. CASE SyncPolicy
  <2>1. cpolicy' \in Policy /\ epolicy' \in Seq(Policy)
    BY <1>2 DEF SyncPolicy, TypeOK
  <2> QED BY <1>2, <2>1 DEF SyncPolicy, TypeOK
<1>3. CASE SyncOauth
  <2>1. coauth' \in Creds /\ eoauth' \in Seq(Creds)
    BY <1>3 DEF SyncOauth, TypeOK
  <2> QED BY <1>1, <1>3, <2>1 DEF SyncOauth, TypeOK
<1>4. CASE \E k \in Kinds : SyncChild(k)
  <2>1. PICK k \in Kinds : SyncChild(k)
    BY <1>4
  <2>2. echildren[k] \in Seq(Object) /\ echildren[k] # << >>
    BY <2>1 DEF SyncChild, TypeOK
  <2>3. Head(echildren[k]) \in Object /\ Tail(echildren[k]) \in Seq(Object)
    BY <2>2
  <2>4. cchildren' \in [Kinds -> Object] /\ echildren' \in [Kinds -> Seq(Object)]
    BY <2>1, <2>3 DEF SyncChild, TypeOK
  <2>5. queued' \in BOOLEAN /\ used' \in [Disturbances -> Nat]
    BY <1>1, <2>1 DEF SyncChild, TypeOK
  <2> QED BY <2>1, <2>4, <2>5 DEF SyncChild, TypeOK
<1>5. CASE Crash
  <2>1. pass' \in Pass /\ used' \in [Disturbances -> Nat]
    BY <1>0, <1>5, IdlePassType, SpendType DEF Crash
  <2>2. queued' \in BOOLEAN
    BY <1>5 DEF Crash, TypeOK, Policy
  <2>3. epolicy' \in Seq(Policy) /\ eoauth' \in Seq(Creds) /\ echildren' \in [Kinds -> Seq(Object)]
    BY <1>5 DEF Crash
  <2> QED BY <1>5, <2>1, <2>2, <2>3 DEF Crash, TypeOK
<1> QED BY <1>2, <1>3, <1>4, <1>5 DEF SyncStep

\* Steps of the worker.
LEMMA ReconcileType ==
  ASSUME TypeOK, ReconcileStep
  PROVE  TypeOK'
<1> USE DEF policyVars, childVars, oauthVars, server, caches
<1>0. /\ policy \in Policy /\ cpolicy \in Policy /\ pass \in Pass
      /\ "apiFail" \in Disturbances /\ "statusFail" \in Disturbances
  BY DEF TypeOK, Disturbances
<1>1. CASE ReconcileGone
  BY <1>1 DEF ReconcileGone, TypeOK
<1>2. CASE ReconcileStart
  <2>1. /\ cpolicy.uid \in Nat /\ cpolicy.gen \in Nat /\ cpolicy.spec \in Specs
        /\ cpolicy.status.cond \in Phases
    BY <1>0 DEF Policy, Status
  <2>2. [ phase |-> "Pending", obs |-> cpolicy.gen, cond |-> cpolicy.status.cond ] \in Status
    BY <2>1 DEF Status, Phases
  <2>3. pass' \in Pass
    BY <1>2, <2>1, <2>2, IdlePassType DEF ReconcileStart, Pass, PCs
  <2> QED BY <1>2, <2>3 DEF ReconcileStart, TypeOK
<1>3. CASE PatchLabels
  <2>1. [ policy EXCEPT !.labelled = TRUE ] \in Policy
    BY <1>0 DEF Policy
  <2>2. pass' \in Pass
    BY <1>0, <1>3 DEF PatchLabels, Pass, PCs, Policy
  <2> QED BY <1>3, <2>1, <2>2, SetPolicyType DEF PatchLabels, TypeOK
<1>4. CASE PatchLabelsFails
  BY <1>0, <1>4, EndPassType, SpendType DEF PatchLabelsFails, TypeOK
<1>5. CASE ResolveAuthPolicy
  <2>1. PICK h \in 1..(MaxLag + 2) :
          pass' = [ pass EXCEPT !.pc = "get", !.hmac = IF pass.spec.autoLogin THEN h ELSE 0,
                                !.cred = IF pass.spec.autoLogin THEN coauth ELSE 0 ]
    BY <1>5 DEF ResolveAuthPolicy
  <2>2. h \in Nat /\ 0 \in Nat /\ coauth \in Creds /\ 0 \in Creds
    BY MaxLagAssumption DEF TypeOK, Creds
  <2>3. pass' \in Pass
    BY <1>0, <2>1, <2>2 DEF Pass, PCs
  <2> QED BY <1>5, <2>3 DEF ResolveAuthPolicy, TypeOK
<1>6. CASE ResolveFails
  <2>1. pass' \in Pass
    BY <1>0, <1>6 DEF ResolveFails, Pass, PCs
  <2> QED BY <1>0, <1>6, <2>1, SpendType DEF ResolveFails, TypeOK
<1>7. CASE ReconcileControllerResource
  <2>1. Kind \in Kinds
    BY PassTypes
  <2>2. cchildren[Kind] \in Object
    BY <2>1 DEF TypeOK
  <2>3. [ pass EXCEPT !.pc = "write", !.cur = cchildren[Kind] ] \in Pass
    BY <1>0, <2>2 DEF Pass, PCs
  <2>4. \A K, L \in SUBSET {Kind} : Advance(K, L) \in Pass
    BY <2>1, AdvanceType
  <2>5. pass' \in Pass
    BY <1>7, <2>3, <2>4 DEF ReconcileControllerResource
  <2> QED BY <1>7, <2>5 DEF ReconcileControllerResource, TypeOK
<1>8. CASE GetFails
  BY <1>0, <1>8, PassTypes, AdvanceType, SpendType DEF GetFails, TypeOK
<1>9. CASE WriteChild
  <2>1. pass' \in Pass
    BY <1>9, PassTypes, AdvanceType DEF WriteChild
  <2> QED BY <1>9, <2>1, PassTypes, WrittenType, SetChildType DEF WriteChild, TypeOK
<1>10. CASE WriteFails
  <2>1. pass' \in Pass
    BY <1>10, PassTypes, AdvanceType DEF WriteFails
  <2>2. used' \in [Disturbances -> Nat]
    BY <1>0, <1>10, SpendType DEF WriteFails, TypeOK
  <2>3. children' \in [Kinds -> Object] /\ echildren' \in [Kinds -> Seq(Object)]
    BY <1>10, PassTypes, WrittenType, SetChildType DEF WriteFails, TypeOK
  <2> QED BY <1>10, <2>1, <2>2, <2>3 DEF WriteFails, TypeOK
<1>11. CASE StatusUnchanged
  BY <1>11, EndPassType DEF StatusUnchanged, EndReconcile, TypeOK
<1>12. CASE UpdateStatus
  <2>1. [ policy EXCEPT !.status = ComputedStatus ] \in Policy
    BY <1>0, ComputedStatusType DEF Policy
  <2> QED BY <1>12, <2>1, EndPassType, SetPolicyType DEF UpdateStatus, EndReconcile, TypeOK
<1>13. CASE UpdateStatusConflict
  <2>1. pass.tries + 1 \in 1..MaxTries
    BY <1>0, <1>13 DEF UpdateStatusConflict, Pass, MaxTries
  <2>2. pass' \in Pass
    BY <1>0, <1>13, <2>1 DEF UpdateStatusConflict, Pass
  <2> QED BY <1>13, <2>2 DEF UpdateStatusConflict, TypeOK
<1>14. CASE UpdateStatusFails
  BY <1>0, <1>14, EndPassType, SpendType DEF UpdateStatusFails, EndReconcile, TypeOK
<1> QED BY <1>1, <1>2, <1>3, <1>4, <1>5, <1>6, <1>7, <1>8, <1>9, <1>10, <1>11, <1>12,
           <1>13, <1>14 DEF ReconcileStep

\* Every state the operator and its environment reach is well typed, whatever
\* the specs, the budgets and the lag: in particular every object written to
\* the API server is one that the generators and the merge patch define.
THEOREM TypeCorrect == Spec => []TypeOK
<1>1. TypeOK /\ [Next]_vars => TypeOK'
  <2>1. TypeOK /\ Next => TypeOK'
    BY EnvironmentType, SyncType, ReconcileType DEF Next
  <2>2. TypeOK /\ UNCHANGED vars => TypeOK'
    BY DEF TypeOK, vars
  <2> QED BY <2>1, <2>2
<1> QED BY <1>1, InitType, PTL DEF Spec

----------------------------------------------------------------------------
(* The versions of the AuthPolicy in the watch are in the order in which   *)
(* the server wrote them, so no pass works for an older AuthPolicy than    *)
(* the pass before it.  f is "uid" or, if the AuthPolicy is never          *)
(* recreated, "gen".                                                       *)

\* The uid or the generation that no pass so far has been beyond.
Bound(f) == IF pass.pc = "idle" THEN cpolicy[f] ELSE pass[f]

InOrder(f) ==
  /\ Bound(f) <= cpolicy[f]
  /\ cpolicy[f] <= policy[f]
  /\ \A i \in 1..Len(epolicy) : cpolicy[f] <= epolicy[i][f] /\ epolicy[i][f] <= policy[f]
  /\ \A i, j \in 1..Len(epolicy) : i <= j => epolicy[i][f] <= epolicy[j][f]

\* A recreated AuthPolicy starts again with generation 1.
Increasing(f) == f = "uid" \/ (f = "gen" /\ used'["recreate"] = 0)

LEMMA VersionTypes ==
  ASSUME TypeOK, NEW f \in {"uid", "gen"}
  PROVE  /\ policy[f] \in Nat /\ cpolicy[f] \in Nat /\ pass[f] \in Nat
         /\ \A i \in 1..Len(epolicy) : epolicy[i][f] \in Nat
<1>1. \A p \in Policy : p[f] \in Nat
  BY DEF Policy
<1>2. pass[f] \in Nat
  BY DEF TypeOK, Pass
<1>3. \A i \in 1..Len(epolicy) : epolicy[i] \in Policy
  BY DEF TypeOK
<1> QED BY <1>1, <1>2, <1>3 DEF TypeOK

LEMMA LaterVersion ==
  ASSUME NEW f \in {"uid", "gen"}, NEW p \in Policy, NEW q \in Policy,
         p.uid <= q.uid, p.gen <= q.gen
  PROVE  p[f] <= q[f]
OBVIOUS

\* How a step changes the AuthPolicy, its watch and its cache.
LEMMA PolicySteps ==
  ASSUME TypeOK, Next, NEW f \in {"uid", "gen"}, Increasing(f)
  PROVE  \/ UNCHANGED << policy, epolicy, cpolicy >>
         \/ /\ \E new \in Policy : policy[f] <= new[f] /\ SetPolicy(new)
            /\ UNCHANGED cpolicy
         \/ SyncPolicy
         \/ Crash
<1> USE DEF policyVars, childVars, oauthVars, server, caches
<1>0. policy \in Policy /\ policy[f] \in Nat /\ policy.uid \in Nat /\ policy.gen \in Nat
  BY VersionTypes DEF TypeOK, Policy
<1>1. CASE EditSpec
  <2>1. PICK s \in Specs : SetPolicy([ policy EXCEPT !.spec = s, !.gen = @ + 1 ])
    BY <1>1 DEF EditSpec
  <2> DEFINE new == [ policy EXCEPT !.spec = s, !.gen = @ + 1 ]
  <2>2. new \in Policy /\ new.uid = policy.uid /\ new.gen = policy.gen + 1
    BY <1>0, NextGenerationType DEF Policy
  <2>3. policy[f] <= new[f]
    <3> HIDE DEF new
    <3> QED BY <1>0, <2>2, LaterVersion
  <2> QED BY <1>1, <2>1, <2>2, <2>3 DEF EditSpec
<1>2. CASE StripLabels
  <2> DEFINE new == [ policy EXCEPT !.labelled = FALSE ]
  <2>1. new \in Policy /\ new.uid = policy.uid /\ new.gen = policy.gen
    BY <1>0 DEF Policy
  <2>2. policy[f] <= new[f]
    <3> HIDE DEF new
    <3> QED BY <1>0, <2>1, LaterVersion
  <2> QED BY <1>2, <2>1, <2>2 DEF StripLabels
<1>3. CASE DeletePolicy
  <2> DEFINE gone == [ policy EXCEPT !.present = FALSE ]
             marked == [ policy EXCEPT !.deleting = TRUE, !.gen = @ + 1 ]
  <2>1. gone \in Policy /\ gone.uid = policy.uid /\ gone.gen = policy.gen
    BY <1>0 DEF Policy
  <2>2. marked \in Policy /\ marked.uid = policy.uid /\ marked.gen = policy.gen + 1
    BY <1>0, NextGenerationType DEF Policy
  <2>3. policy[f] <= gone[f] /\ policy[f] <= marked[f]
    <3> HIDE DEF gone, marked
    <3> QED BY <1>0, <2>1, <2>2, LaterVersion
  <2> QED BY <1>3, <2>1, <2>2, <2>3 DEF DeletePolicy
<1>4. CASE RecreatePolicy
  <2>1. f = "uid"
    <3>1. used["recreate"] \in Nat /\ used'["recreate"] = used["recreate"] + 1
      BY <1>4 DEF RecreatePolicy, Spend, TypeOK, Disturbances
    <3> QED BY <3>1 DEF Increasing
  <2>2. PICK s \in Specs : SetPolicy(NewPolicy(policy.uid + 1, s))
    BY <1>4 DEF RecreatePolicy
  <2>3. NewPolicy(policy.uid + 1, s) \in Policy /\ NewPolicy(policy.uid + 1, s).uid = policy.uid + 1
    BY NextGenerationType DEF NewPolicy, Policy, NewStatus, Status, Phases
  <2> QED BY <1>0, <1>4, <2>1, <2>2, <2>3 DEF RecreatePolicy
<1>5. CASE CollectPolicy
  <2> DEFINE new == [ policy EXCEPT !.present = FALSE, !.deleting = FALSE ]
  <2>1. new \in Policy /\ new.uid = policy.uid /\ new.gen = policy.gen
    BY <1>0 DEF Policy
  <2>2. policy[f] <= new[f]
    <3> HIDE DEF new
    <3> QED BY <1>0, <2>1, LaterVersion
  <2> QED BY <1>5, <2>1, <2>2 DEF CollectPolicy
<1>6. CASE PatchLabels
  <2> DEFINE new == [ policy EXCEPT !.labelled = TRUE ]
  <2>1. new \in Policy /\ new.uid = policy.uid /\ new.gen = policy.gen
    BY <1>0 DEF Policy
  <2>2. policy[f] <= new[f]
    <3> HIDE DEF new
    <3> QED BY <1>0, <2>1, LaterVersion
  <2> QED BY <1>6, <2>1, <2>2 DEF PatchLabels
<1>7. CASE UpdateStatus
  <2> DEFINE new == [ policy EXCEPT !.status = ComputedStatus ]
  <2>1. new \in Policy /\ new.uid = policy.uid /\ new.gen = policy.gen
    BY <1>0, ComputedStatusType DEF Policy
  <2>2. policy[f] <= new[f]
    <3> HIDE DEF new
    <3> QED BY <1>0, <2>1, LaterVersion
  <2> QED BY <1>7, <2>1, <2>2 DEF UpdateStatus
<1>8. CASE \/ ChangeOauth \/ PodEvent \/ Resync \/ SyncOauth
           \/ \E k \in Kinds : TamperChild(k) \/ CreateForeign(k) \/ DeleteForeign(k)
                                \/ CollectChild(k) \/ SyncChild(k)
  BY <1>8 DEF ChangeOauth, PodEvent, Resync, SyncOauth, TamperChild, CreateForeign,
              DeleteForeign, CollectChild, SyncChild
<1>9. CASE \/ ReconcileGone \/ ReconcileStart \/ PatchLabelsFails
           \/ ResolveAuthPolicy \/ ResolveFails
           \/ ReconcileControllerResource \/ GetFails \/ WriteChild \/ WriteFails
           \/ StatusUnchanged \/ UpdateStatusConflict \/ UpdateStatusFails
  BY <1>9 DEF ReconcileGone, ReconcileStart, PatchLabelsFails, ResolveAuthPolicy, ResolveFails,
              ReconcileControllerResource, GetFails, WriteChild, WriteFails,
              StatusUnchanged, UpdateStatusConflict, UpdateStatusFails
<1> QED BY <1>1, <1>2, <1>3, <1>4, <1>5, <1>6, <1>7, <1>8, <1>9
        DEF Next, UserStep, CollectStep, SyncStep, ReconcileStep

\* How a step changes the AuthPolicy that the worker works for.
LEMMA PassSteps ==
  ASSUME TypeOK, Next, NEW f \in {"uid", "gen"}
  PROVE  \/ UNCHANGED pass
         \/ pass'.pc = "idle"
         \/ pass.pc # "idle" /\ pass'.pc # "idle" /\ pass'[f] = pass[f]
         \/ pass.pc = "idle" /\ pass'[f] = cpolicy[f] /\ UNCHANGED << cpolicy, policy, epolicy >>
<1> USE DEF policyVars, childVars, oauthVars, server, caches
<1>0. pass \in Pass
  BY DEF TypeOK
<1>1. CASE UserStep \/ CollectStep \/ SyncStep \/ PodEvent \/ Resync \/ ReconcileGone
  BY <1>1 DEF UserStep, CollectStep, SyncStep, EditSpec, StripLabels, DeletePolicy,
              RecreatePolicy, ChangeOauth, TamperChild, CreateForeign, DeleteForeign,
              CollectPolicy, CollectChild, SyncPolicy, SyncOauth, SyncChild, PodEvent, Resync,
              ReconcileGone
<1>2. CASE Crash \/ PatchLabelsFails \/ StatusUnchanged \/ UpdateStatus \/ UpdateStatusFails
  BY <1>2 DEF Crash, PatchLabelsFails, StatusUnchanged, UpdateStatus, UpdateStatusFails,
              EndReconcile, EndPass, IdlePass
<1>3. CASE ReconcileStart
  <2>1. pass'.uid = cpolicy.uid /\ pass'.gen = cpolicy.gen
    BY <1>3, IdlePassType DEF ReconcileStart, Pass
  <2> QED BY <1>3, <2>1 DEF ReconcileStart
<1>4. CASE PatchLabels \/ ResolveFails \/ UpdateStatusConflict
  BY <1>0, <1>4 DEF PatchLabels, ResolveFails, UpdateStatusConflict, InStatus, Pass
<1>5. CASE ResolveAuthPolicy
  BY <1>0, <1>5 DEF ResolveAuthPolicy, Pass
<1>6. \A ok, failed : Advance(ok, failed).pc # "idle" /\ Advance(ok, failed)[f] = pass[f]
  BY <1>0 DEF Advance, Pass
<1>7. CASE ReconcileControllerResource
  <2>1. LET p == [ pass EXCEPT !.pc = "write", !.cur = cchildren[Kind] ]
        IN  p.pc # "idle" /\ p[f] = pass[f]
    BY <1>0 DEF Pass
  <2> QED BY <1>6, <1>7, <2>1 DEF ReconcileControllerResource
<1>8. CASE GetFails \/ WriteChild \/ WriteFails
  BY <1>6, <1>8 DEF GetFails, WriteChild, WriteFails
<1> QED BY <1>1, <1>2, <1>3, <1>4, <1>5, <1>7, <1>8 DEF Next, ReconcileStep

LEMMA InOrderInit ==
  ASSUME Init, NEW f \in {"uid", "gen"}
  PROVE  InOrder(f)
<1>1. TypeOK
  BY InitType
<1>2. cpolicy[f] = policy[f]
  BY <1>1 DEF Init, TypeOK, Policy
<1>3. epolicy = << policy >> /\ Bound(f) = cpolicy[f]
  BY DEF Init, Bound, IdlePass
<1> QED BY <1>1, <1>2, <1>3, VersionTypes DEF InOrder

\* The AuthPolicy's versions stay in order, and so do the passes.
LEMMA InOrderStep ==
  ASSUME TypeOK, TypeOK', NEW f \in {"uid", "gen"}, Increasing(f), InOrder(f), [Next]_vars
  PROVE  InOrder(f)'
<1> DEFINE V == << policy, epolicy, cpolicy >>
<1>0. /\ policy[f] \in Nat /\ cpolicy[f] \in Nat /\ pass[f] \in Nat
      /\ \A i \in 1..Len(epolicy) : epolicy[i][f] \in Nat
      /\ epolicy \in Seq(Policy) /\ Len(epolicy) \in Nat
      /\ policy'[f] \in Nat /\ cpolicy'[f] \in Nat /\ pass'[f] \in Nat
  <2>1. policy'[f] \in Nat /\ cpolicy'[f] \in Nat /\ pass'[f] \in Nat
    BY DEF TypeOK, Policy, Pass
  <2>2. epolicy \in Seq(Policy) /\ Len(epolicy) \in Nat
    BY DEF TypeOK
  <2> QED BY <2>1, <2>2, VersionTypes
<1>1. CASE UNCHANGED vars
  BY <1>1 DEF InOrder, Bound, vars
<1>2. CASE Next
  <2>1. CASE UNCHANGED V
    <3>1. Bound(f)' <= cpolicy'[f]
      BY <1>0, <1>2, <2>1, PassSteps DEF InOrder, Bound
    <3> QED BY <2>1, <3>1 DEF InOrder
  <2>2. CASE (\E new \in Policy : policy[f] <= new[f] /\ SetPolicy(new)) /\ UNCHANGED cpolicy
    <3>1. Bound(f)' <= cpolicy'[f]
      BY <1>0, <1>2, <2>2, PassSteps DEF InOrder, Bound
    <3>2. PICK new \in Policy : policy[f] <= new[f] /\ SetPolicy(new)
      BY <2>2
    <3>3. new[f] \in Nat /\ policy' = new
      BY <1>0, <3>2 DEF SetPolicy
    <3>4. CASE epolicy' = epolicy
      BY <1>0, <2>2, <3>1, <3>2, <3>3, <3>4 DEF InOrder
    <3>5. CASE epolicy' = Append(epolicy, new)
      <4>1. /\ Len(epolicy') = Len(epolicy) + 1
            /\ \A i \in 1..Len(epolicy) : epolicy'[i] = epolicy[i]
            /\ epolicy'[Len(epolicy) + 1] = new
        BY <1>0, <3>5
      <4>2. \A i \in 1..Len(epolicy') : cpolicy'[f] <= epolicy'[i][f] /\ epolicy'[i][f] <= policy'[f]
        BY <1>0, <2>2, <3>2, <3>3, <4>1 DEF InOrder
      <4>3. \A i, j \in 1..Len(epolicy') : i <= j => epolicy'[i][f] <= epolicy'[j][f]
        BY <1>0, <2>2, <3>2, <3>3, <4>1, <4>2, SMTT(30) DEF InOrder
      <4> QED BY <1>0, <2>2, <3>1, <3>2, <3>3, <4>2, <4>3 DEF InOrder
    <3> QED BY <3>2, <3>4, <3>5 DEF SetPolicy
  <2>3. CASE SyncPolicy
    <3>1. /\ Len(epolicy) >= 1 /\ cpolicy' = epolicy[1] /\ policy' = policy /\ pass' = pass
          /\ Len(epolicy') = Len(epolicy) - 1
          /\ \A i \in 1..Len(epolicy') : epolicy'[i] = epolicy[i + 1]
      BY <1>0, <2>3 DEF SyncPolicy
    <3>2. Bound(f)' <= cpolicy'[f]
      BY <1>0, <3>1 DEF InOrder, Bound
    <3>3. \A i \in 1..Len(epolicy') : i + 1 \in 1..Len(epolicy)
      BY <1>0, <3>1
    <3>4. \A i \in 1..Len(epolicy') : cpolicy'[f] <= epolicy'[i][f] /\ epolicy'[i][f] <= policy'[f]
      BY <1>0, <3>1, <3>3 DEF InOrder
    <3>5. \A i, j \in 1..Len(epolicy') : i <= j => epolicy'[i][f] <= epolicy'[j][f]
      BY <1>0, <3>1, <3>3 DEF InOrder
    <3> QED BY <1>0, <3>1, <3>2, <3>4, <3>5 DEF InOrder
  <2>4. CASE Crash
    <3>1. pass'.pc = "idle" /\ cpolicy' = policy /\ policy' = policy /\ epolicy' = << >>
      BY <2>4 DEF Crash, IdlePass
    <3> QED BY <1>0, <3>1 DEF InOrder, Bound
  <2> QED BY <1>2, <2>1, <2>2, <2>3, <2>4, PolicySteps
<1> QED BY <1>1, <1>2

LEMMA BoundGrows ==
  ASSUME TypeOK, TypeOK', NEW f \in {"uid", "gen"}, Increasing(f), InOrder(f), Next
  PROVE  Bound(f) <= Bound(f)'
<1>0. /\ policy[f] \in Nat /\ cpolicy[f] \in Nat /\ pass[f] \in Nat
      /\ cpolicy'[f] \in Nat /\ pass'[f] \in Nat
  <2>1. cpolicy'[f] \in Nat /\ pass'[f] \in Nat
    BY DEF TypeOK, Policy, Pass
  <2> QED BY <2>1, VersionTypes
<1>1. cpolicy[f] <= cpolicy'[f]
  <2>1. CASE SyncPolicy
    <3>1. epolicy \in Seq(Policy) /\ epolicy # << >> /\ cpolicy' = Head(epolicy)
      BY <2>1 DEF SyncPolicy, TypeOK
    <3>2. 1 \in 1..Len(epolicy) /\ cpolicy' = epolicy[1]
      BY <3>1
    <3> QED BY <3>2 DEF InOrder
  <2>2. CASE Crash
    BY <2>2 DEF Crash, InOrder
  <2> QED BY <1>0, <2>1, <2>2, PolicySteps
<1> QED BY <1>0, <1>1, PassSteps DEF Bound, InOrder

\* Only reading a child brings a pass to a write, with a copy of the cached
\* child and a decision to write.
LEMMA WriteSteps ==
  ASSUME TypeOK, Next, pass'.pc = "write"
  PROVE  \/ UNCHANGED pass
         \/ /\ pass' = [ pass EXCEPT !.pc = "write", !.cur = cchildren[Kind] ]
            /\ DetermineReconcileAction(cchildren[Kind], Desired(Kind), pass.uid)
                 \in {"create", "update", "delete"}
<1> USE DEF policyVars, childVars, oauthVars, server, caches
<1>0. pass \in Pass
  BY DEF TypeOK
<1>1. CASE UserStep \/ CollectStep \/ SyncStep \/ PodEvent \/ Resync \/ ReconcileGone
  BY <1>1 DEF UserStep, CollectStep, SyncStep, EditSpec, StripLabels, DeletePolicy,
              RecreatePolicy, ChangeOauth, TamperChild, CreateForeign, DeleteForeign,
              CollectPolicy, CollectChild, SyncPolicy, SyncOauth, SyncChild, PodEvent,
              Resync, ReconcileGone
<1>2. CASE Crash \/ PatchLabelsFails \/ StatusUnchanged \/ UpdateStatus \/ UpdateStatusFails
  BY <1>2 DEF Crash, PatchLabelsFails, StatusUnchanged, UpdateStatus, UpdateStatusFails,
              EndReconcile, EndPass, IdlePass
<1>3. CASE ReconcileStart
  BY <1>3, IdlePassType DEF ReconcileStart, Pass
<1>4. CASE PatchLabels \/ ResolveFails \/ ResolveAuthPolicy \/ UpdateStatusConflict
  <2>1. CASE PatchLabels \/ ResolveFails
    <3>1. pass'.pc \in {"resolve", "failStatus"}
      BY <1>0, <2>1 DEF PatchLabels, ResolveFails, Pass
    <3> QED BY <3>1
  <2>2. CASE ResolveAuthPolicy
    BY <1>0, <2>2 DEF ResolveAuthPolicy, Pass
  <2>3. CASE UpdateStatusConflict
    BY <1>0, <2>3 DEF UpdateStatusConflict, InStatus, Pass
  <2> QED BY <1>4, <2>1, <2>2, <2>3
<1>5. \A ok, failed : Advance(ok, failed).pc # "write"
  BY <1>0 DEF Advance, Pass
<1>6. CASE GetFails \/ WriteChild \/ WriteFails
  BY <1>5, <1>6 DEF GetFails, WriteChild, WriteFails
<1>7. CASE ReconcileControllerResource
  <2> DEFINE action == DetermineReconcileAction(cchildren[Kind], Desired(Kind), pass.uid)
  <2>1. action \in {"create", "update", "delete", "none", "notOwned"}
    BY DEF DetermineReconcileAction
  <2>2. action # "none" /\ action # "notOwned"
        /\ pass' = [ pass EXCEPT !.pc = "write", !.cur = cchildren[Kind] ]
    BY <1>5, <1>7 DEF ReconcileControllerResource
  <2> QED BY <2>1, <2>2
<1> QED BY <1>1, <1>2, <1>3, <1>4, <1>6, <1>7 DEF Next, ReconcileStep

----------------------------------------------------------------------------
(* Copies of child objects that the operator holds or will be given.       *)

Held(k) ==
  { children[k], cchildren[k] } \cup { echildren[k][i] : i \in 1..Len(echildren[k]) }
    \cup (IF pass.pc = "write" /\ Kind = k THEN { pass.cur } ELSE {})

\* No copy is of a later AuthPolicy than the pass at hand, and where there is
\* a copy of an owned object, what is at that name now is not older.
HeldCopies ==
  \A k \in Kinds : \A v \in Held(k) :
    /\ v.owner <= Bound("uid")
    /\ v.owner >= 1 => children[k].owner = Absent \/ children[k].owner >= v.owner

\* Copies come from the server and travel from the watch to the cache and
\* from there to the pass.
LEMMA HeldSteps ==
  ASSUME TypeOK, Next, NEW k \in Kinds
  PROVE  \A v \in Held(k)' : v \in Held(k) \/ v = children'[k]
<1> USE DEF policyVars, childVars, oauthVars, server, caches
<1>0. pass \in Pass /\ echildren \in [Kinds -> Seq(Object)] /\ children \in [Kinds -> Object]
      /\ cchildren \in [Kinds -> Object]
  BY DEF TypeOK
<1> DEFINE Cur == IF pass.pc = "write" /\ Kind = k THEN { pass.cur } ELSE {}
           Coming == { echildren[k][i] : i \in 1..Len(echildren[k]) }
\* The pass takes its copy from the cache.
<1>1. Cur' \subseteq Cur \cup { cchildren[k] }
  <2>1. CASE UNCHANGED pass
    BY <2>1 DEF Kind
  <2>2. CASE pass' = [ pass EXCEPT !.pc = "write", !.cur = cchildren[Kind] ]
    <3>1. pass'.idx = pass.idx /\ pass'.cur = cchildren[Kind]
      BY <1>0, <2>2 DEF Pass
    <3> QED BY <3>1 DEF Kind
  <2>3. CASE pass'.pc # "write"
    BY <2>3
  <2> QED BY <2>1, <2>2, <2>3, WriteSteps
\* The cache takes its copy from the watch, the watch from the server.
<1>2. { cchildren'[k] } \cup Coming' \subseteq { cchildren[k] } \cup Coming \cup { children'[k] }
  <2>0. echildren[k] \in Seq(Object)
    BY <1>0
  <2>1. CASE UNCHANGED << echildren, cchildren >>
    BY <2>1
  <2>2. CASE Crash
    BY <2>2 DEF Crash
  <2>3. ASSUME NEW j \in Kinds, SyncChild(j)
        PROVE  { cchildren'[k] } \cup Coming' \subseteq { cchildren[k] } \cup Coming
    <3>1. CASE j # k
      BY <1>0, <2>3, <3>1 DEF SyncChild
    <3>2. CASE j = k
      <4>1. cchildren'[k] = Head(echildren[k]) /\ echildren'[k] = Tail(echildren[k])
            /\ echildren[k] # << >>
        BY <1>0, <2>3, <3>2 DEF SyncChild
      <4>2. cchildren'[k] = echildren[k][1] /\ 1 \in 1..Len(echildren[k])
        BY <2>0, <4>1
      <4>3. \A i \in 1..Len(echildren'[k]) :
              echildren'[k][i] = echildren[k][i + 1] /\ i + 1 \in 1..Len(echildren[k])
        BY <2>0, <4>1
      <4> QED BY <4>2, <4>3
    <3> QED BY <3>1, <3>2
  <2>4. ASSUME NEW j \in Kinds, NEW new, SetChild(j, new), UNCHANGED cchildren
        PROVE  { cchildren'[k] } \cup Coming' \subseteq { cchildren[k] } \cup Coming \cup { children'[k] }
    <3>1. CASE j # k \/ echildren' = echildren
      BY <1>0, <2>4, <3>1 DEF SetChild
    <3>2. CASE j = k /\ echildren' # echildren
      <4>1. echildren'[k] = Append(echildren[k], new) /\ children'[k] = new
        BY <1>0, <2>4, <3>2 DEF SetChild
      <4>2. \A i \in 1..Len(echildren'[k]) :
              \/ i \in 1..Len(echildren[k]) /\ echildren'[k][i] = echildren[k][i]
              \/ echildren'[k][i] = new
        BY <2>0, <4>1
      <4> QED BY <2>4, <4>1, <4>2
    <3> QED BY <3>1, <3>2
  <2>5. \/ UNCHANGED << echildren, cchildren >> \/ Crash
        \/ \E j \in Kinds : SyncChild(j)
        \/ (\E j \in Kinds : \E new : SetChild(j, new)) /\ UNCHANGED cchildren
    <3>1. CASE \/ EditSpec \/ StripLabels \/ DeletePolicy \/ RecreatePolicy \/ ChangeOauth
               \/ CollectPolicy \/ SyncPolicy \/ SyncOauth \/ PodEvent \/ Resync
      BY <3>1 DEF EditSpec, StripLabels, DeletePolicy, RecreatePolicy, ChangeOauth,
                  CollectPolicy, SyncPolicy, SyncOauth, PodEvent, Resync
    <3>2. CASE \E j \in Kinds : TamperChild(j) \/ CreateForeign(j)
                            \/ DeleteForeign(j) \/ CollectChild(j)
      BY <3>2 DEF TamperChild, CreateForeign, DeleteForeign, CollectChild
    <3>3. CASE \/ ReconcileGone \/ ReconcileStart \/ PatchLabels \/ PatchLabelsFails
               \/ ResolveAuthPolicy \/ ResolveFails \/ ReconcileControllerResource \/ GetFails
               \/ StatusUnchanged \/ UpdateStatus \/ UpdateStatusConflict \/ UpdateStatusFails
      BY <3>3 DEF ReconcileGone, ReconcileStart, PatchLabels, PatchLabelsFails,
                  ResolveAuthPolicy, ResolveFails, ReconcileControllerResource, GetFails,
                  StatusUnchanged, UpdateStatus, UpdateStatusConflict, UpdateStatusFails
    <3>4. CASE WriteChild \/ WriteFails
      BY <3>4, PassTypes DEF WriteChild, WriteFails
    <3> QED BY <3>1, <3>2, <3>3, <3>4 DEF Next, UserStep, CollectStep, SyncStep, ReconcileStep
  <2> QED BY <2>1, <2>2, <2>3, <2>4, <2>5
<1>3. Held(k) = { children[k], cchildren[k] } \cup Coming \cup Cur
  BY DEF Held
<1>4. Held(k)' = { children'[k], cchildren'[k] } \cup Coming' \cup Cur'
  BY DEF Held
<1> HIDE DEF Cur, Coming
<1> QED BY <1>1, <1>2, <1>3, <1>4

\* A pass works for a real AuthPolicy.
PassUid == pass.pc # "idle" => pass.uid >= 1

\* A pass about to write has decided on a write.
WriteDecided == pass.pc = "write" => Action \in {"create", "update", "delete"}

Inv == TypeOK /\ InOrder("uid") /\ PassUid /\ WriteDecided /\ HeldCopies

\* The object that an update or a delete reaches is controlled by the pass's
\* AuthPolicy, however old the copy is that the pass decided on.
LEMMA WriteReachesOwnObject ==
  ASSUME Inv, pass.pc = "write", ServerAccepts, Action # "create"
  PROVE  children[Kind].owner = pass.uid
<1>1. Exists(children[Kind])
  BY DEF ServerAccepts
<1>2. pass.cur.owner = pass.uid
  BY DEF Inv, WriteDecided, Action, DetermineReconcileAction, IsControlledBy
<1>3. Kind \in Kinds /\ pass.cur \in Held(Kind) /\ children[Kind] \in Held(Kind)
  BY PassTypes DEF Inv, Held
<1>4. pass.uid \in Nat /\ pass.uid >= 1 /\ Bound("uid") = pass.uid
  BY DEF Inv, TypeOK, Pass, PassUid, Bound
<1>5. children[Kind].owner \in Int /\ children[Kind].owner # Absent
  BY <1>1, <1>3 DEF Inv, TypeOK, Object, Exists, Absent, Foreign
<1> QED BY <1>2, <1>3, <1>4, <1>5 DEF Inv, HeldCopies

LEMMA WriteActions ==
  ASSUME TypeOK, pass.pc = "write", ServerAccepts, NEW k \in Kinds, SetChild(Kind, Written)
  PROVE  \/ children'[k] = children[k]
         \/ k = Kind /\ Action = "create" /\ ~Exists(children[k]) /\ children'[k].owner = pass.uid
         \/ k = Kind /\ Action = "update" /\ children'[k].owner = children[k].owner
         \/ k = Kind /\ children'[k].owner = Absent
<1>1. Kind \in Kinds /\ children' = [ children EXCEPT ![Kind] = Written ]
      /\ children \in [Kinds -> Object]
  BY PassTypes DEF SetChild, TypeOK
<1>2. CASE k # Kind
  BY <1>1, <1>2
<1>3. CASE k = Kind
  <2>1. children'[k] = Written
    BY <1>1, <1>3
  <2>2. CASE Action = "create"
    <3>1. Exists(Desired(Kind))
      BY <2>2 DEF Action, DetermineReconcileAction
    <3>2. Desired(Kind).owner = pass.uid
      BY <3>1 DEF Desired, GetDesired, SecretGetDesired, EnvoyFilterGetDesired,
                  RequestAuthenticationGetDesired, DenyGetDesired, IgnoreGetDesired,
                  RequireGetDesired, Wanted, Exists, NoObject
    <3> QED BY <1>3, <2>1, <2>2, <3>2 DEF Written, ServerAccepts
  <2>3. CASE Action = "update"
    <3>1. children[k] \in Object /\ pass.cur \in Object /\ Desired(Kind) \in Object
      BY <1>1, <1>3, PassTypes DEF TypeOK, Pass
    <3> QED BY <1>3, <2>1, <2>3, <3>1, MergePatchType DEF Written
  <2>4. CASE Action \notin {"create", "update"}
    BY <1>3, <2>1, <2>4 DEF Written, NoObject
  <2> QED BY <2>2, <2>3, <2>4
<1> QED BY <1>2, <1>3

\* How a step changes who controls the object at a child's name, as long as
\* nobody takes a name that the operator holds an owned copy of.
LEMMA OwnerSteps ==
  ASSUME Inv, Never("race"), Next, NEW k \in Kinds
  PROVE  \/ children'[k].owner = children[k].owner
         \/ children'[k].owner = Absent
         \/ children'[k].owner = Foreign /\ \A v \in Held(k) : v.owner = Absent
         \/ pass.pc # "idle" /\ children'[k].owner = pass.uid
<1> USE DEF policyVars, childVars, oauthVars, server, caches
<1>0. TypeOK /\ children \in [Kinds -> Object]
  BY DEF Inv, TypeOK
<1>1. CASE \/ EditSpec \/ StripLabels \/ DeletePolicy \/ RecreatePolicy \/ ChangeOauth
           \/ CollectPolicy \/ SyncStep \/ PodEvent \/ Resync \/ Crash
  BY <1>1 DEF EditSpec, StripLabels, DeletePolicy, RecreatePolicy, ChangeOauth,
              CollectPolicy, SyncStep, SyncPolicy, SyncOauth, SyncChild, PodEvent, Resync, Crash
<1>2. CASE \E j \in Kinds : DeleteForeign(j) \/ CollectChild(j)
  BY <1>0, <1>2 DEF DeleteForeign, CollectChild, SetChild, NoObject
<1>3. CASE \E j \in Kinds : TamperChild(j)
  <2>1. PICK j \in Kinds : TamperChild(j)
    BY <1>3
  <2>2. children[j] \in Object
    BY <1>0
  <2>3. PICK obj : SetChild(j, obj) /\ (obj.owner = Absent \/ obj.owner = children[j].owner)
    BY <2>1, <2>2 DEF TamperChild, NoObject, Object
  <2> QED BY <1>0, <2>3 DEF SetChild
<1>4. CASE \E j \in Kinds : CreateForeign(j)
  <2>1. PICK j \in Kinds : CreateForeign(j)
    BY <1>4
  <2>2. SeenFree(j)
    <3>1. ~Spend("race")
      BY <1>0, NeverSpent DEF Disturbances
    <3> QED BY <2>1, <3>1 DEF CreateForeign
  <2>3. CASE j # k
    BY <1>0, <2>1, <2>3 DEF CreateForeign, SetChild
  <2>4. CASE j = k
    <3>1. children'[k].owner = Foreign
      BY <1>0, <2>1, <2>4 DEF CreateForeign, SetChild, ForeignObject
    <3>2. children[k].owner = Absent
      BY <2>1, <2>4 DEF CreateForeign, Exists
    <3>3. cchildren[k].owner = Absent /\ echildren[k] = << >>
          /\ (pass.pc = "write" /\ Kind = k => pass.cur.owner = Absent)
      BY <2>2, <2>4 DEF SeenFree, Exists, Kind
    <3>4. \A v \in Held(k) : v.owner = Absent
      BY <3>2, <3>3 DEF Held
    <3> QED BY <3>1, <3>4
  <2> QED BY <2>3, <2>4
<1>5. CASE \/ ReconcileGone \/ ReconcileStart \/ PatchLabels \/ PatchLabelsFails
           \/ ResolveAuthPolicy \/ ResolveFails \/ ReconcileControllerResource \/ GetFails
           \/ StatusUnchanged \/ UpdateStatus \/ UpdateStatusConflict \/ UpdateStatusFails
  BY <1>5 DEF ReconcileGone, ReconcileStart, PatchLabels, PatchLabelsFails,
              ResolveAuthPolicy, ResolveFails, ReconcileControllerResource, GetFails,
              StatusUnchanged, UpdateStatus, UpdateStatusConflict, UpdateStatusFails
<1>6. CASE WriteChild \/ WriteFails
  <2>1. pass.pc = "write" /\ (UNCHANGED children \/ (ServerAccepts /\ SetChild(Kind, Written)))
    BY <1>6 DEF WriteChild, WriteFails
  <2> QED BY <1>0, <2>1, WriteActions
<1> QED BY <1>1, <1>2, <1>3, <1>4, <1>5, <1>6 DEF Next, UserStep, CollectStep, ReconcileStep

LEMMA WriteDecidedStep ==
  ASSUME TypeOK, WriteDecided, Next
  PROVE  WriteDecided'
<1>1. CASE UNCHANGED pass
  BY <1>1 DEF WriteDecided, Action, Desired, Kind
<1>2. CASE pass' = [ pass EXCEPT !.pc = "write", !.cur = cchildren[Kind] ]
  <2>1. /\ pass'.cur = cchildren[Kind] /\ pass'.idx = pass.idx /\ pass'.spec = pass.spec
        /\ pass'.uid = pass.uid /\ pass'.cred = pass.cred /\ pass'.hmac = pass.hmac
    BY <1>2 DEF TypeOK, Pass
  <2>2. Action' = DetermineReconcileAction(cchildren[Kind], Desired(Kind), pass.uid)
    BY <2>1 DEF Action, Desired, Kind
  <2>3. pass # pass' /\ pass'.pc = "write" => Action' \in {"create", "update", "delete"}
    BY <2>2, WriteSteps
  <2> QED BY <1>1, <2>3 DEF WriteDecided
<1>3. CASE pass'.pc # "write"
  BY <1>3 DEF WriteDecided
<1> QED BY <1>1, <1>2, <1>3, WriteSteps

LEMMA InvInit == Init => Inv
<1> SUFFICES ASSUME Init PROVE Inv
  OBVIOUS
<1>1. TypeOK /\ InOrder("uid") /\ PassUid /\ WriteDecided
  BY InitType, InOrderInit DEF Init, PassUid, WriteDecided, IdlePass
<1>2. Bound("uid") \in Nat
  BY <1>1 DEF Bound, TypeOK, Policy, Pass
<1>3. \A k \in Kinds : Held(k) = { NoObject }
  BY DEF Held, Init, IdlePass
<1>4. HeldCopies
  BY <1>2, <1>3 DEF HeldCopies, NoObject, Absent
<1> QED BY <1>1, <1>4 DEF Inv

LEMMA InvStep ==
  ASSUME Never("race"), Inv, [Next]_vars
  PROVE  Inv'
<1>1. CASE UNCHANGED vars
  <2> USE <1>1 DEF Inv, vars
  <2>1. TypeOK'
    BY DEF TypeOK
  <2>2. InOrder("uid")' /\ PassUid'
    BY DEF InOrder, Bound, PassUid
  <2>3. WriteDecided'
    BY DEF WriteDecided, Action, Desired, Kind
  <2>4. HeldCopies'
    BY DEF HeldCopies, Held, Bound, Kind
  <2> QED BY <2>1, <2>2, <2>3, <2>4
<1>2. CASE Next
  <2>1. TypeOK /\ TypeOK'
    BY <1>2, EnvironmentType, SyncType, ReconcileType DEF Next, Inv
  <2>2. InOrder("uid")'
    BY <2>1, InOrderStep DEF Inv, Increasing
  <2>3. PassUid'
    <3>1. cpolicy.uid >= 1
      BY <2>1 DEF TypeOK, Policy
    <3> QED BY <1>2, <2>1, <3>1, PassSteps DEF Inv, PassUid
  <2>4. WriteDecided'
    BY <1>2, <2>1, WriteDecidedStep DEF Inv
  <2>5. HeldCopies'
    <3>1. /\ Bound("uid") \in Nat /\ Bound("uid")' \in Nat
          /\ (pass.pc # "idle" => Bound("uid") = pass.uid)
      BY <2>1 DEF Bound, TypeOK, Policy, Pass
    <3>2. Bound("uid") <= Bound("uid")'
      BY <1>2, <2>1, BoundGrows DEF Inv, Increasing
    <3> SUFFICES ASSUME NEW k \in Kinds, NEW v \in Held(k)'
                 PROVE  /\ v.owner <= Bound("uid")'
                        /\ v.owner >= 1 => children'[k].owner = Absent \/ children'[k].owner >= v.owner
      BY DEF HeldCopies
    <3>3. children[k].owner \in Int /\ children'[k].owner \in Int /\ children[k] \in Held(k)
      <4>1. children[k] \in Object /\ children'[k] \in Object /\ children[k] \in Held(k)
        BY <2>1 DEF TypeOK, Held
      <4> QED BY <4>1 DEF Object, Absent, Foreign
    <3>4. children[k].owner <= Bound("uid")
      BY <3>3 DEF Inv, HeldCopies
    <3>5. children'[k].owner <= Bound("uid")'
      BY <1>2, <3>1, <3>2, <3>3, <3>4, OwnerSteps DEF Absent, Foreign
    <3>6. CASE v = children'[k]
      BY <3>3, <3>5, <3>6
    <3>7. CASE v \in Held(k)
      <4>1. v \in Object
        <5>1. \A i \in 1..Len(echildren[k]) : echildren[k][i] \in Object
          BY <2>1 DEF TypeOK
        <5>2. children[k] \in Object /\ cchildren[k] \in Object /\ pass.cur \in Object
          BY <2>1 DEF TypeOK, Pass
        <5> QED BY <3>7, <5>1, <5>2 DEF Held
      <4>2. v.owner \in Int
        BY <4>1 DEF Object, Absent, Foreign
      <4>3. /\ v.owner <= Bound("uid")
            /\ v.owner >= 1 => children[k].owner = Absent \/ children[k].owner >= v.owner
        BY <3>7 DEF Inv, HeldCopies
      <4>4. v.owner <= Bound("uid")'
        BY <3>1, <3>2, <4>2, <4>3
      <4> QED BY <1>2, <3>1, <3>3, <3>7, <4>2, <4>3, <4>4, OwnerSteps DEF Absent, Foreign
    <3> QED BY <1>2, <2>1, <3>6, <3>7, HeldSteps
  <2> QED BY <2>1, <2>2, <2>3, <2>4, <2>5 DEF Inv
<1> QED BY <1>1, <1>2

\* As long as nobody takes a name while the operator holds an owned copy of
\* the object that was there, a pass changes and deletes only objects that its
\* AuthPolicy controls: however stale the caches are, through deletions,
\* recreations and restarts, and although its writes go by name only.
THEOREM OnlyControlled ==
  ASSUME Never("race")
  PROVE  Spec => OnlyControlledObjectsChange
<1> DEFINE Safe ==
      pass' # pass =>
        \A k \in Kinds : children'[k] # children[k] =>
          ~Exists(children[k]) \/ IsControlledBy(children[k], pass.uid)
<1>1. Inv /\ [Next]_vars => [Safe]_vars
  <2> SUFFICES ASSUME Inv, Next, pass' # pass, NEW k \in Kinds, children'[k] # children[k]
               PROVE  ~Exists(children[k]) \/ IsControlledBy(children[k], pass.uid)
    OBVIOUS
  <2>1. WriteChild \/ WriteFails
    BY DEF Next, UserStep, CollectStep, SyncStep, ReconcileStep, EditSpec, StripLabels,
           DeletePolicy, RecreatePolicy, ChangeOauth, TamperChild, CreateForeign, DeleteForeign,
           CollectPolicy, CollectChild, SyncPolicy, SyncOauth, SyncChild, PodEvent, Resync, Crash,
           ReconcileGone, ReconcileStart, PatchLabels, PatchLabelsFails, ResolveAuthPolicy,
           ResolveFails, ReconcileControllerResource, GetFails, StatusUnchanged, UpdateStatus,
           UpdateStatusConflict, UpdateStatusFails, server, childVars
  <2>2. pass.pc = "write" /\ ServerAccepts /\ SetChild(Kind, Written)
    BY <2>1 DEF WriteChild, WriteFails, SetChild, childVars
  <2>3. k = Kind
    BY <2>2, WriteActions DEF Inv
  <2>4. CASE Action = "create"
    BY <2>2, <2>3, <2>4 DEF ServerAccepts
  <2>5. CASE Action # "create"
    BY <2>2, <2>3, <2>5, WriteReachesOwnObject DEF IsControlledBy
  <2> QED BY <2>4, <2>5
<1>2. Inv /\ [Next]_vars => Inv'
  BY InvStep
<1> QED BY <1>1, <1>2, InvInit, PTL DEF Spec, OnlyControlledObjectsChange

----------------------------------------------------------------------------
(* ObservedGeneration.                                                     *)

\* The status speaks of no later generation than the passes so far.
StatusInOrder == policy.status.obs <= Bound("gen")

\* As long as the AuthPolicy was never recreated.
GenInv == TypeOK /\ (used["recreate"] = 0 => InOrder("gen") /\ StatusInOrder)

LEMMA CountsNeverFall ==
  ASSUME TypeOK, Next, NEW c \in Disturbances
  PROVE  used[c] \in Nat /\ used[c] <= used'[c]
<1>1. used[c] \in Nat
  BY DEF TypeOK
<1>2. used' = used \/ \E d \in Disturbances : Spend(d)
  <2>1. \A d : d \in { "edit", "strip", "delete", "recreate", "rotate", "tamper", "foreign",
           "race", "pod", "apiFail", "statusFail", "listFail", "crash" } => d \in Disturbances
    BY DEF Disturbances
  <2>2. CASE UserStep \/ CollectStep \/ PodEvent \/ Resync \/ Crash
    BY <2>1, <2>2 DEF UserStep, CollectStep, EditSpec, StripLabels, DeletePolicy, RecreatePolicy,
           ChangeOauth, TamperChild, CreateForeign, DeleteForeign, CollectPolicy, CollectChild,
           PodEvent, Resync, Crash
  <2>3. CASE SyncStep
    BY <2>1, <2>3 DEF SyncStep, SyncPolicy, SyncOauth, SyncChild, EnqueueAuthPoliciesInNamespace
  <2>4. CASE ReconcileStep
    BY <2>1, <2>4 DEF ReconcileStep, ReconcileGone, ReconcileStart, PatchLabels, PatchLabelsFails,
           ResolveAuthPolicy, ResolveFails, ReconcileControllerResource, GetFails, WriteChild,
           WriteFails, StatusUnchanged, UpdateStatus, UpdateStatusConflict, UpdateStatusFails
  <2> QED BY <2>2, <2>3, <2>4 DEF Next
<1>3. \A d \in Disturbances : Spend(d) => used[c] <= used'[c]
  BY <1>1 DEF Spend, TypeOK
<1>4. CASE used' = used
  BY <1>1, <1>4
<1> QED BY <1>1, <1>2, <1>3, <1>4

\* How a step changes ObservedGeneration.
LEMMA StatusSteps ==
  ASSUME TypeOK, Next, used'["recreate"] = 0
  PROVE  \/ policy'.status.obs = policy.status.obs
         \/ UpdateStatus /\ policy'.status.obs = pass.gen
<1> USE DEF policyVars, childVars, oauthVars, server, caches
<1>0. policy \in Policy /\ used["recreate"] \in Nat
  BY DEF TypeOK, Disturbances
<1>1. CASE EditSpec \/ StripLabels \/ DeletePolicy \/ CollectPolicy \/ PatchLabels
  BY <1>0, <1>1 DEF EditSpec, StripLabels, DeletePolicy, CollectPolicy, PatchLabels, SetPolicy,
                    Policy
<1>2. ~RecreatePolicy
  BY <1>0 DEF RecreatePolicy, Spend, TypeOK, Disturbances
<1>3. CASE UpdateStatus
  <2>1. policy' = [ policy EXCEPT !.status = ComputedStatus ]
    BY <1>3 DEF UpdateStatus, SetPolicy
  <2>2. policy'.status = ComputedStatus
    BY <1>0, <2>1 DEF Policy
  <2> QED BY <1>3, <2>2 DEF ComputedStatus
<1>4. CASE \/ ChangeOauth \/ PodEvent \/ Resync \/ SyncPolicy \/ SyncOauth \/ Crash
           \/ \E k \in Kinds : TamperChild(k) \/ CreateForeign(k) \/ DeleteForeign(k)
                                \/ CollectChild(k) \/ SyncChild(k)
  BY <1>4 DEF ChangeOauth, PodEvent, Resync, SyncPolicy, SyncOauth, Crash, TamperChild,
              CreateForeign, DeleteForeign, CollectChild, SyncChild
<1>5. CASE \/ ReconcileGone \/ ReconcileStart \/ PatchLabelsFails
           \/ ResolveAuthPolicy \/ ResolveFails
           \/ ReconcileControllerResource \/ GetFails \/ WriteChild \/ WriteFails
           \/ StatusUnchanged \/ UpdateStatusConflict \/ UpdateStatusFails
  BY <1>5 DEF ReconcileGone, ReconcileStart, PatchLabelsFails, ResolveAuthPolicy, ResolveFails,
              ReconcileControllerResource, GetFails, WriteChild, WriteFails,
              StatusUnchanged, UpdateStatusConflict, UpdateStatusFails
<1> QED BY <1>1, <1>2, <1>3, <1>4, <1>5
        DEF Next, UserStep, CollectStep, SyncStep, ReconcileStep

LEMMA GenInvInit == Init => GenInv
<1> SUFFICES ASSUME Init PROVE GenInv
  OBVIOUS
<1>1. policy.status.obs = 0 /\ Bound("gen") = 1
  BY InitType DEF Init, NewPolicy, NewStatus, Bound, IdlePass, TypeOK, Policy
<1> QED BY <1>1, InitType, InOrderInit DEF GenInv, StatusInOrder

LEMMA GenInvStep ==
  ASSUME GenInv, [Next]_vars
  PROVE  GenInv'
<1>1. CASE UNCHANGED vars
  BY <1>1 DEF GenInv, TypeOK, InOrder, StatusInOrder, Bound, vars
<1>2. CASE Next
  <2>1. TypeOK /\ TypeOK'
    BY <1>2, EnvironmentType, SyncType, ReconcileType DEF Next, GenInv
  <2> SUFFICES ASSUME used'["recreate"] = 0 PROVE InOrder("gen")' /\ StatusInOrder'
    BY <2>1 DEF GenInv
  <2>2. used["recreate"] = 0
    BY <1>2, <2>1, CountsNeverFall DEF Disturbances
  <2>3. Increasing("gen") /\ InOrder("gen") /\ StatusInOrder
    BY <2>2 DEF Increasing, GenInv
  <2>4. InOrder("gen")'
    BY <2>1, <2>3, InOrderStep
  <2>5. /\ Bound("gen") \in Nat /\ Bound("gen")' \in Nat /\ policy.status.obs \in Nat
        /\ pass.gen \in Nat
    BY <2>1 DEF Bound, TypeOK, Policy, Pass, Status
  <2>6. Bound("gen") <= Bound("gen")'
    BY <1>2, <2>1, <2>3, BoundGrows
  <2>7. UpdateStatus => Bound("gen") = pass.gen
    BY DEF UpdateStatus, InStatus, Bound
  <2>8. StatusInOrder'
    BY <1>2, <2>1, <2>3, <2>5, <2>6, <2>7, StatusSteps DEF StatusInOrder
  <2> QED BY <2>4, <2>8
<1> QED BY <1>1, <1>2

\* Unless the AuthPolicy is deleted and recreated under a pass that is still
\* working for the old one: the status never claims a generation that the
\* AuthPolicy does not have.
THEOREM ObservedGenerationIsValid == Spec => []ObservedGenerationValid
<1>1. GenInv => ObservedGenerationValid
  <2> SUFFICES ASSUME GenInv, used["recreate"] = 0 PROVE policy.status.obs <= policy.gen
    BY DEF ObservedGenerationValid
  <2>1. policy.status.obs \in Nat /\ Bound("gen") \in Nat /\ policy.gen \in Nat /\ cpolicy.gen \in Nat
    BY DEF GenInv, TypeOK, Policy, Status, Pass, Bound
  <2> QED BY <2>1 DEF GenInv, StatusInOrder, InOrder
<1>2. GenInv /\ [Next]_vars => GenInv'
  BY GenInvStep
<1> QED BY <1>1, <1>2, GenInvInit, PTL DEF Spec

\* And it never goes back to an earlier generation, although every pass writes
\* the generation it read from a cache that may be out of date.
THEOREM ObservedGenerationNeverGoesBack == Spec => ObservedGenerationMonotone
<1> DEFINE Step == used'["recreate"] = 0 => policy'.status.obs >= policy.status.obs
<1>1. GenInv /\ [Next]_vars => [Step]_vars
  <2> SUFFICES ASSUME GenInv, Next, used'["recreate"] = 0
               PROVE  policy'.status.obs >= policy.status.obs
    OBVIOUS
  <2>1. /\ policy.status.obs \in Nat /\ pass.gen \in Nat
        /\ TypeOK
    BY DEF GenInv, TypeOK, Policy, Status, Pass
  <2>2. used["recreate"] = 0
    BY <2>1, CountsNeverFall DEF Disturbances
  <2>3. UpdateStatus => Bound("gen") = pass.gen
    BY DEF UpdateStatus, InStatus, Bound
  <2> QED BY <2>1, <2>2, <2>3, StatusSteps DEF GenInv, StatusInOrder
<1>2. GenInv /\ [Next]_vars => GenInv'
  BY GenInvStep
<1> QED BY <1>1, <1>2, GenInvInit, PTL DEF Spec, ObservedGenerationMonotone

----------------------------------------------------------------------------
(***************************************************************************)
(* QuiescentMeansConverged and QuiescentMeansReported, for every set of    *)
(* specs, every budget of disturbances and every lag of the informers: the *)
(* operator comes to rest only on the children and the status that the     *)
(* spec asks for.                                                          *)
(*                                                                         *)
(* The argument: while a request waits, or an event is on its way that     *)
(* will leave one, nothing is promised.  Otherwise ("calm") the caches     *)
(* differ from the server only in what no handler cares about, the pass    *)
(* under way works for the current spec and credentials, and each child it *)
(* has had its turn with is as wanted, or has an event under way that says *)
(* otherwise.                                                              *)
(***************************************************************************)

(* The inductive invariant.                                                *)

\* What a watch and a cache together know last.
Newest(cached, events) == IF events = << >> THEN cached ELSE events[Len(events)]

UpToDate ==
  /\ policy = Newest(cpolicy, epolicy)
  /\ oauth = Newest(coauth, eoauth)
  /\ \A k \in Kinds : children[k] = Newest(cchildren[k], echildren[k])

\* What a pass depends on.
Core(p) == << p.present, p.uid, p.gen, p.spec, p.deleting >>

\* What GenerationChangedPredicate looks at.
Queues(p, q) == p.present # q.present \/ p.gen # q.gen

Before(i) == IF i = 1 THEN cpolicy ELSE epolicy[i - 1]

\* No change that matters to a pass gets past the predicate.
PolicyEvents ==
  \A i \in 1..Len(epolicy) :
    Core(Before(i)) # Core(epolicy[i]) => Queues(Before(i), epolicy[i])

\* An event that will leave a request is on its way.
PolicyWake == \E i \in 1..Len(epolicy) : Core(epolicy[i]) # Core(cpolicy)

ChildWake(k) ==
  /\ echildren[k] # << >>
  /\ \/ k = "Secret" \/ cchildren[k].owner >= 1
     \/ \E i \in 1..Len(echildren[k]) : echildren[k][i].owner >= 1

\* There is an AuthPolicy, and nothing about it is waiting.
Calm ==
  /\ used["listFail"] = 0
  /\ policy.present /\ ~policy.deleting
  /\ ~queued
  /\ ~PolicyWake

\* The children that the pass has had its turn with.
Handled ==
  IF pass.pc = "status" THEN Kinds
  ELSE IF pass.pc \in { "get", "write" }
  THEN { ControllerResources[j] : j \in 1..(pass.idx - 1) }
  ELSE {}

\* What the pass has noted about them.
PassShape ==
  /\ pass.pc \in { "labels", "resolve" } => pass.idx = 1 /\ pass.ok = {} /\ pass.failed = {}
  /\ pass.pc = "labels" => pass.orig.phase = "Pending"
  /\ pass.pc \in { "get", "write", "status" } /\ pass.failed = {} =>
       pass.ok = Handled \cap WantedKinds
  /\ WriteDecided

\* The pass is about the AuthPolicy and the secret that are there.
PassKnows ==
  /\ pass.uid = policy.uid /\ pass.gen = policy.gen /\ pass.spec = policy.spec
  /\ pass.orig.phase = "Pending" \/ pass.orig = policy.status
  /\ pass.pc \in { "get", "write", "status" } =>
       pass.cred = IF pass.spec.autoLogin THEN coauth ELSE 0
  /\ pass.pc = "write" =>
       \/ pass.cur = cchildren[Kind]
       \/ pass.cur.owner < 1 /\ cchildren[Kind].owner < 1

PassCurrent == Calm /\ pass.pc # "idle" => PassKnows

\* As wanted, or an event or the garbage collector will see to it.
Settled(k) == Matches(k) \/ ChildWake(k) \/ eoauth # << >> \/ IsGarbage(k)

\* The children somebody has seen to.
SeenTo ==
  IF pass.pc = "idle" THEN Kinds
  ELSE IF pass.pc = "failStatus" \/ pass.failed # {} THEN {}
  ELSE Handled

Progress == Calm => \A k \in SeenTo : Settled(k)

Report == Calm /\ pass.pc = "idle" /\ used["statusFail"] = 0 => Reported

CalmInv == PassCurrent /\ Progress /\ Report

ConvInv == TypeOK /\ UpToDate /\ PolicyEvents /\ PassShape /\ CalmInv

----------------------------------------------------------------------------
(* Watches.                                                                *)

LEMMA NewestAppend ==
  ASSUME NEW S, NEW s \in Seq(S), NEW x \in S, NEW c
  PROVE  Newest(c, Append(s, x)) = x
BY DEF Newest

LEMMA NewestTail ==
  ASSUME NEW S, NEW s \in Seq(S), s # << >>, NEW c
  PROVE  Newest(Head(s), Tail(s)) = Newest(c, s)
<1>1. CASE Tail(s) = << >>
  <2>0. Len(s) \in Nat /\ Len(Tail(s)) = Len(s) - 1
    OBVIOUS
  <2>1. Len(s) = 1 /\ Head(s) = s[1]
    <3>1. Len(<< >>) = 0 /\ Head(s) = s[1]
      OBVIOUS
    <3>2. Len(Tail(s)) = 0
      BY <1>1, <3>1, Zenon
    <3>3. Len(s) = 1
      BY <1>1, <2>0, <3>2
    <3> QED BY <3>1, <3>3, Zenon
  <2> QED BY <1>1, <2>1 DEF Newest
<1>2. CASE Tail(s) # << >>
  <2>1. Len(Tail(s)) = Len(s) - 1 /\ Len(Tail(s)) >= 1
    BY <1>2
  <2>2. Tail(s)[Len(Tail(s))] = s[Len(s)]
    BY <2>1
  <2> QED BY <1>2, <2>2 DEF Newest
<1> QED BY <1>1, <1>2

\* Every change of the AuthPolicy that matters to a pass is one the predicate
\* lets through.
LEMMA PolicyStep ==
  ASSUME TypeOK, Next
  PROVE  \/ UNCHANGED << policy, epolicy, cpolicy >>
         \/ /\ \E new \in Policy : /\ SetPolicy(new)
                                   /\ Core(new) # Core(policy) => Queues(policy, new)
            /\ UNCHANGED cpolicy
         \/ SyncPolicy
         \/ Crash
<1> USE DEF policyVars, childVars, oauthVars, server, caches
<1>0. policy \in Policy /\ policy.gen \in Nat
  BY DEF TypeOK, Policy
<1>1. CASE EditSpec
  <2>1. PICK s \in Specs : SetPolicy([ policy EXCEPT !.spec = s, !.gen = @ + 1 ])
    BY <1>1 DEF EditSpec
  <2>2. [ policy EXCEPT !.spec = s, !.gen = @ + 1 ] \in Policy
    BY <1>0, NextGenerationType DEF Policy
  <2>3. Queues(policy, [ policy EXCEPT !.spec = s, !.gen = @ + 1 ])
    BY <1>0 DEF Queues, Policy
  <2> QED BY <1>1, <2>1, <2>2, <2>3 DEF EditSpec
<1>2. CASE StripLabels
  <2> DEFINE new == [ policy EXCEPT !.labelled = FALSE ]
  <2>1. new \in Policy /\ Core(new) = Core(policy)
    BY <1>0 DEF Policy, Core
  <2> QED BY <1>2, <2>1 DEF StripLabels
<1>3. CASE DeletePolicy
  <2> DEFINE gone == [ policy EXCEPT !.present = FALSE ]
             marked == [ policy EXCEPT !.deleting = TRUE, !.gen = @ + 1 ]
  <2>1. gone \in Policy /\ Queues(policy, gone)
    BY <1>0, <1>3 DEF Policy, Queues, DeletePolicy
  <2>2. marked \in Policy /\ Queues(policy, marked)
    <3>1. marked \in Policy /\ marked.gen = policy.gen + 1
      BY <1>0, NextGenerationType DEF Policy
    <3> QED BY <1>0, <3>1 DEF Queues
  <2> QED BY <1>3, <2>1, <2>2 DEF DeletePolicy
<1>4. CASE RecreatePolicy
  <2>1. PICK s \in Specs : SetPolicy(NewPolicy(policy.uid + 1, s))
    BY <1>4 DEF RecreatePolicy
  <2>2. NewPolicy(policy.uid + 1, s) \in Policy
    BY NextGenerationType DEF NewPolicy, Policy, NewStatus, Status, Phases
  <2>3. Queues(policy, NewPolicy(policy.uid + 1, s))
    BY <1>4 DEF RecreatePolicy, Queues, NewPolicy
  <2> QED BY <1>4, <2>1, <2>2, <2>3 DEF RecreatePolicy
<1>5. CASE CollectPolicy
  <2> DEFINE new == [ policy EXCEPT !.present = FALSE, !.deleting = FALSE ]
  <2>1. new \in Policy /\ Queues(policy, new)
    BY <1>0, <1>5 DEF Policy, Queues, CollectPolicy
  <2> QED BY <1>5, <2>1 DEF CollectPolicy
<1>6. CASE PatchLabels
  <2> DEFINE new == [ policy EXCEPT !.labelled = TRUE ]
  <2>1. new \in Policy /\ Core(new) = Core(policy)
    BY <1>0 DEF Policy, Core
  <2> QED BY <1>6, <2>1 DEF PatchLabels
<1>7. CASE UpdateStatus
  <2> DEFINE new == [ policy EXCEPT !.status = ComputedStatus ]
  <2>1. new \in Policy /\ Core(new) = Core(policy)
    BY <1>0, ComputedStatusType DEF Policy, Core
  <2> QED BY <1>7, <2>1 DEF UpdateStatus
<1>8. CASE \/ ChangeOauth \/ PodEvent \/ Resync \/ SyncOauth
           \/ \E k \in Kinds : TamperChild(k) \/ CreateForeign(k) \/ DeleteForeign(k)
                                \/ CollectChild(k) \/ SyncChild(k)
  BY <1>8 DEF ChangeOauth, PodEvent, Resync, SyncOauth, TamperChild, CreateForeign,
              DeleteForeign, CollectChild, SyncChild
<1>9. CASE \/ ReconcileGone \/ ReconcileStart \/ PatchLabelsFails
           \/ ResolveAuthPolicy \/ ResolveFails
           \/ ReconcileControllerResource \/ GetFails \/ WriteChild \/ WriteFails
           \/ StatusUnchanged \/ UpdateStatusConflict \/ UpdateStatusFails
  BY <1>9 DEF ReconcileGone, ReconcileStart, PatchLabelsFails, ResolveAuthPolicy, ResolveFails,
              ReconcileControllerResource, GetFails, WriteChild, WriteFails,
              StatusUnchanged, UpdateStatusConflict, UpdateStatusFails
<1> QED BY <1>1, <1>2, <1>3, <1>4, <1>5, <1>6, <1>7, <1>8, <1>9
        DEF Next, UserStep, CollectStep, SyncStep, ReconcileStep

LEMMA OauthStep ==
  ASSUME TypeOK, Next
  PROVE  \/ UNCHANGED << oauth, eoauth, coauth >>
         \/ (\E new \in Creds : SetOauth(new)) /\ UNCHANGED coauth
         \/ SyncOauth
         \/ Crash
<1> USE DEF policyVars, childVars, oauthVars, server, caches
<1>1. CASE UserStep \/ CollectStep \/ SyncStep \/ PodEvent \/ Resync
  BY <1>1 DEF UserStep, CollectStep, SyncStep, EditSpec, StripLabels, DeletePolicy,
              RecreatePolicy, ChangeOauth, TamperChild, CreateForeign, DeleteForeign,
              CollectPolicy, CollectChild, SyncPolicy, SyncChild, PodEvent, Resync
<1>2. CASE ReconcileStep
  BY <1>2 DEF ReconcileStep, ReconcileGone, ReconcileStart, PatchLabels, PatchLabelsFails,
              ResolveAuthPolicy, ResolveFails, ReconcileControllerResource, GetFails, WriteChild,
              WriteFails, StatusUnchanged, UpdateStatus, UpdateStatusConflict, UpdateStatusFails
<1> QED BY <1>1, <1>2 DEF Next

LEMMA ChildStep ==
  ASSUME TypeOK, Next
  PROVE  \/ UNCHANGED << children, echildren, cchildren >>
         \/ (\E j \in Kinds : \E new \in Object : SetChild(j, new)) /\ UNCHANGED cchildren
         \/ \E j \in Kinds : SyncChild(j)
         \/ Crash
<1> USE DEF policyVars, childVars, oauthVars, server, caches
<1>1. CASE \/ EditSpec \/ StripLabels \/ DeletePolicy \/ RecreatePolicy \/ ChangeOauth
           \/ CollectPolicy \/ SyncPolicy \/ SyncOauth \/ PodEvent \/ Resync
  BY <1>1 DEF EditSpec, StripLabels, DeletePolicy, RecreatePolicy, ChangeOauth,
              CollectPolicy, SyncPolicy, SyncOauth, PodEvent, Resync
<1>2. CASE \E j \in Kinds : TamperChild(j)
  <2>1. PICK j \in Kinds : TamperChild(j)
    BY <1>2
  <2>2. children[j] \in Object /\ Tampered \in Seq(Int)
    BY DEF TypeOK, Tampered
  <2>3. /\ [ children[j] EXCEPT !.body = Tampered ] \in Object
        /\ [ children[j] EXCEPT !.labels = FALSE ] \in Object
    BY <2>2 DEF Object
  <2> QED BY <2>1, <2>3, NoObjectType DEF TamperChild
<1>3. CASE \E j \in Kinds : CreateForeign(j) \/ DeleteForeign(j) \/ CollectChild(j)
  <2>1. ForeignObject \in Object
    BY DEF ForeignObject, Object, Foreign, Tampered
  <2> QED BY <1>3, <2>1, NoObjectType DEF CreateForeign, DeleteForeign, CollectChild
<1>4. CASE \/ ReconcileGone \/ ReconcileStart \/ PatchLabels \/ PatchLabelsFails
           \/ ResolveAuthPolicy \/ ResolveFails \/ ReconcileControllerResource \/ GetFails
           \/ StatusUnchanged \/ UpdateStatus \/ UpdateStatusConflict \/ UpdateStatusFails
  BY <1>4 DEF ReconcileGone, ReconcileStart, PatchLabels, PatchLabelsFails,
              ResolveAuthPolicy, ResolveFails, ReconcileControllerResource, GetFails,
              StatusUnchanged, UpdateStatus, UpdateStatusConflict, UpdateStatusFails
<1>5. CASE WriteChild \/ WriteFails
  BY <1>5, PassTypes, WrittenType DEF WriteChild, WriteFails
<1> QED BY <1>1, <1>2, <1>3, <1>4, <1>5
        DEF Next, UserStep, CollectStep, SyncStep, ReconcileStep

\* A watch ends with what is on the server.
LEMMA UpToDateStep ==
  ASSUME TypeOK, UpToDate, Next
  PROVE  UpToDate'
<1>0. /\ epolicy \in Seq(Policy) /\ eoauth \in Seq(Creds) /\ echildren \in [Kinds -> Seq(Object)]
      /\ children \in [Kinds -> Object] /\ cchildren \in [Kinds -> Object]
  BY DEF TypeOK
<1>1. policy' = Newest(cpolicy', epolicy')
  <2>1. CASE UNCHANGED << policy, epolicy, cpolicy >>
    BY <2>1 DEF UpToDate
  <2>2. CASE (\E new \in Policy : SetPolicy(new)) /\ UNCHANGED cpolicy
    BY <1>0, <2>2, NewestAppend DEF UpToDate, SetPolicy
  <2>3. CASE SyncPolicy
    <3>1. Newest(Head(epolicy), Tail(epolicy)) = Newest(cpolicy, epolicy)
      BY <1>0, <2>3, NewestTail DEF SyncPolicy
    <3> QED BY <2>3, <3>1 DEF UpToDate, SyncPolicy
  <2>4. CASE Crash
    BY <2>4 DEF Crash, Newest
  <2> QED BY <2>1, <2>2, <2>3, <2>4, PolicyStep
<1>2. oauth' = Newest(coauth', eoauth')
  <2>1. CASE UNCHANGED << oauth, eoauth, coauth >>
    BY <2>1 DEF UpToDate
  <2>2. CASE (\E new \in Creds : SetOauth(new)) /\ UNCHANGED coauth
    BY <1>0, <2>2, NewestAppend DEF SetOauth
  <2>3. CASE SyncOauth
    <3>1. Newest(Head(eoauth), Tail(eoauth)) = Newest(coauth, eoauth)
      BY <1>0, <2>3, NewestTail DEF SyncOauth
    <3> QED BY <2>3, <3>1 DEF UpToDate, SyncOauth
  <2>4. CASE Crash
    BY <2>4 DEF Crash, Newest
  <2> QED BY <2>1, <2>2, <2>3, <2>4, OauthStep
<1>3. ASSUME NEW k \in Kinds PROVE children'[k] = Newest(cchildren'[k], echildren'[k])
  <2>0. echildren[k] \in Seq(Object)
    BY <1>0
  <2>1. CASE UNCHANGED << children, echildren, cchildren >>
    BY <2>1 DEF UpToDate
  <2>2. CASE (\E j \in Kinds : \E new \in Object : SetChild(j, new)) /\ UNCHANGED cchildren
    <3>1. PICK j \in Kinds, new \in Object : SetChild(j, new)
      BY <2>2
    <3>2. CASE j # k \/ echildren' = echildren
      BY <1>0, <2>2, <3>1, <3>2 DEF UpToDate, SetChild
    <3>3. CASE j = k /\ echildren' # echildren
      <4>1. echildren'[k] = Append(echildren[k], new) /\ children'[k] = new
        BY <1>0, <3>1, <3>3 DEF SetChild
      <4> QED BY <2>0, <4>1, NewestAppend
    <3> QED BY <3>2, <3>3
  <2>3. ASSUME NEW j \in Kinds, SyncChild(j)
        PROVE  children'[k] = Newest(cchildren'[k], echildren'[k])
    <3>1. CASE j # k
      BY <1>0, <2>3, <3>1 DEF UpToDate, SyncChild
    <3>2. CASE j = k
      <4>1. /\ cchildren'[k] = Head(echildren[k]) /\ echildren'[k] = Tail(echildren[k])
            /\ echildren[k] # << >> /\ children' = children
        BY <1>0, <2>3, <3>2 DEF SyncChild
      <4> QED BY <2>0, <4>1, NewestTail DEF UpToDate
    <3> QED BY <3>1, <3>2
  <2>4. CASE Crash
    BY <2>4 DEF Crash, Newest
  <2> QED BY <2>1, <2>2, <2>3, <2>4, ChildStep
<1> QED BY <1>1, <1>2, <1>3 DEF UpToDate

\* Whatever changes the AuthPolicy, a change that matters stays visible.
LEMMA PolicyEventsStep ==
  ASSUME TypeOK, UpToDate, PolicyEvents, Next
  PROVE  PolicyEvents'
<1>0. epolicy \in Seq(Policy) /\ Len(epolicy) \in Nat
  BY DEF TypeOK
<1>1. CASE UNCHANGED << policy, epolicy, cpolicy >>
  BY <1>1 DEF PolicyEvents, Before
<1>2. ASSUME NEW new \in Policy, SetPolicy(new), UNCHANGED cpolicy,
             Core(new) # Core(policy) => Queues(policy, new)
      PROVE  PolicyEvents'
  <2>1. CASE epolicy' = epolicy
    BY <1>2, <2>1 DEF PolicyEvents, Before
  <2>2. CASE epolicy' = Append(epolicy, new)
    <3>1. /\ Len(epolicy') = Len(epolicy) + 1
          /\ \A i \in 1..Len(epolicy) : epolicy'[i] = epolicy[i]
          /\ epolicy'[Len(epolicy) + 1] = new
      BY <1>0, <2>2
    <3> SUFFICES ASSUME NEW i \in 1..Len(epolicy')
                 PROVE  Core(Before(i)') # Core(epolicy'[i]) => Queues(Before(i)', epolicy'[i])
      BY DEF PolicyEvents, Core, Queues
    <3>2. CASE i \in 1..Len(epolicy)
      <4>1. Before(i)' = Before(i) /\ epolicy'[i] = epolicy[i]
        BY <1>0, <1>2, <3>1, <3>2 DEF Before
      <4> QED BY <3>2, <4>1 DEF PolicyEvents
    <3>3. CASE i = Len(epolicy) + 1
      <4>1. Before(i)' = Newest(cpolicy, epolicy)
        <5>1. CASE epolicy = << >>
          <6>1. i = 1
            BY <3>3, <5>1
          <6> QED BY <1>2, <5>1, <6>1 DEF Before, Newest
        <5>2. CASE epolicy # << >>
          <6>1. i # 1 /\ Len(epolicy) \in 1..Len(epolicy) /\ i - 1 = Len(epolicy)
            BY <1>0, <3>3, <5>2
          <6> QED BY <3>1, <5>2, <6>1 DEF Before, Newest
        <5> QED BY <5>1, <5>2
      <4>2. Before(i)' = policy /\ epolicy'[i] = new
        BY <3>1, <3>3, <4>1 DEF UpToDate
      <4> QED BY <1>2, <4>2
    <3> QED BY <1>0, <3>1, <3>2, <3>3
  <2> QED BY <1>2, <2>1, <2>2 DEF SetPolicy
<1>3. CASE SyncPolicy
  <2>1. /\ Len(epolicy) >= 1 /\ cpolicy' = epolicy[1]
        /\ Len(epolicy') = Len(epolicy) - 1
        /\ \A i \in 1..Len(epolicy') : epolicy'[i] = epolicy[i + 1]
    BY <1>0, <1>3 DEF SyncPolicy
  <2> SUFFICES ASSUME NEW i \in 1..Len(epolicy')
               PROVE  Core(Before(i)') # Core(epolicy'[i]) => Queues(Before(i)', epolicy'[i])
    BY DEF PolicyEvents, Core, Queues
  <2>2. i + 1 \in 1..Len(epolicy) /\ i + 1 # 1 /\ (i + 1) - 1 = i /\ (i # 1 => i - 1 \in 1..Len(epolicy'))
        /\ (i # 1 => (i - 1) + 1 = i)
    BY <1>0, <2>1
  <2>3. Before(i)' = Before(i + 1) /\ epolicy'[i] = epolicy[i + 1]
    <3>1. Before(i + 1) = epolicy[i]
      BY <2>2 DEF Before
    <3>2. CASE i = 1
      BY <2>1, <3>1, <3>2 DEF Before
    <3>3. CASE i # 1
      BY <2>1, <2>2, <3>1, <3>3 DEF Before
    <3> QED BY <2>1, <3>2, <3>3
  <2> QED BY <2>2, <2>3 DEF PolicyEvents
<1>4. CASE Crash
  <2>1. Len(epolicy') = 0
    BY <1>4 DEF Crash
  <2> QED BY <2>1 DEF PolicyEvents
<1> QED BY <1>1, <1>2, <1>3, <1>4, PolicyStep

----------------------------------------------------------------------------
(* Calm.                                                                   *)

LEMMA CoreKnown ==
  ASSUME TypeOK, UpToDate, ~PolicyWake
  PROVE  Core(policy) = Core(cpolicy)
<1>1. CASE epolicy = << >>
  BY <1>1 DEF UpToDate, Newest
<1>2. CASE epolicy # << >>
  <2>1. Len(epolicy) \in 1..Len(epolicy)
    BY <1>2 DEF TypeOK
  <2> QED BY <1>2, <2>1 DEF UpToDate, Newest, PolicyWake
<1> QED BY <1>1, <1>2

\* A write of the AuthPolicy that leaves no event that matters has not
\* changed anything that matters.
LEMMA SetPolicyCalm ==
  ASSUME TypeOK, UpToDate, NEW new \in Policy, SetPolicy(new), UNCHANGED cpolicy, ~PolicyWake'
  PROVE  ~PolicyWake /\ Core(policy') = Core(policy)
<1>0. epolicy \in Seq(Policy) /\ Len(epolicy) \in Nat /\ policy' = new
  BY DEF TypeOK, SetPolicy
<1>1. CASE epolicy' = epolicy /\ new = policy
  BY <1>0, <1>1 DEF PolicyWake
<1>2. CASE epolicy' = Append(epolicy, new)
  <2>1. /\ Len(epolicy') = Len(epolicy) + 1
        /\ \A i \in 1..Len(epolicy) : epolicy'[i] = epolicy[i]
        /\ epolicy'[Len(epolicy) + 1] = new
    BY <1>0, <1>2
  <2>2. ~PolicyWake
    BY <1>0, <2>1 DEF PolicyWake
  <2>3. Core(new) = Core(cpolicy)
    BY <1>0, <2>1 DEF PolicyWake
  <2> QED BY <1>0, <2>2, <2>3, CoreKnown
<1> QED BY <1>1, <1>2 DEF SetPolicy

\* An event that leaves no request has not changed anything that matters.
LEMMA SyncPolicyCalm ==
  ASSUME TypeOK, PolicyEvents, SyncPolicy, ~queued', ~PolicyWake'
  PROVE  ~PolicyWake /\ Core(cpolicy') = Core(cpolicy)
<1>0. epolicy \in Seq(Policy) /\ Len(epolicy) \in Nat
  BY DEF TypeOK
<1>1. /\ Len(epolicy) >= 1 /\ cpolicy' = epolicy[1]
      /\ Len(epolicy') = Len(epolicy) - 1
      /\ \A i \in 1..Len(epolicy') : epolicy'[i] = epolicy[i + 1]
  BY <1>0 DEF SyncPolicy
<1>2. ~Queues(cpolicy, cpolicy')
  BY DEF SyncPolicy, Queues
<1>3. Core(cpolicy') = Core(cpolicy)
  <2>1. 1 \in 1..Len(epolicy) /\ Before(1) = cpolicy
    BY <1>0, <1>1 DEF Before
  <2> QED BY <1>1, <1>2, <2>1 DEF PolicyEvents
<1>4. ASSUME NEW i \in 1..Len(epolicy) PROVE Core(epolicy[i]) = Core(cpolicy)
  <2>1. CASE i = 1
    BY <1>1, <1>3, <2>1
  <2>2. CASE i # 1
    <3>1. i - 1 \in 1..Len(epolicy') /\ (i - 1) + 1 = i
      BY <1>0, <1>1, <2>2
    <3> QED BY <1>1, <1>3, <3>1 DEF PolicyWake
  <2> QED BY <2>1, <2>2
<1> QED BY <1>3, <1>4 DEF PolicyWake

\* Who takes a request from the queue.
LEMMA QueuedSteps ==
  ASSUME TypeOK, Next, ~queued'
  PROVE  ~queued \/ ReconcileStart \/ ReconcileGone \/ Crash
<1> USE DEF policyVars, childVars, oauthVars, server, caches
<1>1. CASE UserStep \/ CollectStep \/ PodEvent \/ Resync
  BY <1>1 DEF UserStep, CollectStep, EditSpec, StripLabels, DeletePolicy,
              RecreatePolicy, ChangeOauth, TamperChild, CreateForeign, DeleteForeign,
              CollectPolicy, CollectChild, PodEvent, Resync
<1>2. CASE SyncStep
  BY <1>2 DEF SyncStep, SyncPolicy, SyncOauth, SyncChild, EnqueueAuthPoliciesInNamespace
<1>3. CASE ReconcileStep
  BY <1>3 DEF ReconcileStep, PatchLabels, PatchLabelsFails,
              ResolveAuthPolicy, ResolveFails, ReconcileControllerResource, GetFails, WriteChild,
              WriteFails, StatusUnchanged, UpdateStatus, UpdateStatusConflict, UpdateStatusFails,
              EndReconcile, EndPass
<1> QED BY <1>1, <1>2, <1>3 DEF Next

\* Calm begins with a pass and nowhere else.
LEMMA CalmStep ==
  ASSUME TypeOK, UpToDate, PolicyEvents, Next, Calm'
  PROVE  \/ ReconcileStart /\ ~PolicyWake
         \/ /\ Calm
            /\ Core(policy') = Core(policy) /\ Core(cpolicy') = Core(cpolicy)
<1>1. used["listFail"] = 0
  <2>1. used["listFail"] \in Nat /\ used["listFail"] <= used'["listFail"] /\ used'["listFail"] = 0
    BY CountsNeverFall DEF Disturbances, Calm
  <2> QED BY <2>1
<1>2. policy'.present /\ ~policy'.deleting /\ ~queued' /\ ~PolicyWake'
  BY DEF Calm
<1>3. ~Crash
  BY <1>2 DEF Crash
<1>4. ~PolicyWake /\ Core(policy') = Core(policy) /\ Core(cpolicy') = Core(cpolicy)
  <2>1. CASE UNCHANGED << policy, epolicy, cpolicy >>
    BY <1>2, <2>1 DEF PolicyWake
  <2>2. CASE (\E new \in Policy : SetPolicy(new)) /\ UNCHANGED cpolicy
    BY <1>2, <2>2, SetPolicyCalm
  <2>3. CASE SyncPolicy
    BY <1>2, <2>3, SyncPolicyCalm DEF SyncPolicy
  <2> QED BY <1>3, <2>1, <2>2, <2>3, PolicyStep
<1>5. policy.present /\ ~policy.deleting
  BY <1>2, <1>4 DEF Core
<1>6. ~ReconcileGone
  <2>1. cpolicy.present /\ ~cpolicy.deleting
    BY <1>4, <1>5, CoreKnown DEF Core
  <2> QED BY <2>1 DEF ReconcileGone
<1> QED BY <1>1, <1>2, <1>3, <1>4, <1>5, <1>6, QueuedSteps DEF Calm

LEMMA ObjectOwner ==
  ASSUME NEW obj \in Object
  PROVE  obj.owner \in Int /\ (obj.owner >= 1 \/ obj.owner < 1)
BY DEF Object, Absent, Foreign

\* An event that leaves no request is one for a child that nobody owns.
LEMMA QuietSync ==
  ASSUME TypeOK, Calm, Calm'
  PROVE  /\ ~SyncOauth
         /\ \A k \in Kinds : SyncChild(k) =>
              k # "Secret" /\ cchildren[k].owner < 1 /\ Head(echildren[k]).owner < 1
<1>0. ~queued' /\ policy.present
  BY DEF Calm
<1>1. ~EnqueueAuthPoliciesInNamespace
  <2>1. ~Spend("listFail")
    <3>1. used["listFail"] = 0 /\ used'["listFail"] = 0 /\ used \in [Disturbances -> Nat]
      BY DEF Calm, TypeOK
    <3> QED BY <3>1 DEF Spend, Disturbances
  <2> QED BY <1>0, <2>1 DEF EnqueueAuthPoliciesInNamespace
<1>2. ~SyncOauth
  BY <1>1 DEF SyncOauth
<1>3. ASSUME NEW k \in Kinds, SyncChild(k)
      PROVE  k # "Secret" /\ cchildren[k].owner < 1 /\ Head(echildren[k]).owner < 1
  <2>1. cchildren[k] \in Object /\ Head(echildren[k]) \in Object
    <3>1. echildren[k] \in Seq(Object) /\ echildren[k] # << >>
      BY <1>3 DEF SyncChild, TypeOK
    <3> QED BY <3>1 DEF TypeOK
  <2> QED BY <1>0, <1>1, <1>3, <2>1, ObjectOwner DEF SyncChild
<1> QED BY <1>2, <1>3

\* What may happen in calm: no change of the AuthPolicy, and no event that
\* leaves a request.
LEMMA QuietStep ==
  ASSUME TypeOK, Next, Calm, Calm', Core(policy') = Core(policy)
  PROVE  \/ StripLabels \/ ChangeOauth \/ SyncPolicy
         \/ \E k \in Kinds : TamperChild(k) \/ CreateForeign(k) \/ DeleteForeign(k) \/ CollectChild(k)
         \/ \E k \in Kinds : /\ SyncChild(k) /\ k # "Secret"
                             /\ cchildren[k].owner < 1 /\ Head(echildren[k]).owner < 1
         \/ PatchLabels \/ ResolveAuthPolicy \/ ResolveFails
         \/ ReconcileControllerResource \/ GetFails \/ WriteChild \/ WriteFails
         \/ StatusUnchanged \/ UpdateStatus \/ UpdateStatusConflict \/ UpdateStatusFails
<1>0. policy \in Policy /\ policy.gen \in Nat /\ ~queued /\ ~queued' /\ policy.present
  BY DEF TypeOK, Policy, Calm
<1>1. ~EditSpec
  <2> SUFFICES ASSUME EditSpec PROVE FALSE
    OBVIOUS
  <2>1. PICK s \in Specs : policy' = [ policy EXCEPT !.spec = s, !.gen = @ + 1 ]
    BY DEF EditSpec, SetPolicy
  <2>2. policy'.gen = policy.gen + 1
    BY <1>0, <2>1 DEF Policy
  <2>3. policy'.gen = policy.gen
    BY DEF Core
  <2> QED BY <1>0, <2>2, <2>3
<1>2. ~DeletePolicy /\ ~CollectPolicy
  <2>1. policy'.present = policy.present /\ policy'.gen = policy.gen
    BY DEF Core
  <2>2. policy' = [ policy EXCEPT !.deleting = TRUE, !.gen = @ + 1 ] => policy'.gen = policy.gen + 1
    BY <1>0 DEF Policy
  <2>3. policy' = [ policy EXCEPT !.present = FALSE ] => ~policy'.present
    BY <1>0 DEF Policy
  <2>4. policy' = [ policy EXCEPT !.present = FALSE, !.deleting = FALSE ] => ~policy'.present
    BY <1>0 DEF Policy
  <2>5. policy.gen + 1 # policy.gen
    BY <1>0
  <2> QED BY <1>0, <2>1, <2>2, <2>3, <2>4, <2>5 DEF DeletePolicy, CollectPolicy, SetPolicy
<1>3. ~RecreatePolicy /\ ~PodEvent /\ ~Resync /\ ~PatchLabelsFails /\ ~Crash /\ ~ReconcileGone
      /\ ~ReconcileStart
  BY <1>0 DEF RecreatePolicy, PodEvent, Resync, PatchLabelsFails, EndPass, Crash, ReconcileGone,
              ReconcileStart
<1>4. ~SyncOauth
  BY QuietSync
<1> QED BY <1>1, <1>2, <1>3, <1>4, QuietSync DEF Next, UserStep, CollectStep, SyncStep, ReconcileStep

----------------------------------------------------------------------------
(* The pass.                                                               *)

LEMMA KindsInOrder == Kinds = { ControllerResources[j] : j \in 1..6 }
BY DEF Kinds, ControllerResources

\* What a pass is after one child.
LEMMA AdvanceFields ==
  ASSUME TypeOK, NEW o, NEW f, pass' = Advance(o, f)
  PROVE  /\ pass'.pc = IF pass.idx = 6 THEN "status" ELSE "get"
         /\ pass'.idx = IF pass.idx = 6 THEN 6 ELSE pass.idx + 1
         /\ pass'.ok = pass.ok \cup o /\ pass'.failed = pass.failed \cup f
         /\ pass'.uid = pass.uid /\ pass'.gen = pass.gen /\ pass'.spec = pass.spec
         /\ pass'.cred = pass.cred /\ pass'.hmac = pass.hmac /\ pass'.orig = pass.orig
BY DEF TypeOK, Pass, Advance

LEMMA AdvanceHandled ==
  ASSUME TypeOK, NEW o, NEW f, pass' = Advance(o, f), pass.pc \in { "get", "write" }
  PROVE  Handled' = Handled \cup { Kind }
<1>0. pass.idx \in 1..6
  BY DEF TypeOK, Pass
<1>1. Handled = { ControllerResources[j] : j \in 1..(pass.idx - 1) }
  BY DEF Handled
<1>2. { ControllerResources[j] : j \in 1..(pass.idx - 1) } \cup { Kind }
        = { ControllerResources[j] : j \in 1..pass.idx }
  <2>1. \A j : j \in 1..pass.idx <=> j \in 1..(pass.idx - 1) \/ j = pass.idx
    BY <1>0
  <2> QED BY <2>1 DEF Kind
<1>3. CASE pass.idx = 6
  <2>1. Handled' = Kinds
    BY <1>3, AdvanceFields DEF Handled
  <2> QED BY <1>1, <1>2, <1>3, <2>1, KindsInOrder
<1>4. CASE pass.idx # 6
  <2>1. pass'.pc = "get" /\ pass'.idx = pass.idx + 1
    BY <1>4, AdvanceFields
  <2>2. Handled' = { ControllerResources[j] : j \in 1..(pass'.idx - 1) }
    BY <2>1 DEF Handled
  <2>3. pass'.idx - 1 = pass.idx
    BY <1>0, <2>1
  <2> QED BY <1>1, <1>2, <2>2, <2>3
<1> QED BY <1>3, <1>4

\* The pass notes a child in ok exactly if it wants it.
LEMMA AdvanceShape ==
  ASSUME TypeOK, PassShape, NEW o, NEW f, pass' = Advance(o, f), pass.pc \in { "get", "write" },
         f = {} => o = { Kind } \cap WantedKinds
  PROVE  /\ pass'.pc \notin { "labels", "resolve" }
         /\ pass'.failed = {} => pass'.ok = Handled' \cap WantedKinds'
<1>1. pass'.pc \notin { "labels", "resolve" }
  BY AdvanceFields
<1>2. ASSUME pass'.failed = {} PROVE pass'.ok = Handled' \cap WantedKinds'
  <2>1. pass.failed = {} /\ f = {} /\ pass'.ok = pass.ok \cup o
    BY <1>2, AdvanceFields
  <2>2. WantedKinds' = WantedKinds
    BY AdvanceFields DEF WantedKinds, Desired
  <2>3. pass.ok = Handled \cap WantedKinds
    BY <2>1 DEF PassShape
  <2> QED BY <2>1, <2>2, <2>3, AdvanceHandled
<1> QED BY <1>1, <1>2

LEMMA PassShapeStep ==
  ASSUME TypeOK, PassShape, Next
  PROVE  PassShape'
<1> USE DEF policyVars, childVars, oauthVars, server, caches
<1>0. pass \in Pass /\ Kind \in Kinds
  BY PassTypes DEF TypeOK
<1>1. WriteDecided'
  BY WriteDecidedStep DEF PassShape
<1>2. CASE UNCHANGED pass
  BY <1>1, <1>2 DEF PassShape, Handled, WantedKinds, Desired
<1>3. CASE pass'.pc \in { "idle", "failStatus" }
  BY <1>1, <1>3 DEF PassShape
<1>4. CASE ReconcileStart
  <2>1. /\ pass'.pc \in { "labels", "resolve" } /\ pass'.idx = 1 /\ pass'.ok = {}
        /\ pass'.failed = {} /\ pass'.orig.phase = "Pending"
    BY <1>4 DEF ReconcileStart, IdlePass
  <2> QED BY <1>1, <2>1 DEF PassShape
<1>5. CASE PatchLabels
  <2>1. /\ pass'.pc = "resolve" /\ pass'.idx = pass.idx /\ pass'.ok = pass.ok
        /\ pass'.failed = pass.failed /\ pass.pc = "labels"
    BY <1>0, <1>5 DEF PatchLabels, Pass
  <2> QED BY <1>1, <2>1 DEF PassShape
<1>6. CASE ResolveAuthPolicy
  <2>1. /\ pass'.pc = "get" /\ pass'.idx = pass.idx /\ pass'.ok = pass.ok
        /\ pass'.failed = pass.failed /\ pass.pc = "resolve"
    BY <1>0, <1>6 DEF ResolveAuthPolicy, Pass
  <2>2. pass'.idx = 1 /\ pass'.ok = {}
    BY <2>1 DEF PassShape
  <2>3. Handled' = {}
    BY <2>1, <2>2 DEF Handled
  <2> QED BY <1>1, <2>1, <2>2, <2>3 DEF PassShape
<1>7. CASE ReconcileControllerResource
  <2> DEFINE action == DetermineReconcileAction(cchildren[Kind], Desired(Kind), pass.uid)
  <2>1. pass.pc = "get"
    BY <1>7 DEF ReconcileControllerResource
  <2>2. CASE action = "none"
    <3> DEFINE o == IF Exists(Desired(Kind)) THEN {Kind} ELSE {}
    <3>1. pass' = Advance(o, {})
      BY <1>7, <2>2 DEF ReconcileControllerResource
    <3>2. o = { Kind } \cap WantedKinds
      BY <1>0 DEF WantedKinds
    <3> HIDE DEF o
    <3> QED BY <1>1, <2>1, <3>1, <3>2, AdvanceShape DEF PassShape
  <2>3. CASE action = "notOwned"
    <3>1. pass' = Advance({}, {Kind})
      BY <1>7, <2>3 DEF ReconcileControllerResource
    <3> QED BY <1>1, <2>1, <3>1, AdvanceShape DEF PassShape
  <2>4. CASE action \notin { "none", "notOwned" }
    <3>1. pass' = [ pass EXCEPT !.pc = "write", !.cur = cchildren[Kind] ]
      BY <1>7, <2>4 DEF ReconcileControllerResource
    <3>2. /\ pass'.pc = "write" /\ pass'.idx = pass.idx /\ pass'.ok = pass.ok
          /\ pass'.failed = pass.failed /\ pass'.spec = pass.spec /\ pass'.uid = pass.uid
          /\ pass'.cred = pass.cred /\ pass'.hmac = pass.hmac
      BY <1>0, <3>1 DEF Pass
    <3>3. Handled' = Handled /\ WantedKinds' = WantedKinds
      BY <2>1, <3>2 DEF Handled, WantedKinds, Desired
    <3> QED BY <1>1, <2>1, <3>2, <3>3 DEF PassShape
  <2> QED BY <2>2, <2>3, <2>4
<1>8. CASE GetFails \/ WriteFails
  <2>1. pass' = Advance({}, {Kind}) /\ pass.pc \in { "get", "write" }
    BY <1>8 DEF GetFails, WriteFails
  <2> QED BY <1>1, <2>1, AdvanceShape DEF PassShape
<1>9. CASE WriteChild
  <2> DEFINE o == IF Action = "delete" THEN {} ELSE {Kind}
  <2>1. pass' = Advance(o, {}) /\ pass.pc = "write"
    BY <1>9 DEF WriteChild
  <2>2. Action = "delete" <=> ~Exists(Desired(Kind))
    BY <2>1 DEF PassShape, WriteDecided, Action, DetermineReconcileAction
  <2>3. o = { Kind } \cap WantedKinds
    BY <1>0, <2>2 DEF WantedKinds
  <2> HIDE DEF o
  <2> QED BY <1>1, <2>1, <2>3, AdvanceShape DEF PassShape
<1>10. CASE UpdateStatusConflict
  <2>1. /\ pass'.pc = pass.pc /\ pass'.idx = pass.idx /\ pass'.ok = pass.ok
        /\ pass'.failed = pass.failed /\ pass'.spec = pass.spec /\ pass'.uid = pass.uid
        /\ pass'.cred = pass.cred /\ pass'.hmac = pass.hmac /\ pass'.orig = pass.orig
    BY <1>0, <1>10 DEF UpdateStatusConflict, Pass
  <2>2. Handled' = Handled /\ WantedKinds' = WantedKinds
    BY <2>1 DEF Handled, WantedKinds, Desired
  <2> QED BY <1>1, <2>1, <2>2 DEF PassShape
<1>11. CASE \/ Crash \/ PatchLabelsFails \/ StatusUnchanged \/ UpdateStatus \/ UpdateStatusFails
            \/ ResolveFails
  <2>1. pass'.pc \in { "idle", "failStatus" }
    BY <1>0, <1>11 DEF Crash, PatchLabelsFails, StatusUnchanged, UpdateStatus, UpdateStatusFails,
              EndReconcile, EndPass, IdlePass, ResolveFails, Pass
  <2> QED BY <1>3, <2>1
<1>12. CASE UserStep \/ CollectStep \/ SyncStep \/ PodEvent \/ Resync \/ ReconcileGone
  BY <1>2, <1>12 DEF UserStep, CollectStep, SyncStep, EditSpec, StripLabels, DeletePolicy,
              RecreatePolicy, ChangeOauth, TamperChild, CreateForeign, DeleteForeign,
              CollectPolicy, CollectChild, SyncPolicy, SyncOauth, SyncChild, PodEvent, Resync,
              ReconcileGone
<1> QED BY <1>4, <1>5, <1>6, <1>7, <1>8, <1>9, <1>10, <1>11, <1>12 DEF Next, ReconcileStep

\* While it is calm, nothing that the pass has read changes under it.
LEMMA PassCurrentStep ==
  ASSUME TypeOK, UpToDate, PolicyEvents, PassCurrent, Next
  PROVE  PassCurrent'
<1> USE DEF policyVars, childVars, oauthVars, server, caches
<1> SUFFICES ASSUME Calm', pass'.pc # "idle" PROVE PassKnows'
  BY DEF PassCurrent
<1>0. pass \in Pass /\ policy \in Policy /\ cpolicy \in Policy /\ Kind \in Kinds
  BY PassTypes DEF TypeOK
<1>1. CASE ReconcileStart /\ ~PolicyWake
  <2>1. /\ pass'.uid = cpolicy.uid /\ pass'.gen = cpolicy.gen /\ pass'.spec = cpolicy.spec
        /\ pass'.orig.phase = "Pending" /\ pass'.pc \in { "labels", "resolve" }
        /\ policy' = policy
    BY <1>1 DEF ReconcileStart, IdlePass
  <2>2. policy.uid = cpolicy.uid /\ policy.gen = cpolicy.gen /\ policy.spec = cpolicy.spec
    BY <1>1, CoreKnown DEF Core
  <2> QED BY <2>1, <2>2 DEF PassKnows
<1>2. CASE Calm /\ Core(policy') = Core(policy)
  <2>0. policy'.uid = policy.uid /\ policy'.gen = policy.gen /\ policy'.spec = policy.spec
    BY <1>2 DEF Core
  <2>1. CASE \/ StripLabels \/ ChangeOauth \/ SyncPolicy
             \/ \E k \in Kinds : TamperChild(k) \/ CreateForeign(k) \/ DeleteForeign(k) \/ CollectChild(k)
    <3>1. UNCHANGED << pass, coauth, cchildren >> /\ policy'.status = policy.status
      BY <1>0, <2>1 DEF StripLabels, ChangeOauth, SyncPolicy, TamperChild, CreateForeign,
                        DeleteForeign, CollectChild, SetPolicy, Policy
    <3> QED BY <1>2, <2>0, <3>1 DEF PassCurrent, PassKnows, Kind
  <2>2. CASE \E k \in Kinds : /\ SyncChild(k) /\ k # "Secret"
                              /\ cchildren[k].owner < 1 /\ Head(echildren[k]).owner < 1
    <3>1. PICK k \in Kinds : /\ SyncChild(k)
                             /\ cchildren[k].owner < 1 /\ Head(echildren[k]).owner < 1
      BY <2>2
    <3>2. /\ UNCHANGED << pass, coauth, policy >>
          /\ cchildren' = [ cchildren EXCEPT ![k] = Head(echildren[k]) ]
          /\ cchildren \in [Kinds -> Object]
      BY <3>1 DEF SyncChild, TypeOK
    <3>3. PassKnows
      BY <1>2, <3>2 DEF PassCurrent
    <3>4. pass'.pc = "write" => \/ pass'.cur = cchildren'[Kind]
                                \/ pass'.cur.owner < 1 /\ cchildren'[Kind].owner < 1
      <4>1. CASE Kind = k
        BY <1>0, <3>1, <3>2, <3>3, <4>1 DEF PassKnows
      <4>2. CASE Kind # k
        BY <1>0, <3>2, <3>3, <4>2 DEF PassKnows
      <4> QED BY <4>1, <4>2
    <3>5. Kind' = Kind
      BY <3>2 DEF Kind
    <3> QED BY <3>2, <3>3, <3>4, <3>5 DEF PassKnows
  <2>3. CASE PatchLabels
    <3>1. /\ pass'.pc = "resolve" /\ pass'.orig = policy.status /\ pass.pc = "labels"
          /\ pass'.uid = pass.uid /\ pass'.gen = pass.gen /\ pass'.spec = pass.spec
      BY <1>0, <2>3 DEF PatchLabels, Pass
    <3>2. policy'.status = policy.status
      BY <1>0, <2>3 DEF PatchLabels, SetPolicy, Policy
    <3>3. PassKnows
      BY <1>2, <3>1 DEF PassCurrent
    <3> QED BY <2>0, <3>1, <3>2, <3>3 DEF PassKnows
  <2>4. CASE ResolveAuthPolicy \/ ResolveFails
    <3>1. /\ pass.pc = "resolve" /\ UNCHANGED << policy, coauth >>
          /\ pass'.uid = pass.uid /\ pass'.gen = pass.gen /\ pass'.spec = pass.spec
          /\ pass'.orig = pass.orig /\ pass'.pc \in { "get", "failStatus" }
          /\ pass'.pc = "get" => pass'.cred = IF pass.spec.autoLogin THEN coauth ELSE 0
      <4>1. CASE ResolveFails
        BY <1>0, <2>4, <4>1 DEF ResolveFails, Pass
      <4>2. CASE ResolveAuthPolicy
        BY <1>0, <2>4, <4>2 DEF ResolveAuthPolicy, Pass
      <4> QED BY <2>4, <4>1, <4>2
    <3>2. PassKnows
      BY <1>2, <3>1 DEF PassCurrent
    <3> QED BY <3>1, <3>2 DEF PassKnows
  <2>5. ASSUME NEW o, NEW f, pass' = Advance(o, f), pass.pc \in { "get", "write" },
               UNCHANGED << policy, coauth >>
        PROVE  PassKnows'
    <3>1. PassKnows
      BY <1>2, <2>5 DEF PassCurrent
    <3>2. /\ pass'.uid = pass.uid /\ pass'.gen = pass.gen /\ pass'.spec = pass.spec
          /\ pass'.orig = pass.orig /\ pass'.cred = pass.cred /\ pass'.pc # "write"
      BY <2>5, AdvanceFields
    <3> QED BY <2>5, <3>1, <3>2 DEF PassKnows
  <2>6. CASE ReconcileControllerResource
    <3>1. pass.pc = "get" /\ UNCHANGED << policy, coauth, cchildren >>
      BY <2>6 DEF ReconcileControllerResource
    <3>2. CASE pass' = [ pass EXCEPT !.pc = "write", !.cur = cchildren[Kind] ]
      <4>1. PassKnows
        BY <1>2, <3>1 DEF PassCurrent
      <4>2. /\ pass'.uid = pass.uid /\ pass'.gen = pass.gen /\ pass'.spec = pass.spec
            /\ pass'.orig = pass.orig /\ pass'.cred = pass.cred /\ pass'.cur = cchildren[Kind]
            /\ pass'.idx = pass.idx
        BY <1>0, <3>2 DEF Pass
      <4>3. Kind' = Kind
        BY <4>2 DEF Kind
      <4> QED BY <3>1, <4>1, <4>2, <4>3 DEF PassKnows
    <3> QED BY <2>5, <2>6, <3>1, <3>2 DEF ReconcileControllerResource
  <2>7. CASE GetFails \/ WriteChild \/ WriteFails
    BY <2>5, <2>7 DEF GetFails, WriteChild, WriteFails
  <2>8. CASE StatusUnchanged \/ UpdateStatus \/ UpdateStatusFails
    BY <2>8 DEF StatusUnchanged, UpdateStatus, UpdateStatusFails, EndReconcile, EndPass, IdlePass
  <2>9. CASE UpdateStatusConflict
    <3>1. /\ pass.pc # "idle" /\ UNCHANGED << policy, coauth >>
          /\ pass'.uid = pass.uid /\ pass'.gen = pass.gen /\ pass'.spec = pass.spec
          /\ pass'.orig = pass.orig /\ pass'.cred = pass.cred /\ pass'.pc = pass.pc
          /\ pass.pc \in { "status", "failStatus" }
      BY <1>0, <2>9 DEF UpdateStatusConflict, InStatus, Pass
    <3> QED BY <1>2, <3>1 DEF PassCurrent, PassKnows
  <2> QED BY <1>2, <2>1, <2>2, <2>3, <2>4, <2>6, <2>7, <2>8, <2>9, QuietStep
<1> QED BY <1>1, <1>2, CalmStep

----------------------------------------------------------------------------
(* One child.                                                              *)

\* What the AuthPolicy on the server asks for.
Want(k) ==
  GetDesired(k, policy.spec, policy.uid, IF policy.spec.autoLogin THEN oauth ELSE 0, 0)

LEMMA WantType ==
  ASSUME TypeOK, NEW k \in Kinds
  PROVE  Want(k) \in Object
<1>1. /\ policy.spec \in PolicySpec /\ policy.uid \in Nat
      /\ (IF policy.spec.autoLogin THEN oauth ELSE 0) \in Nat
  BY SpecsAssumption DEF TypeOK, Policy, Creds
<1> QED BY <1>1, DesiredType DEF Want

LEMMA WantOwner ==
  ASSUME NEW k
  PROVE  Exists(Want(k)) => Want(k).owner = policy.uid /\ Want(k).labels = TRUE
BY DEF Want, GetDesired, SecretGetDesired, EnvoyFilterGetDesired, RequestAuthenticationGetDesired,
       DenyGetDesired, IgnoreGetDesired, RequireGetDesired, Wanted, NoObject, Exists

LEMMA MatchesIff ==
  ASSUME TypeOK, Calm, NEW k \in Kinds
  PROVE  Matches(k) <=> IF Exists(Want(k))
                        THEN /\ children[k].owner = Want(k).owner
                             /\ children[k].body = Want(k).body
                             /\ children[k].labels = Want(k).labels
                        ELSE children[k].owner < 1
<1>1. Matches(k) <=> IF Exists(Want(k))
                     THEN children[k] = [ Want(k) EXCEPT !.extra = children[k].extra ]
                     ELSE children[k].owner < 1
  BY DEF Matches, Want, Calm
<1>2. children[k] \in Object /\ Want(k) \in Object
  BY WantType DEF TypeOK
<1>3. \A c, w \in Object : c = [ w EXCEPT !.extra = c.extra ]
        <=> c.owner = w.owner /\ c.body = w.body /\ c.labels = w.labels
  BY DEF Object
<1> QED BY <1>1, <1>2, <1>3

\* In calm and with the current credentials, the pass wants what the
\* AuthPolicy asks for: the HMAC key makes no difference to what is compared.
LEMMA DesiredIsWant ==
  ASSUME UpToDate, PassKnows, pass.pc \in { "get", "write" }, eoauth = << >>, NEW k \in Kinds
  PROVE  /\ Exists(Desired(k)) <=> Exists(Want(k))
         /\ Desired(k).body = Want(k).body
         /\ Exists(Want(k)) => Want(k).owner = policy.uid /\ Want(k).labels = TRUE
<1>1. coauth = oauth
  BY DEF UpToDate, Newest
<1>2. Desired(k) = GetDesired(k, policy.spec, policy.uid,
                              IF policy.spec.autoLogin THEN oauth ELSE 0, pass.hmac)
  BY <1>1 DEF Desired, PassKnows
<1>3. PICK cred : cred = IF policy.spec.autoLogin THEN oauth ELSE 0
  OBVIOUS
<1>4. /\ Desired(k) = GetDesired(k, policy.spec, policy.uid, cred, pass.hmac)
      /\ Want(k) = GetDesired(k, policy.spec, policy.uid, cred, 0)
  BY <1>2, <1>3 DEF Want
<1>5. Desired(k).owner = Want(k).owner /\ Desired(k).body = Want(k).body
  BY <1>4 DEF GetDesired, SecretGetDesired, EnvoyFilterGetDesired, RequestAuthenticationGetDesired,
              DenyGetDesired, IgnoreGetDesired, RequireGetDesired, Wanted, NoObject
<1> QED BY <1>5, WantOwner DEF Exists

\* A child that is read and found to be as wanted is so, or there is an event
\* on its way that will tell.
LEMMA ReadSettles ==
  ASSUME TypeOK, UpToDate, Calm, PassKnows, pass.pc = "get",
         DetermineReconcileAction(cchildren[Kind], Desired(Kind), pass.uid) = "none"
  PROVE  Settled(Kind)
<1>0. /\ Kind \in Kinds /\ cchildren[Kind] \in Object /\ children[Kind] \in Object
      /\ echildren[Kind] \in Seq(Object) /\ policy.uid \in Nat /\ policy.uid >= 1
      /\ pass.uid = policy.uid
  BY PassTypes DEF TypeOK, Policy, PassKnows
<1> SUFFICES ASSUME eoauth = << >> PROVE Settled(Kind)
  BY DEF Settled
<1>1. /\ Exists(Desired(Kind)) <=> Exists(Want(Kind))
      /\ Desired(Kind).body = Want(Kind).body
      /\ Exists(Want(Kind)) => Want(Kind).owner = policy.uid /\ Want(Kind).labels = TRUE
  BY <1>0, DesiredIsWant
<1>2. CASE Exists(Want(Kind))
  <2>1. /\ cchildren[Kind].owner = policy.uid /\ cchildren[Kind].body = Want(Kind).body
        /\ cchildren[Kind].labels
    BY <1>0, <1>1, <1>2 DEF DetermineReconcileAction, IsControlledBy, ShouldUpdate
  <2>2. CASE echildren[Kind] = << >>
    <3>1. children[Kind] = cchildren[Kind]
      BY <1>0, <2>2 DEF UpToDate, Newest
    <3>2. cchildren[Kind].labels = TRUE
      BY <1>0, <2>1 DEF Object
    <3> QED BY <1>0, <1>1, <1>2, <2>1, <3>1, <3>2, MatchesIff DEF Settled
  <2>3. CASE echildren[Kind] # << >>
    BY <1>0, <2>1, <2>3 DEF Settled, ChildWake
  <2> QED BY <2>2, <2>3
<1>3. CASE ~Exists(Want(Kind))
  <2>1. ~Exists(cchildren[Kind]) \/ cchildren[Kind].owner # policy.uid
    BY <1>0, <1>1, <1>3 DEF DetermineReconcileAction, IsControlledBy
  <2>2. CASE children[Kind].owner < 1
    BY <1>0, <1>3, <2>2, MatchesIff DEF Settled
  <2>3. CASE children[Kind].owner >= 1
    <3>1. CASE echildren[Kind] = << >>
      <4>1. children[Kind] = cchildren[Kind]
        BY <1>0, <3>1 DEF UpToDate, Newest
      <4>2. children[Kind].owner # policy.uid
        BY <2>1, <2>3, <4>1 DEF Exists, Absent
      <4> QED BY <2>3, <4>2 DEF Settled, IsGarbage
    <3>2. CASE echildren[Kind] # << >>
      <4>1. /\ Len(echildren[Kind]) \in 1..Len(echildren[Kind])
            /\ children[Kind] = echildren[Kind][Len(echildren[Kind])]
        BY <1>0, <3>2 DEF UpToDate, Newest
      <4> QED BY <2>3, <3>2, <4>1 DEF Settled, ChildWake
    <3> QED BY <3>1, <3>2
  <2> QED BY <1>0, <2>2, <2>3, ObjectOwner
<1> QED BY <1>2, <1>3

\* Events for a child stay until they are delivered.
LEMMA WakeStays ==
  ASSUME TypeOK, NEW k \in Kinds, NEW new \in Object, SetChild(k, new), UNCHANGED cchildren,
         ChildWake(k)
  PROVE  ChildWake(k)'
<1>0. echildren[k] \in Seq(Object) /\ echildren \in [Kinds -> Seq(Object)]
  BY DEF TypeOK
<1>1. CASE echildren'[k] = echildren[k]
  BY <1>1 DEF ChildWake
<1>2. CASE echildren'[k] = Append(echildren[k], new)
  <2>1. /\ echildren'[k] # << >> /\ Len(echildren'[k]) = Len(echildren[k]) + 1
        /\ \A i \in 1..Len(echildren[k]) : echildren'[k][i] = echildren[k][i]
        /\ Len(echildren[k]) \in Nat
    BY <1>0, <1>2, SMTT(30)
  <2>2. \A i \in 1..Len(echildren[k]) : i \in 1..Len(echildren'[k])
    BY <2>1
  <2> QED BY <2>1, <2>2 DEF ChildWake
<1> QED BY <1>0, <1>1, <1>2 DEF SetChild

\* A change from or to an owned object makes an event that leaves a request.
LEMMA ChangeWakes ==
  ASSUME TypeOK, UpToDate, NEW k \in Kinds, NEW new \in Object, SetChild(k, new),
         UNCHANGED cchildren, new # children[k], children[k].owner >= 1 \/ new.owner >= 1
  PROVE  ChildWake(k)'
<1>0. echildren[k] \in Seq(Object) /\ echildren \in [Kinds -> Seq(Object)]
  BY DEF TypeOK
<1>1. echildren'[k] = Append(echildren[k], new)
  BY <1>0 DEF SetChild
<1>2. /\ echildren'[k] # << >> /\ Len(echildren'[k]) = Len(echildren[k]) + 1
      /\ \A i \in 1..Len(echildren[k]) : echildren'[k][i] = echildren[k][i]
      /\ echildren'[k][Len(echildren[k]) + 1] = new /\ Len(echildren[k]) \in Nat
  BY <1>0, <1>1
<1>3. CASE new.owner >= 1
  <2>1. Len(echildren[k]) + 1 \in 1..Len(echildren'[k])
    BY <1>2
  <2> QED BY <1>2, <1>3, <2>1 DEF ChildWake
<1>4. CASE children[k].owner >= 1
  <2>1. CASE echildren[k] = << >>
    BY <1>2, <1>4, <2>1 DEF UpToDate, Newest, ChildWake
  <2>2. CASE echildren[k] # << >>
    <3>1. /\ Len(echildren[k]) \in 1..Len(echildren[k]) /\ Len(echildren[k]) \in 1..Len(echildren'[k])
          /\ children[k] = echildren[k][Len(echildren[k])]
      BY <1>0, <1>2, <2>2 DEF UpToDate, Newest
    <3> QED BY <1>2, <1>4, <3>1 DEF ChildWake
  <2> QED BY <2>1, <2>2
<1> QED BY <1>3, <1>4

\* A write that the server takes is a change, and one that will be noticed.
LEMMA WriteWakes ==
  ASSUME TypeOK, UpToDate, PassKnows, WriteDecided, pass.pc = "write", ServerAccepts,
         SetChild(Kind, Written), UNCHANGED cchildren, NEW k, k = Kind
  PROVE  ChildWake(k)'
<1>0. /\ Kind \in Kinds /\ cchildren[Kind] \in Object /\ children[Kind] \in Object
      /\ pass.cur \in Object /\ Desired(Kind) \in Object /\ Written \in Object
      /\ echildren[Kind] \in Seq(Object) /\ policy.uid \in Nat /\ policy.uid >= 1
      /\ pass.uid = policy.uid
  BY PassTypes, WrittenType DEF TypeOK, Policy, Pass, PassKnows
<1>1. CASE Action = "create"
  <2>1. Written = Desired(Kind) /\ Exists(Desired(Kind)) /\ ~Exists(children[Kind])
    BY <1>1 DEF Written, ServerAccepts, Action, DetermineReconcileAction
  <2>2. Desired(Kind).owner = pass.uid
    BY <2>1 DEF Desired, GetDesired, SecretGetDesired, EnvoyFilterGetDesired,
                RequestAuthenticationGetDesired, DenyGetDesired, IgnoreGetDesired,
                RequireGetDesired, Wanted, Exists, NoObject
  <2>3. Written # children[Kind] /\ Written.owner >= 1
    BY <1>0, <2>1, <2>2 DEF Exists
  <2> QED BY <1>0, <2>3, ChangeWakes
<1>2. CASE Action # "create"
  <2>1. pass.cur.owner = pass.uid /\ Action \in { "update", "delete" }
    BY <1>2 DEF WriteDecided, Action, DetermineReconcileAction, IsControlledBy
  <2>2. pass.cur = cchildren[Kind] /\ cchildren[Kind].owner >= 1
    BY <1>0, <2>1 DEF PassKnows
  <2>3. CASE echildren[Kind] # << >>
    <3>1. ChildWake(Kind)
      BY <2>2, <2>3 DEF ChildWake
    <3> QED BY <1>0, <3>1, WakeStays
  <2>4. CASE echildren[Kind] = << >>
    <3>1. children[Kind] = pass.cur
      BY <1>0, <2>2, <2>4 DEF UpToDate, Newest
    <3>2. Written # children[Kind]
      <4>1. CASE Action = "update"
        <5>1. ShouldUpdate(pass.cur, Desired(Kind))
          BY <4>1 DEF Action, DetermineReconcileAction
        <5>2. Written = MergePatch(pass.cur, pass.cur, UpdateFields(Kind, pass.cur, Desired(Kind)))
          BY <3>1, <4>1 DEF Written
        <5>3. \A c, d \in Object : ShouldUpdate(c, d) =>
                MergePatch(c, c, UpdateFields(Kind, c, d)) # c
          <6> SUFFICES ASSUME NEW c \in Object, NEW d \in Object, ShouldUpdate(c, d)
                       PROVE  MergePatch(c, c, UpdateFields(Kind, c, d)) # c
            OBVIOUS
          <6> DEFINE u == UpdateFields(Kind, c, d)
                     m == MergePatch(c, c, u)
          <6>1. u.body = d.body /\ u.labels = TRUE
            BY DEF UpdateFields, Object
          <6>2. /\ m.body = IF c.body # u.body THEN u.body ELSE c.body
                /\ m.labels = IF c.labels # u.labels THEN u.labels ELSE c.labels
            BY DEF MergePatch, Object
          <6>3. c.labels \in BOOLEAN
            BY DEF Object
          <6> HIDE DEF m, u
          <6>4. m # c
            BY <6>1, <6>2, <6>3 DEF ShouldUpdate
          <6> QED BY <6>4 DEF m, u
        <5> QED BY <1>0, <3>1, <5>1, <5>2, <5>3
      <4>2. CASE Action = "delete"
        BY <1>0, <2>1, <3>1, <4>2 DEF Written, NoObject, Absent
      <4> QED BY <2>1, <4>1, <4>2
    <3> QED BY <1>0, <2>2, <3>1, <3>2, ChangeWakes
  <2> QED BY <2>3, <2>4
<1> QED BY <1>1, <1>2

\* Calm does not undo what a pass has seen to: a change that matters is an
\* event under way.
LEMMA SameWorld ==
  ASSUME Core(policy') = Core(policy), UNCHANGED << oauth, eoauth >>, NEW k \in Kinds,
         children'[k] = children[k], cchildren'[k] = cchildren[k], echildren'[k] = echildren[k],
         Settled(k)
  PROVE  Settled(k)'
<1>1. /\ policy'.present = policy.present /\ policy'.uid = policy.uid
      /\ policy'.spec = policy.spec /\ policy'.deleting = policy.deleting
  BY DEF Core
<1>2. Matches(k)' <=> Matches(k)
  BY <1>1 DEF Matches
<1>3. ChildWake(k)' <=> ChildWake(k)
  BY DEF ChildWake
<1>4. IsGarbage(k)' <=> IsGarbage(k)
  BY <1>1 DEF IsGarbage
<1> QED BY <1>2, <1>3, <1>4 DEF Settled

LEMMA SetChildSettled ==
  ASSUME TypeOK, TypeOK', UpToDate, Calm, Calm', Core(policy') = Core(policy),
         UNCHANGED << oauth, eoauth, cchildren >>,
         NEW j \in Kinds, NEW new \in Object, SetChild(j, new), NEW k \in Kinds, Settled(k)
  PROVE  Settled(k)'
<1>0. /\ children \in [Kinds -> Object] /\ echildren \in [Kinds -> Seq(Object)]
      /\ children[k] \in Object /\ policy \in Policy
  BY DEF TypeOK
<1>1. policy.uid \in Nat /\ policy.uid >= 1
  BY <1>0 DEF Policy
<1>2. CASE j # k \/ new = children[j]
  <2>1. children'[k] = children[k] /\ echildren'[k] = echildren[k]
    BY <1>0, <1>2 DEF SetChild
  <2> QED BY <2>1, SameWorld
<1>3. CASE j = k /\ new # children[k]
  <2>1. CASE ChildWake(k)
    BY <1>3, <2>1, WakeStays DEF Settled
  <2>2. CASE eoauth # << >>
    BY <2>2 DEF Settled
  <2>3. CASE children[k].owner >= 1 \/ new.owner >= 1
    BY <1>3, <2>3, ChangeWakes DEF Settled
  <2>4. CASE children[k].owner < 1 /\ new.owner < 1 /\ ~ChildWake(k) /\ eoauth = << >>
    <3>1. ~IsGarbage(k)
      BY <1>0, <2>4, ObjectOwner DEF IsGarbage
    <3>2. Matches(k)
      BY <2>4, <3>1 DEF Settled
    <3>3. ~Exists(Want(k))
      <4>1. Exists(Want(k)) => Want(k).owner = policy.uid
        BY WantOwner
      <4> QED BY <1>1, <2>4, <3>2, <4>1, MatchesIff
    <3>4. Want(k)' = Want(k)
      BY DEF Want, Core
    <3>5. children'[k] = new
      BY <1>0, <1>3 DEF SetChild
    <3>6. Matches(k)' <=> IF Exists(Want(k)')
                          THEN children'[k] = [ Want(k)' EXCEPT !.extra = children'[k].extra ]
                          ELSE children'[k].owner < 1
      BY DEF Matches, Want, Calm
    <3> QED BY <2>4, <3>3, <3>4, <3>5, <3>6 DEF Settled
  <2> QED BY <1>0, <2>1, <2>2, <2>3, <2>4, ObjectOwner
<1> QED BY <1>2, <1>3

LEMMA SettledStays ==
  ASSUME TypeOK, TypeOK', UpToDate, Next, Calm, Calm', Core(policy') = Core(policy),
         NEW k \in Kinds, Settled(k)
  PROVE  Settled(k)'
<1> USE DEF policyVars, childVars, oauthVars, server, caches
<1>1. CASE UNCHANGED << children, echildren, cchildren, oauth, eoauth >>
  BY <1>1, SameWorld
<1>2. CASE \E new \in Creds : SetOauth(new)
  <2>1. PICK new \in Creds : SetOauth(new)
    BY <1>2
  <2>2. eoauth' = Append(eoauth, new) /\ eoauth \in Seq(Creds)
    BY <2>1 DEF SetOauth, TypeOK
  <2>3. eoauth' # << >>
    BY <2>2
  <2> QED BY <2>3 DEF Settled
<1>3. CASE UNCHANGED << oauth, eoauth, cchildren >> /\ \E j \in Kinds : \E new \in Object : SetChild(j, new)
  BY <1>3, SetChildSettled
<1>4. ASSUME NEW j \in Kinds, SyncChild(j), j # "Secret",
             cchildren[j].owner < 1, Head(echildren[j]).owner < 1
      PROVE  Settled(k)'
  <2>0. /\ cchildren \in [Kinds -> Object] /\ echildren \in [Kinds -> Seq(Object)]
        /\ echildren[k] \in Seq(Object) /\ cchildren[k] \in Object
        /\ UNCHANGED << children, oauth, eoauth, policy >>
    BY <1>4 DEF TypeOK, SyncChild
  <2>1. CASE j # k
    <3>1. cchildren'[k] = cchildren[k] /\ echildren'[k] = echildren[k]
      BY <1>4, <2>0, <2>1 DEF SyncChild
    <3> QED BY <2>0, <3>1, SameWorld
  <2>2. CASE j = k
    <3>1. /\ echildren[k] # << >> /\ echildren'[k] = Tail(echildren[k])
          /\ cchildren[k].owner < 1 /\ Head(echildren[k]).owner < 1 /\ k # "Secret"
      BY <1>4, <2>0, <2>2 DEF SyncChild
    <3>2. CASE ChildWake(k)
      <4>1. PICK i \in 1..Len(echildren[k]) : echildren[k][i].owner >= 1
        BY <2>0, <3>1, <3>2, ObjectOwner DEF ChildWake
      <4>2. i # 1
        <5>1. Head(echildren[k]) = echildren[k][1] /\ Head(echildren[k]) \in Object
          BY <2>0, <3>1
        <5> QED BY <3>1, <4>1, <5>1, ObjectOwner
      <4>3. /\ i - 1 \in 1..Len(echildren'[k]) /\ echildren'[k][i - 1] = echildren[k][i]
            /\ Len(echildren'[k]) >= 1
        BY <2>0, <3>1, <4>1, <4>2
      <4>4. echildren'[k] # << >>
        BY <4>3
      <4> QED BY <4>1, <4>3, <4>4 DEF Settled, ChildWake
    <3>3. CASE ~ChildWake(k)
      BY <2>0, <3>3 DEF Settled, Matches, IsGarbage
    <3> QED BY <3>2, <3>3
  <2> QED BY <2>1, <2>2
<1>5. ~Crash /\ ~SyncOauth
  BY QuietSync DEF Crash, Calm
<1>6. UNCHANGED << oauth, eoauth >> \/ \E new \in Creds : SetOauth(new)
  BY <1>5, OauthStep
<1> QED BY <1>1, <1>2, <1>3, <1>4, <1>5, <1>6, QuietSync, ChildStep

----------------------------------------------------------------------------
(* A pass sees to one child after the other.                               *)

LEMMA ProgressStep ==
  ASSUME TypeOK, TypeOK', UpToDate, PolicyEvents, PassShape, PassCurrent, Progress, Next
  PROVE  Progress'
<1> USE DEF policyVars, childVars, oauthVars, server, caches
<1>0. pass \in Pass /\ Kind \in Kinds
  BY PassTypes DEF TypeOK
<1> SUFFICES ASSUME Calm', NEW k \in SeenTo' PROVE Settled(k)'
  BY DEF Progress
<1>1. CASE ReconcileStart
  <2>1. pass'.pc \in { "labels", "resolve" }
    BY <1>1 DEF ReconcileStart, IdlePass
  <2> QED BY <2>1 DEF SeenTo, Handled
<1>2. CASE Calm /\ Core(policy') = Core(policy)
  <2>0. Handled \subseteq Kinds /\ Handled' \subseteq Kinds
    <3>1. \A i \in 1..6 : \A j \in 1..(i - 1) : j \in 1..6
      OBVIOUS
    <3>2. pass.idx \in 1..6 /\ pass'.idx \in 1..6
      BY DEF TypeOK, Pass
    <3> QED BY <3>1, <3>2, KindType DEF Handled
  <2>1. k \in Kinds
    BY <2>0 DEF SeenTo
  <2>2. CASE k \in SeenTo
    BY <1>2, <2>1, <2>2, SettledStays DEF Progress
  <2>3. CASE UNCHANGED pass
    <3>1. SeenTo' = SeenTo
      BY <2>3 DEF SeenTo, Handled
    <3> QED BY <2>2, <3>1
  <2>4. CASE PatchLabels \/ ResolveFails
    <3>1. pass'.pc \in { "resolve", "failStatus" }
      BY <1>0, <2>4 DEF PatchLabels, ResolveFails, Pass
    <3> QED BY <3>1 DEF SeenTo, Handled
  <2>5. CASE ResolveAuthPolicy
    <3>1. pass'.pc = "get" /\ pass'.idx = pass.idx /\ pass.pc = "resolve"
      BY <1>0, <2>5 DEF ResolveAuthPolicy, Pass
    <3>2. pass'.idx = 1
      BY <3>1 DEF PassShape
    <3> QED BY <3>1, <3>2 DEF SeenTo, Handled
  <2>6. ASSUME NEW o, pass' = Advance(o, {Kind}) PROVE FALSE
    <3>1. pass'.failed # {} /\ pass'.pc # "idle"
      BY <2>6, AdvanceFields
    <3> QED BY <3>1 DEF SeenTo
  <2>7. ASSUME NEW o, pass' = Advance(o, {}), pass.pc \in { "get", "write" }
        PROVE  k \in SeenTo \/ k = Kind
    <3>1. /\ pass'.failed = pass.failed /\ pass'.pc \notin { "idle", "failStatus" }
          /\ Handled' = Handled \cup { Kind }
      BY <2>7, AdvanceFields, AdvanceHandled
    <3> QED BY <2>7, <3>1 DEF SeenTo
  <2>8. CASE ReconcileControllerResource
    <3> DEFINE action == DetermineReconcileAction(cchildren[Kind], Desired(Kind), pass.uid)
    <3>1. pass.pc = "get"
      BY <2>8 DEF ReconcileControllerResource
    <3>2. CASE action = "none"
      <4>1. Settled(Kind)
        BY <1>2, <3>1, <3>2, ReadSettles DEF PassCurrent
      <4>2. CASE k = Kind
        BY <1>2, <2>1, <4>1, <4>2, SettledStays
      <4>3. PICK o : pass' = Advance(o, {})
        BY <2>8, <3>2 DEF ReconcileControllerResource
      <4> QED BY <2>2, <2>7, <3>1, <4>2, <4>3
    <3>3. CASE action = "notOwned"
      BY <2>6, <2>8, <3>3 DEF ReconcileControllerResource
    <3>4. CASE action \notin { "none", "notOwned" }
      <4>1. pass' = [ pass EXCEPT !.pc = "write", !.cur = cchildren[Kind] ]
        BY <2>8, <3>4 DEF ReconcileControllerResource
      <4>2. pass'.pc = "write" /\ pass'.idx = pass.idx /\ pass'.failed = pass.failed
        BY <1>0, <4>1 DEF Pass
      <4>3. SeenTo' = SeenTo
        BY <3>1, <4>2 DEF SeenTo, Handled
      <4> QED BY <2>2, <4>3
    <3> QED BY <3>2, <3>3, <3>4
  <2>9. CASE GetFails \/ WriteFails
    BY <2>6, <2>9 DEF GetFails, WriteFails
  <2>10. CASE WriteChild
    <3>1. /\ pass.pc = "write" /\ ServerAccepts /\ SetChild(Kind, Written) /\ UNCHANGED cchildren
          /\ \E o : pass' = Advance(o, {})
      BY <2>10 DEF WriteChild
    <3>2. k = Kind => ChildWake(k)'
      BY <1>2, <3>1, WriteWakes DEF PassCurrent, PassShape
    <3> QED BY <2>2, <2>7, <3>1, <3>2 DEF Settled
  <2>11. CASE StatusUnchanged \/ UpdateStatus \/ UpdateStatusFails
    <3>1. EndReconcile /\ InStatus /\ ~queued'
      BY <2>11 DEF StatusUnchanged, UpdateStatus, UpdateStatusFails, InStatus, Calm
    <3>2. pass.pc = "status" /\ pass.failed = {}
      BY <3>1 DEF EndReconcile, EndPass, InStatus
    <3>3. SeenTo = Kinds
      BY <3>2 DEF SeenTo, Handled
    <3> QED BY <2>1, <2>2, <3>3
  <2>12. CASE UpdateStatusConflict
    <3>1. pass'.pc = pass.pc /\ pass'.failed = pass.failed /\ pass'.idx = pass.idx
      BY <1>0, <2>12 DEF UpdateStatusConflict, Pass
    <3>2. SeenTo' = SeenTo
      BY <3>1 DEF SeenTo, Handled
    <3> QED BY <2>2, <3>2
  <2>13. CASE \/ StripLabels \/ ChangeOauth \/ SyncPolicy
              \/ \E j \in Kinds : TamperChild(j) \/ CreateForeign(j) \/ DeleteForeign(j)
                                  \/ CollectChild(j) \/ SyncChild(j)
    BY <2>3, <2>13 DEF StripLabels, ChangeOauth, SyncPolicy, TamperChild, CreateForeign,
                       DeleteForeign, CollectChild, SyncChild
  <2> QED BY <1>2, <2>4, <2>5, <2>8, <2>9, <2>10, <2>11, <2>12, <2>13, QuietStep
<1> QED BY <1>1, <1>2, CalmStep

\* The status of a pass without failures.
LEMMA CleanStatus ==
  ASSUME TypeOK, PassShape, PassKnows, pass.pc = "status", pass.failed = {}, policy.present
  PROVE  LET phase == IF policy.spec.validPaths THEN "Ready" ELSE "Invalid"
         IN  ComputedStatus = [ phase |-> phase, obs |-> policy.gen, cond |-> phase ]
<1>1. pass.ok = WantedKinds
  BY DEF PassShape, Handled, WantedKinds
<1>2. pass.ok \cup pass.failed = WantedKinds
  BY <1>1
<1>3. ReconciliationState = IF policy.spec.validPaths THEN "Ready" ELSE "Invalid"
  BY <1>2 DEF ReconciliationState, DetermineReconciliationState, PassKnows
<1> QED BY <1>3 DEF ComputedStatus, PassKnows

LEMMA ReportStep ==
  ASSUME TypeOK, UpToDate, PolicyEvents, PassShape, PassCurrent, Report, Next
  PROVE  Report'
<1> USE DEF policyVars, childVars, oauthVars, server, caches
<1>0. pass \in Pass /\ policy \in Policy
  BY DEF TypeOK
<1> SUFFICES ASSUME Calm', pass'.pc = "idle", used'["statusFail"] = 0 PROVE Reported'
  BY DEF Report
<1>1. ~ReconcileStart
  BY DEF ReconcileStart, IdlePass
<1>2. Calm /\ Core(policy') = Core(policy) /\ Core(cpolicy') = Core(cpolicy)
  BY <1>1, CalmStep
<1>3. /\ policy'.present = policy.present /\ policy'.gen = policy.gen /\ policy'.spec = policy.spec
      /\ policy.present
  BY <1>2 DEF Core, Calm
<1>4. used["statusFail"] \in Nat /\ used["statusFail"] = 0
  <2>1. used["statusFail"] \in Nat /\ used["statusFail"] <= used'["statusFail"]
    BY CountsNeverFall DEF Disturbances
  <2> QED BY <2>1
<1>5. CASE \/ StripLabels \/ ChangeOauth \/ SyncPolicy
           \/ \E k \in Kinds : TamperChild(k) \/ CreateForeign(k) \/ DeleteForeign(k)
                               \/ CollectChild(k) \/ SyncChild(k)
  <2>1. UNCHANGED pass /\ policy'.status = policy.status
    BY <1>0, <1>5 DEF StripLabels, ChangeOauth, SyncPolicy, TamperChild, CreateForeign,
                      DeleteForeign, CollectChild, SyncChild, SetPolicy, Policy
  <2>2. Reported
    BY <1>2, <1>4, <2>1 DEF Report
  <2> QED BY <1>3, <2>1, <2>2 DEF Reported
<1>6. ~PatchLabels /\ ~ResolveAuthPolicy /\ ~ResolveFails /\ ~UpdateStatusConflict
  <2>1. ~PatchLabels /\ ~ResolveFails
    <3>1. PatchLabels => pass'.pc = "resolve"
      BY <1>0 DEF PatchLabels, Pass
    <3>2. ResolveFails => pass'.pc = "failStatus"
      BY <1>0 DEF ResolveFails, Pass
    <3> QED BY <3>1, <3>2
  <2>2. ~ResolveAuthPolicy
    BY <1>0 DEF ResolveAuthPolicy, Pass
  <2>3. ~UpdateStatusConflict
    BY <1>0 DEF UpdateStatusConflict, InStatus, Pass
  <2> QED BY <2>1, <2>2, <2>3
<1>7. ~ReconcileControllerResource /\ ~GetFails /\ ~WriteChild /\ ~WriteFails
  <2>1. \A o, f : pass' # Advance(o, f)
    BY AdvanceFields
  <2>2. pass' # [ pass EXCEPT !.pc = "write", !.cur = cchildren[Kind] ]
    BY <1>0 DEF Pass
  <2> QED BY <2>1, <2>2 DEF ReconcileControllerResource, GetFails, WriteChild, WriteFails
<1>8. CASE StatusUnchanged \/ UpdateStatus
  <2> DEFINE phase == IF policy.spec.validPaths THEN "Ready" ELSE "Invalid"
             clean == [ phase |-> phase, obs |-> policy.gen, cond |-> phase ]
  <2>1. EndReconcile /\ InStatus /\ ~queued'
    BY <1>8 DEF StatusUnchanged, UpdateStatus, InStatus, Calm
  <2>2. pass.pc = "status" /\ pass.failed = {}
    BY <2>1 DEF EndReconcile, EndPass, InStatus
  <2>3. PassKnows
    BY <1>2, <2>2 DEF PassCurrent
  <2>4. ComputedStatus = clean
    BY <1>3, <2>2, <2>3, CleanStatus
  <2>5. policy'.status = clean
    <3>1. CASE UpdateStatus
      BY <1>0, <2>4, <3>1 DEF UpdateStatus, SetPolicy, Policy
    <3>2. CASE StatusUnchanged
      <4>1. pass.orig = clean /\ policy' = policy
        BY <2>4, <3>2 DEF StatusUnchanged
      <4>2. pass.orig.phase # "Pending"
        BY <4>1
      <4> QED BY <2>3, <4>1, <4>2 DEF PassKnows
    <3> QED BY <1>8, <3>1, <3>2
  <2> QED BY <1>3, <2>5 DEF Reported
<1>9. ~UpdateStatusFails
  <2>1. cpolicy.present
    BY <1>2, <1>3, CoreKnown DEF Core, Calm
  <2>2. ~Spend("statusFail")
    BY <1>4 DEF Spend, TypeOK, Disturbances
  <2> QED BY <1>3, <2>1, <2>2 DEF UpdateStatusFails
<1> QED BY <1>2, <1>5, <1>6, <1>7, <1>8, <1>9, QuietStep

----------------------------------------------------------------------------
(* The invariant and the two theorems.                                     *)

LEMMA ConvInvInit == Init => ConvInv
<1> SUFFICES ASSUME Init PROVE ConvInv
  OBVIOUS
<1>0. TypeOK
  BY InitType
<1>1. epolicy = << policy >> /\ policy.present /\ ~cpolicy.present /\ Len(epolicy) = 1
  BY <1>0 DEF Init, NewPolicy, TypeOK, Policy
<1>2. UpToDate
  BY <1>1 DEF UpToDate, Newest, Init
<1>3. PolicyEvents
  <2> SUFFICES ASSUME NEW i \in 1..Len(epolicy) PROVE Queues(Before(i), epolicy[i])
    BY DEF PolicyEvents
  <2>1. i = 1
    BY <1>1
  <2> QED BY <1>1, <2>1 DEF Queues, Before
<1>4. PassShape
  BY DEF PassShape, WriteDecided, Init, IdlePass
<1>5. ~Calm
  <2>1. 1 \in 1..Len(epolicy) /\ epolicy[1].present # cpolicy.present
    BY <1>0, <1>1 DEF TypeOK, Policy
  <2>2. Core(epolicy[1]) # Core(cpolicy)
    BY <2>1 DEF Core
  <2> QED BY <2>1, <2>2 DEF Calm, PolicyWake
<1>6. CalmInv
  BY <1>5 DEF CalmInv, PassCurrent, Progress, Report
<1> QED BY <1>0, <1>2, <1>3, <1>4, <1>6 DEF ConvInv

LEMMA ConvInvStep ==
  ASSUME ConvInv, [Next]_vars
  PROVE  ConvInv'
<1>1. CASE UNCHANGED vars
  <2> USE <1>1 DEF vars
  <2>1. TypeOK' /\ UpToDate' /\ PolicyEvents'
    BY DEF ConvInv, TypeOK, UpToDate, PolicyEvents, Before
  <2>2. PassShape'
    BY DEF ConvInv, PassShape, Handled, WantedKinds, Desired, WriteDecided, Action, Kind
  <2>3. Calm' = Calm
    BY DEF Calm, PolicyWake
  <2>4. PassCurrent'
    BY <2>3 DEF ConvInv, CalmInv, PassCurrent, PassKnows, Kind
  <2>5. Progress'
    <3>1. SeenTo' = SeenTo
      BY DEF SeenTo, Handled
    <3>2. \A k \in Kinds : Settled(k)' = Settled(k)
      BY DEF Settled, Matches, ChildWake, IsGarbage
    <3>3. SeenTo \subseteq Kinds
      <4>1. \A i \in 1..6 : \A j \in 1..(i - 1) : j \in 1..6
        OBVIOUS
      <4>2. pass.idx \in 1..6
        BY DEF ConvInv, TypeOK, Pass
      <4> QED BY <4>1, <4>2, KindType DEF SeenTo, Handled
    <3> QED BY <2>3, <3>1, <3>2, <3>3 DEF ConvInv, CalmInv, Progress
  <2>6. Report'
    BY <2>3 DEF ConvInv, CalmInv, Report, Reported
  <2> QED BY <2>1, <2>2, <2>4, <2>5, <2>6 DEF ConvInv, CalmInv
<1>2. CASE Next
  <2> USE <1>2
  <2>1. /\ TypeOK /\ UpToDate /\ PolicyEvents /\ PassShape
        /\ PassCurrent /\ Progress /\ Report
    BY DEF ConvInv, CalmInv
  <2>2. TypeOK'
    BY <2>1, EnvironmentType, SyncType, ReconcileType DEF Next
  <2>3. UpToDate' /\ PolicyEvents' /\ PassShape'
    BY <2>1, UpToDateStep, PolicyEventsStep, PassShapeStep
  <2>4. PassCurrent' /\ Progress' /\ Report'
    BY <2>1, <2>2, PassCurrentStep, ProgressStep, ReportStep
  <2> QED BY <2>2, <2>3, <2>4 DEF ConvInv, CalmInv
<1> QED BY <1>1, <1>2

\* At rest with an AuthPolicy is calm.
LEMMA RestIsCalm ==
  ASSUME AtRest, used["listFail"] = 0, policy.present
  PROVE  Calm
<1>1. Len(epolicy) = 0
  BY DEF AtRest
<1>2. ~PolicyWake
  BY <1>1 DEF PolicyWake
<1> QED BY <1>2 DEF AtRest, Calm

\* Whatever was edited, rotated, tampered with, deleted or left half done,
\* however many versions the informers were behind and however often the
\* operator restarted: at rest, unless a handler dropped an event, the
\* children are exactly what the AuthPolicy asks for.
THEOREM RestIsConverged == Spec => []QuiescentMeansConverged
<1>1. ConvInv => QuiescentMeansConverged
  <2> SUFFICES ASSUME ConvInv, AtRest, used["listFail"] = 0, NEW k \in Kinds PROVE Matches(k)
    BY DEF QuiescentMeansConverged, Converged
  <2>1. ~IsGarbage(k) /\ echildren[k] = << >> /\ eoauth = << >> /\ pass.pc = "idle"
    BY DEF AtRest
  <2>2. CASE policy.present
    <3>1. Settled(k)
      BY <2>1, <2>2, RestIsCalm DEF ConvInv, CalmInv, Progress, SeenTo
    <3> QED BY <2>1, <3>1 DEF Settled, ChildWake
  <2>3. CASE ~policy.present
    <3>1. children[k] \in Object
      BY DEF ConvInv, TypeOK
    <3>2. children[k].owner < 1
      BY <2>1, <2>3, <3>1, ObjectOwner DEF IsGarbage
    <3> QED BY <2>3, <3>2 DEF Matches
  <2> QED BY <2>2, <2>3
<1>2. ConvInv /\ [Next]_vars => ConvInv'
  BY ConvInvStep
<1> QED BY <1>1, <1>2, ConvInvInit, PTL DEF Spec

\* And, unless a status update was lost, it says so: this generation, with
\* the phase the spec earns, in the phase and in the condition.
THEOREM RestIsReported == Spec => []QuiescentMeansReported
<1>1. ConvInv => QuiescentMeansReported
  <2> SUFFICES ASSUME ConvInv, AtRest, used["listFail"] = 0, used["statusFail"] = 0, policy.present
               PROVE  Reported
    BY DEF QuiescentMeansReported, Reported
  <2> QED BY RestIsCalm DEF ConvInv, CalmInv, Report, AtRest
<1>2. ConvInv /\ [Next]_vars => ConvInv'
  BY ConvInvStep
<1> QED BY <1>1, <1>2, ConvInvInit, PTL DEF Spec
=============================================================================
