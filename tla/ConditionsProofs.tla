-------------------------- MODULE ConditionsProofs --------------------------
(***************************************************************************)
(* Proofs about Conditions, for any kinds, specs and bounds, and caches    *)
(* that lag as they like: what the conditions say explains the phase, and  *)
(* once two passes in a row read current copies and met no disturbance, no *)
(* further pass that does so changes the status.                           *)
(***************************************************************************)
EXTENDS Conditions, TLAPS

----------------------------------------------------------------------------
(* The invariant.                                                          *)

IsStatus(status) ==
  status = [ phase |-> status.phase, obs |-> status.obs, message |-> status.message,
             conditions |-> status.conditions ]

\* The shapes of the variables.  A pass leaves a trace of every wanted child
\* it is done with, and of others only on failure.
Shape ==
  /\ DOMAIN policy = { "gen", "spec", "labelled", "status" } /\ IsStatus(policy.status)
  /\ DOMAIN children = Kinds
  /\ DOMAIN pass = { "step", "gen", "spec", "read", "orig", "todo", "outcome", "current" }
  /\ pass.step \in { "idle", "children", "unresolved" }
  /\ pass.current \in BOOLEAN
  /\ pass.todo \subseteq Kinds
  /\ DOMAIN pass.outcome \subseteq Kinds \ pass.todo
  /\ \A k \in DOMAIN pass.outcome : k \in Wanted(pass.spec) \/ pass.outcome[k] \in Errors
  /\ pass.step = "children" => Wanted(pass.spec) \ pass.todo \subseteq DOMAIN pass.outcome
  /\ undisturbed \in { 0, 1, 2 }

\* A pass that is current works on the current spec, compares with the current
\* conditions, and has made every child it is done with as wanted.
CurrentPass ==
  /\ pass.step # "idle" /\ ~pass.current => undisturbed = 0
  /\ pass.current =>
       /\ pass.step = "children" /\ pass.spec = policy.spec /\ pass.gen = policy.gen
       /\ pass.orig.conditions = policy.status.conditions
       /\ pass.orig.phase = "Pending" \/ pass.orig = policy.status
       /\ \A k \in Kinds \ pass.todo : children[k] = policy.spec.children[k]
       /\ \A k \in DOMAIN pass.outcome : pass.outcome[k] \notin Errors

\* After one undisturbed pass the children are as wanted, so that the next
\* finds nothing to do ...
Settled ==
  undisturbed # 0 =>
    /\ \A k \in Kinds : children[k] = policy.spec.children[k]
    /\ pass.current => \A k \in DOMAIN pass.outcome : pass.outcome[k] = "reconciled"

SettledPhase(spec) == IF spec.valid THEN "Ready" ELSE "Invalid"

\* ... and what it says is this.
SettledStatus(status, gen, spec) ==
  LET told == status.conditions
  IN  /\ IsStatus(status)
      /\ status.phase = SettledPhase(spec) /\ status.message = SettledPhase(spec)
      /\ status.obs = gen
      /\ told = [ t \in { Own } \cup Wanted(spec) |-> told[t] ]
      /\ told[Own].says = SettledPhase(spec)
      /\ told[Own].value = IF spec.valid THEN "True" ELSE "False"
      /\ \A k \in Wanted(spec) : told[k].value = "True" /\ told[k].says = "reconciled"

SettledTold == undisturbed = 2 => SettledStatus(policy.status, policy.gen, policy.spec)

CondInv == Shape /\ ConditionsExplainPhase /\ CurrentPass /\ Settled /\ SettledTold

----------------------------------------------------------------------------
(* What the builder makes.                                                 *)

\* Whether or not the time is kept, a condition says what it is built from,
LEMMA TimedSays ==
  ASSUME NEW type, NEW value, NEW says
  PROVE  Timed(type, value, says).value = value /\ Timed(type, value, says).says = says
BY DEF Timed, isLogicallyEqualCondition

\* and it is the one that was there if that says the same.
LEMMA TimedKeeps ==
  ASSUME NEW type, NEW value, NEW says, type \in DOMAIN pass.orig.conditions,
         pass.orig.conditions[type].value = value, pass.orig.conditions[type].says = says
  PROVE  Timed(type, value, says) = pass.orig.conditions[type]
BY DEF Timed, isLogicallyEqualCondition

LEMMA BuiltConditions ==
  ASSUME Shape
  PROVE  /\ DOMAIN BuildConditions = { Own } \cup DOMAIN pass.outcome \cup Wanted(pass.spec)
         /\ BuildConditions[Own] = BuildAuthPolicyCondition
         /\ \A k \in DOMAIN pass.outcome : BuildConditions[k] = BuildDescendantCondition(k)
         /\ BuildConditions =
              [ t \in { Own } \cup DOMAIN pass.outcome \cup Wanted(pass.spec) |-> BuildConditions[t] ]
BY OwnAssumption DEF Shape, BuildConditions

LEMMA BuiltSay ==
  ASSUME Shape
  PROVE  /\ BuildConditions[Own].says = State
         /\ State = "Ready" => BuildConditions[Own].value = "True"
         /\ State = "Invalid" => BuildConditions[Own].value = "False"
         /\ \A k \in DOMAIN pass.outcome :
              /\ BuildConditions[k].value = IF k \in Failed THEN "False" ELSE "True"
              /\ BuildConditions[k].says = pass.outcome[k]
BY BuiltConditions, TimedSays DEF BuildAuthPolicyCondition, BuildDescendantCondition

\* A pass that is done has no missing child; it is Pending only when it met
\* a child that is not wanted, which it leaves a trace of only on failure.
LEMMA StateExplained ==
  ASSUME Shape, pass.step = "children", pass.todo = {}
  PROVE  /\ Wanted(pass.spec) \subseteq DOMAIN pass.outcome
         /\ Failed = {} => /\ State = SettledPhase(pass.spec)
                           /\ DOMAIN pass.outcome = Wanted(pass.spec)
         /\ State \in { "Invalid", "Pending", "Failed", "Ready" }
         /\ State \in { "Pending", "Failed" } => Failed # {}
         /\ State = "Ready" => Failed = {}
<1>1. Wanted(pass.spec) \subseteq DOMAIN pass.outcome
  BY DEF Shape
<1>2. ASSUME Failed = {} PROVE DOMAIN pass.outcome = Wanted(pass.spec)
  BY <1>1, <1>2 DEF Shape, Failed
<1>3. Failed = {} => Cardinality(DOMAIN pass.outcome) = Cardinality(Wanted(pass.spec))
  BY <1>2
<1> QED BY <1>1, <1>2, <1>3 DEF State, SettledPhase

\* What a pass writes explains its phase.
LEMMA ComputedExplained ==
  ASSUME Shape, StatusDue
  PROVE  Explained(ComputedStatus)
<1>1. CASE pass.step = "unresolved"
  BY <1>1 DEF ComputedStatus, Explained
<1>2. CASE pass.step = "children" /\ pass.todo = {}
  <2>1. ComputedStatus = [ phase |-> State, obs |-> pass.gen, message |-> State,
                           conditions |-> BuildConditions ]
    BY <1>2 DEF ComputedStatus
  <2>2. /\ ComputedStatus.phase = State /\ ComputedStatus.message = State
        /\ ComputedStatus.conditions = BuildConditions
    BY <2>1
  <2>3. ASSUME State \in { "Failed", "Pending" }
        PROVE  \E k \in DOMAIN BuildConditions \ { Own } : BuildConditions[k].value = "False"
    <3>1. PICK k \in DOMAIN pass.outcome : k \in Failed
      BY <1>2, <2>3, StateExplained DEF Failed
    <3>2. k # Own /\ k \in DOMAIN BuildConditions
      BY BuiltConditions, OwnAssumption DEF Shape
    <3>3. BuildConditions[k].value = "False"
      BY <3>1, BuiltSay
    <3> QED BY <3>2, <3>3
  <2>4. State = "Ready" => \A t \in DOMAIN BuildConditions : BuildConditions[t].value = "True"
    BY <1>2, BuiltConditions, BuiltSay, StateExplained
  <2>5. Own \in DOMAIN BuildConditions /\ BuildConditions[Own].says = State
    BY BuiltConditions, BuiltSay
  <2>6. State # "unresolved"
    BY <1>2, StateExplained
  <2> QED BY <2>2, <2>3, <2>4, <2>5, <2>6 DEF Explained
<1> QED BY <1>1, <1>2 DEF StatusDue

----------------------------------------------------------------------------
(* Every step preserves the invariant.                                     *)

LEMMA CondInvInit == CInit => CondInv
<1> SUFFICES ASSUME CInit PROVE CondInv
  OBVIOUS
<1>1. PICK s \in Specs : policy = [ gen |-> 1, spec |-> s, labelled |-> FALSE, status |-> NewStatus ]
  BY DEF CInit
<1>2. DOMAIN << >> = {}
  OBVIOUS
<1>3. /\ DOMAIN policy = { "gen", "spec", "labelled", "status" } /\ policy.status = NewStatus
      /\ IsStatus(NewStatus) /\ NewStatus.phase = "None" /\ NewStatus.message = "None"
  BY <1>1 DEF NewStatus, IsStatus
<1>4. /\ DOMAIN pass = { "step", "gen", "spec", "read", "orig", "todo", "outcome", "current" }
      /\ pass.step = "idle" /\ pass.todo = {} /\ DOMAIN pass.outcome = {} /\ pass.current = FALSE
      /\ undisturbed = 0 /\ DOMAIN children = Kinds
  BY <1>2 DEF CInit, Idle
<1>5. Shape
  BY <1>3, <1>4 DEF Shape
<1>6. ConditionsExplainPhase
  BY <1>3 DEF ConditionsExplainPhase, Explained
<1> QED BY <1>4, <1>5, <1>6 DEF CondInv, CurrentPass, Settled, SettledTold

\* Spec, labels and children change at any time.
LEMMA CondInvWorld ==
  ASSUME CondInv, EditSpec \/ StripLabels \/ \E k \in Kinds : ChangeChild(k)
  PROVE  CondInv'
<1> USE DEF CondInv
<1>1. undisturbed' = 0 /\ pass' = [ pass EXCEPT !.current = FALSE ]
  BY DEF EditSpec, StripLabels, ChangeChild, Disturb
<1>2. /\ DOMAIN pass' = DOMAIN pass /\ pass'.step = pass.step /\ pass'.spec = pass.spec
      /\ pass'.todo = pass.todo /\ pass'.outcome = pass.outcome /\ pass'.current = FALSE
  BY <1>1 DEF Shape
<1>3. DOMAIN policy' = DOMAIN policy /\ policy'.status = policy.status
  <2>1. CASE EditSpec
    BY <2>1 DEF EditSpec, Shape
  <2>2. CASE StripLabels
    BY <2>2 DEF StripLabels, Shape
  <2>3. CASE \E k \in Kinds : ChangeChild(k)
    BY <2>3 DEF ChangeChild
  <2> QED BY <2>1, <2>2, <2>3
<1>4. DOMAIN children' = Kinds
  <2>1. CASE EditSpec \/ StripLabels
    BY <2>1 DEF EditSpec, StripLabels, Shape
  <2>2. CASE \E k \in Kinds : ChangeChild(k)
    BY <2>2 DEF ChangeChild, Shape
  <2> QED BY <2>1, <2>2
<1>5. Shape'
  BY <1>1, <1>2, <1>3, <1>4 DEF Shape, Wanted
<1>6. ConditionsExplainPhase'
  BY <1>3 DEF ConditionsExplainPhase, Explained
<1> QED BY <1>1, <1>2, <1>5, <1>6 DEF CurrentPass, Settled, SettledTold

\* The caches, the clock, events and stuttering.
LEMMA CondInvAside ==
  ASSUME CondInv, \/ SyncPolicy \/ Event \/ Tick \/ UNCHANGED vars
                  \/ \E k \in Kinds : SyncChild(k)
  PROVE  CondInv'
<1> USE DEF CondInv
<1>1. UNCHANGED << policy, children, pass, undisturbed >>
  BY DEF SyncPolicy, SyncChild, Event, Tick, vars
<1>2. Shape'
  BY <1>1 DEF Shape, Wanted
<1>3. ConditionsExplainPhase'
  BY <1>1 DEF ConditionsExplainPhase, Explained
<1>4. CurrentPass' /\ Settled'
  BY <1>1 DEF CurrentPass, Settled
<1>5. SettledTold'
  BY <1>1 DEF SettledTold
<1> QED BY <1>2, <1>3, <1>4, <1>5

LEMMA CondInvReconcile ==
  ASSUME CondInv, Reconcile
  PROVE  CondInv'
<1> USE DEF CondInv
<1> DEFINE orig == IF cached.labelled
                   THEN [ cached.status EXCEPT !.phase = "Pending", !.obs = cached.gen ]
                   ELSE policy.status
<1>1. /\ UNCHANGED << children, cached >>
      /\ policy' = [ policy EXCEPT !.labelled = @ \/ ~cached.labelled ]
      /\ pass' = [ step |-> "children", gen |-> cached.gen, spec |-> cached.spec,
                   read |-> cached.status.conditions, orig |-> orig,
                   todo |-> Kinds, outcome |-> << >>, current |-> cached = policy ]
      /\ undisturbed' = IF cached = policy THEN undisturbed ELSE 0
  BY DEF Reconcile
<1>2. DOMAIN << >> = {}
  OBVIOUS
<1>3. DOMAIN policy' = DOMAIN policy /\ policy'.status = policy.status
      /\ policy'.spec = policy.spec /\ policy'.gen = policy.gen
  BY <1>1 DEF Shape
<1>4. cached = policy => /\ orig.conditions = policy.status.conditions
                         /\ orig.phase = "Pending" \/ orig = policy.status
  BY DEF Shape, IsStatus
<1> HIDE DEF orig
<1>5. /\ DOMAIN pass' = { "step", "gen", "spec", "read", "orig", "todo", "outcome", "current" }
      /\ pass'.step = "children" /\ pass'.gen = cached.gen /\ pass'.spec = cached.spec
      /\ pass'.orig = orig /\ pass'.todo = Kinds /\ DOMAIN pass'.outcome = {}
      /\ pass'.current = (cached = policy)
  BY <1>1, <1>2
<1>6. undisturbed' \in { 0, undisturbed } /\ (~pass'.current => undisturbed' = 0)
  BY <1>1, <1>5
<1>7. Shape'
  BY <1>1, <1>3, <1>5, <1>6 DEF Shape, IsStatus, Wanted
<1>8. ConditionsExplainPhase'
  BY <1>3 DEF ConditionsExplainPhase, Explained
<1>9. CurrentPass'
  BY <1>3, <1>4, <1>5, <1>6 DEF CurrentPass
<1>10. Settled'
  BY <1>1, <1>3, <1>5, <1>6 DEF Settled
<1>11. SettledTold'
  BY <1>3, <1>6 DEF SettledTold
<1> QED BY <1>7, <1>8, <1>9, <1>10, <1>11

\* A failing call while a pass runs.
LEMMA CondInvFails ==
  ASSUME CondInv, ResolveFails \/ \E k \in Kinds : ReconcileChildFails(k)
  PROVE  CondInv'
<1> USE DEF CondInv
<1>1. undisturbed' = 0 /\ UNCHANGED policy
  BY DEF ResolveFails, ReconcileChildFails, Fail
<1>2. DOMAIN children' = Kinds
  BY DEF ResolveFails, ReconcileChildFails, Write, Shape
<1>3. /\ DOMAIN pass' = DOMAIN pass /\ pass'.spec = pass.spec /\ pass'.current = FALSE
      /\ pass'.step \in { "children", "unresolved" }
      /\ pass'.todo \subseteq Kinds /\ DOMAIN pass'.outcome \subseteq Kinds \ pass'.todo
      /\ \A k \in DOMAIN pass'.outcome : k \in Wanted(pass.spec) \/ pass'.outcome[k] \in Errors
      /\ pass'.step = "children" => Wanted(pass.spec) \ pass'.todo \subseteq DOMAIN pass'.outcome
  <2>1. CASE ResolveFails
    <3>1. pass' = [ [ pass EXCEPT !.step = "unresolved" ] EXCEPT !.current = FALSE ]
      BY <2>1 DEF ResolveFails, Fail
    <3>2. /\ DOMAIN pass' = DOMAIN pass /\ pass'.spec = pass.spec /\ pass'.current = FALSE
          /\ pass'.step = "unresolved" /\ pass'.todo = pass.todo /\ pass'.outcome = pass.outcome
      BY <3>1 DEF Shape
    <3> QED BY <3>2 DEF Shape
  <2>2. CASE \E k \in Kinds : ReconcileChildFails(k)
    <3>1. PICK k \in Kinds, e \in Errors :
            /\ pass.step = "children" /\ k \in pass.todo
            /\ pass' = [ [ pass EXCEPT !.todo = pass.todo \ { k }, !.outcome = With(pass.outcome, k, e) ]
                          EXCEPT !.current = FALSE ]
      BY <2>2 DEF ReconcileChildFails, Fail
    <3> DEFINE new == With(pass.outcome, k, e)
    <3>2. /\ DOMAIN new = DOMAIN pass.outcome \cup { k } /\ new[k] = e
          /\ \A j \in DOMAIN pass.outcome : j # k => new[j] = pass.outcome[j]
      BY DEF With
    <3> HIDE DEF new
    <3>3. /\ DOMAIN pass' = DOMAIN pass /\ pass'.spec = pass.spec /\ pass'.current = FALSE
          /\ pass'.step = "children" /\ pass'.todo = pass.todo \ { k } /\ pass'.outcome = new
      BY <3>1 DEF Shape, new
    <3>4. DOMAIN new \subseteq Kinds \ pass'.todo
      BY <3>2, <3>3 DEF Shape
    <3>5. \A j \in DOMAIN new : j \in Wanted(pass.spec) \/ new[j] \in Errors
      BY <3>2 DEF Shape
    <3>6. Wanted(pass.spec) \ pass'.todo \subseteq DOMAIN new
      BY <3>1, <3>2, <3>3 DEF Shape
    <3> QED BY <3>3, <3>4, <3>5, <3>6 DEF Shape
  <2> QED BY <2>1, <2>2
<1>4. Shape'
  BY <1>1, <1>2, <1>3 DEF Shape, Wanted
<1>5. ConditionsExplainPhase'
  BY <1>1 DEF ConditionsExplainPhase, Explained
<1> QED BY <1>1, <1>3, <1>4, <1>5 DEF CurrentPass, Settled, SettledTold

\* A pass leaves a child that it read as it is on the server as wanted, and
\* only says "reconciled" of one that was so before.
LEMMA ChildAsWanted ==
  ASSUME Shape, NEW k \in Kinds, ReconcileChild(k)
  PROVE  /\ DOMAIN children' = Kinds
         /\ \A j \in Kinds : j # k => children'[j] = children[j]
         /\ seen[k] = children[k] => children'[k] = pass.spec.children[k]
         /\ seen[k] = pass.spec.children[k] => Says(ActionFor(k)) = "reconciled"
         /\ Says(ActionFor(k)) \notin Errors
<1>1. ActionFor(k) = "none" => seen[k] = pass.spec.children[k]
  BY DEF ActionFor
<1>2. seen[k] = pass.spec.children[k] => ActionFor(k) = "none"
  BY DEF ActionFor
<1>3. Says(ActionFor(k)) \notin Errors /\ (ActionFor(k) = "none" => Says(ActionFor(k)) = "reconciled")
  BY DEF Says, Errors
<1>4. CASE ActionFor(k) = "none"
  <2>1. children' = children
    BY <1>4 DEF ReconcileChild
  <2> QED BY <1>1, <1>3, <1>4, <2>1 DEF Shape
<1>5. CASE ActionFor(k) # "none"
  <2>1. PICK c \in Written(k) : children' = [ children EXCEPT ![k] = c ]
    BY <1>5 DEF ReconcileChild, Write
  <2>2. seen[k] = children[k] => c = pass.spec.children[k]
    BY <2>1 DEF Written
  <2> QED BY <1>2, <1>3, <1>5, <2>1, <2>2 DEF Shape
<1> QED BY <1>4, <1>5

LEMMA CondInvChild ==
  ASSUME CondInv, NEW k \in Kinds, ReconcileChild(k)
  PROVE  CondInv'
<1> USE DEF CondInv
<1> DEFINE what == Says(ActionFor(k))
           new == With(pass.outcome, k, what)
           kept == pass.current /\ seen[k] = children[k]
<1>1. /\ pass.step = "children" /\ k \in pass.todo /\ UNCHANGED policy
      /\ undisturbed' = IF seen[k] = children[k] THEN undisturbed ELSE 0
  BY DEF ReconcileChild
<1>2. /\ DOMAIN new = DOMAIN pass.outcome \cup { k } /\ new[k] = what
      /\ \A j \in DOMAIN pass.outcome : j # k => new[j] = pass.outcome[j]
  BY DEF With
<1>3. /\ DOMAIN pass' = DOMAIN pass /\ pass'.step = "children" /\ pass'.gen = pass.gen
      /\ pass'.spec = pass.spec /\ pass'.orig = pass.orig /\ pass'.todo = pass.todo \ { k }
      /\ pass'.current = kept
      /\ pass'.outcome = IF k \in Wanted(pass.spec) THEN new ELSE pass.outcome
  <2>1. pass' = [ pass EXCEPT !.todo = pass.todo \ { k }, !.current = kept,
                              !.outcome = IF k \in Wanted(pass.spec) THEN new ELSE pass.outcome ]
    BY DEF ReconcileChild
  <2> HIDE DEF new, kept
  <2> QED BY <1>1, <2>1 DEF Shape
<1>4. /\ DOMAIN children' = Kinds
      /\ \A j \in Kinds : j # k => children'[j] = children[j]
      /\ seen[k] = children[k] => children'[k] = pass.spec.children[k]
      /\ seen[k] = pass.spec.children[k] => what = "reconciled"
      /\ what \notin Errors
  BY ChildAsWanted
<1> HIDE DEF new, what
<1>5. k \notin DOMAIN pass.outcome
  BY <1>1 DEF Shape
<1>6. Shape'
  <2>1. DOMAIN pass'.outcome \subseteq Kinds \ pass'.todo
    BY <1>2, <1>3 DEF Shape
  <2>2. \A j \in DOMAIN pass'.outcome : j \in Wanted(pass.spec) \/ pass'.outcome[j] \in Errors
    BY <1>2, <1>3 DEF Shape
  <2>3. Wanted(pass.spec) \ pass'.todo \subseteq DOMAIN pass'.outcome
    BY <1>1, <1>2, <1>3 DEF Shape
  <2>4. pass'.current \in BOOLEAN /\ undisturbed' \in { 0, 1, 2 } /\ pass'.todo \subseteq Kinds
    BY <1>1, <1>3 DEF Shape
  <2> QED BY <1>1, <1>3, <1>4, <2>1, <2>2, <2>3, <2>4 DEF Shape, Wanted
<1>7. ConditionsExplainPhase'
  BY <1>1 DEF ConditionsExplainPhase, Explained
<1>8. CurrentPass'
  <2>1. ~pass'.current => undisturbed' = 0
    BY <1>1, <1>3 DEF CurrentPass
  <2>2. ASSUME pass'.current
        PROVE  /\ pass.spec = policy.spec /\ pass.gen = policy.gen
               /\ pass.orig.conditions = policy.status.conditions
               /\ pass.orig.phase = "Pending" \/ pass.orig = policy.status
               /\ \A j \in Kinds \ pass'.todo : children'[j] = policy.spec.children[j]
               /\ \A j \in DOMAIN pass'.outcome : pass'.outcome[j] \notin Errors
    <3>1. pass.current /\ seen[k] = children[k]
      BY <1>3, <2>2
    <3>2. /\ pass.spec = policy.spec /\ pass.gen = policy.gen
          /\ pass.orig.conditions = policy.status.conditions
          /\ pass.orig.phase = "Pending" \/ pass.orig = policy.status
          /\ \A j \in Kinds \ pass.todo : children[j] = policy.spec.children[j]
          /\ \A j \in DOMAIN pass.outcome : pass.outcome[j] \notin Errors
      BY <3>1 DEF CurrentPass
    <3>3. \A j \in Kinds \ pass'.todo : children'[j] = policy.spec.children[j]
      BY <1>3, <1>4, <3>1, <3>2
    <3>4. \A j \in DOMAIN pass'.outcome : pass'.outcome[j] \notin Errors
      BY <1>2, <1>3, <1>4, <1>5, <3>2
    <3> QED BY <3>2, <3>3, <3>4
  <2> QED BY <1>1, <1>3, <2>1, <2>2 DEF CurrentPass
<1>9. Settled'
  <2> SUFFICES ASSUME undisturbed' # 0
               PROVE  /\ \A j \in Kinds : children'[j] = policy.spec.children[j]
                      /\ \A j \in DOMAIN pass'.outcome : pass'.outcome[j] = "reconciled"
    BY <1>1, <1>3 DEF Settled
  <2>1. undisturbed # 0 /\ seen[k] = children[k]
    BY <1>1
  <2>2. pass.current /\ pass.spec = policy.spec
    BY <1>1, <2>1 DEF CurrentPass, Shape
  <2>3. /\ \A j \in Kinds : children[j] = policy.spec.children[j]
        /\ \A j \in DOMAIN pass.outcome : pass.outcome[j] = "reconciled"
    BY <2>1, <2>2 DEF Settled
  <2>4. \A j \in Kinds : children'[j] = policy.spec.children[j]
    BY <1>4, <2>1, <2>2, <2>3
  <2>5. what = "reconciled"
    BY <1>4, <2>1, <2>2, <2>3
  <2> QED BY <1>2, <1>3, <1>5, <2>3, <2>4, <2>5
<1>10. SettledTold'
  BY <1>1 DEF SettledTold
<1> QED BY <1>6, <1>7, <1>8, <1>9, <1>10

\* A pass that is current and done has met nothing but wanted children.
LEMMA CurrentDone ==
  ASSUME Shape, CurrentPass, pass.current, StatusDue
  PROVE  /\ pass.step = "children" /\ pass.todo = {}
         /\ pass.spec = policy.spec /\ pass.gen = policy.gen
         /\ State = SettledPhase(policy.spec) /\ Failed = {}
         /\ DOMAIN pass.outcome = Wanted(policy.spec)
         /\ \A k \in Kinds : children[k] = policy.spec.children[k]
         /\ ComputedStatus = [ phase |-> SettledPhase(policy.spec), obs |-> policy.gen,
                               message |-> SettledPhase(policy.spec), conditions |-> BuildConditions ]
<1>1. /\ pass.step = "children" /\ pass.spec = policy.spec /\ pass.gen = policy.gen
      /\ \A k \in Kinds \ pass.todo : children[k] = policy.spec.children[k]
      /\ \A k \in DOMAIN pass.outcome : pass.outcome[k] \notin Errors
  BY DEF CurrentPass
<1>2. pass.todo = {} /\ Failed = {}
  BY <1>1 DEF StatusDue, Failed
<1>3. State = SettledPhase(policy.spec) /\ DOMAIN pass.outcome = Wanted(policy.spec)
  BY <1>1, <1>2, StateExplained
<1> QED BY <1>1, <1>2, <1>3 DEF ComputedStatus

\* Whether it writes its status or finds it there already, that is what the
\* AuthPolicy has then: the copy that a pass compares with is Pending, or what
\* the server answered.
LEMMA CurrentReported ==
  ASSUME Shape, CurrentPass, pass.current, StatusUnchanged \/ UpdateStatus
  PROVE  policy'.status = ComputedStatus
<1>1. CASE UpdateStatus
  BY <1>1 DEF UpdateStatus, Shape
<1>2. CASE StatusUnchanged
  <2>1. StatusDue /\ pass.orig = ComputedStatus /\ policy' = policy
    BY <1>2 DEF StatusUnchanged, Unchanged
  <2>2. ComputedStatus.phase = SettledPhase(policy.spec)
    BY <2>1, CurrentDone
  <2>3. pass.orig.phase # "Pending"
    BY <2>1, <2>2 DEF SettledPhase
  <2> QED BY <2>1, <2>3 DEF CurrentPass
<1> QED BY <1>1, <1>2

\* A second undisturbed pass has found every child as wanted.
LEMMA SettledBuilt ==
  ASSUME Shape, CurrentPass, Settled, pass.current, undisturbed # 0, StatusDue
  PROVE  SettledStatus(ComputedStatus, policy.gen, policy.spec)
<1>1. /\ State = SettledPhase(policy.spec) /\ Failed = {} /\ pass.spec = policy.spec
      /\ DOMAIN pass.outcome = Wanted(policy.spec)
      /\ ComputedStatus = [ phase |-> SettledPhase(policy.spec), obs |-> policy.gen,
                            message |-> SettledPhase(policy.spec), conditions |-> BuildConditions ]
  BY CurrentDone
<1>2. \A k \in Wanted(policy.spec) : pass.outcome[k] = "reconciled"
  BY <1>1 DEF Settled
<1>3. BuildConditions = [ t \in { Own } \cup Wanted(policy.spec) |-> BuildConditions[t] ]
  <2>1. { Own } \cup DOMAIN pass.outcome \cup Wanted(pass.spec) = { Own } \cup Wanted(policy.spec)
    BY <1>1
  <2> QED BY <2>1, BuiltConditions
<1>4. /\ BuildConditions[Own].says = SettledPhase(policy.spec)
      /\ BuildConditions[Own].value = IF policy.spec.valid THEN "True" ELSE "False"
  BY <1>1, BuiltSay DEF SettledPhase
<1>5. \A k \in Wanted(policy.spec) :
        BuildConditions[k].value = "True" /\ BuildConditions[k].says = "reconciled"
  BY <1>1, <1>2, BuiltSay
<1>6. /\ ComputedStatus.phase = SettledPhase(policy.spec) /\ ComputedStatus.obs = policy.gen
      /\ ComputedStatus.message = SettledPhase(policy.spec)
      /\ ComputedStatus.conditions = BuildConditions /\ IsStatus(ComputedStatus)
  BY <1>1 DEF IsStatus
<1> QED BY <1>3, <1>4, <1>5, <1>6 DEF SettledStatus

LEMMA CondInvStatus ==
  ASSUME CondInv, StatusUnchanged \/ UpdateStatus \/ UpdateStatusFails
  PROVE  CondInv'
<1> USE DEF CondInv
<1>1. pass' = Idle /\ UNCHANGED children /\ StatusDue
  BY DEF StatusUnchanged, UpdateStatus, UpdateStatusFails, Done
<1>2. DOMAIN << >> = {}
  OBVIOUS
<1>3. /\ DOMAIN pass' = { "step", "gen", "spec", "read", "orig", "todo", "outcome", "current" }
      /\ pass'.step = "idle" /\ pass'.todo = {} /\ DOMAIN pass'.outcome = {} /\ pass'.current = FALSE
  BY <1>1, <1>2 DEF Idle
<1>4. /\ DOMAIN policy' = DOMAIN policy /\ policy'.gen = policy.gen /\ policy'.spec = policy.spec
      /\ policy'.status \in { policy.status, ComputedStatus }
  <2>1. CASE UpdateStatus
    BY <2>1 DEF UpdateStatus, Shape
  <2>2. CASE StatusUnchanged \/ UpdateStatusFails
    BY <2>2 DEF StatusUnchanged, UpdateStatusFails
  <2> QED BY <2>1, <2>2
<1>5. IsStatus(ComputedStatus)
  <2>1. PICK p, o, m, c : ComputedStatus = [ phase |-> p, obs |-> o, message |-> m, conditions |-> c ]
    BY DEF ComputedStatus
  <2> QED BY <2>1 DEF IsStatus
<1>6. /\ undisturbed' \in { 0, 1, 2 }
      /\ undisturbed' # 0 => pass.current /\ (StatusUnchanged \/ UpdateStatus)
      /\ undisturbed' = 2 => undisturbed # 0
  <2>1. CASE UpdateStatusFails
    BY <2>1 DEF UpdateStatusFails
  <2>2. CASE StatusUnchanged \/ UpdateStatus
    <3>1. undisturbed' = IF pass.current /\ undisturbed < 2 THEN undisturbed + 1 ELSE undisturbed
      BY <2>2 DEF StatusUnchanged, UpdateStatus, Done
    <3>2. undisturbed # 0 => pass.current
      BY <1>1 DEF CurrentPass, StatusDue, Shape
    <3> QED BY <2>2, <3>1, <3>2 DEF Shape
  <2> QED BY <2>1, <2>2
<1>7. Shape'
  BY <1>1, <1>3, <1>4, <1>5, <1>6 DEF Shape, IsStatus, Wanted
<1>8. ConditionsExplainPhase'
  BY <1>1, <1>4, ComputedExplained DEF ConditionsExplainPhase, Explained
<1>9. CurrentPass'
  BY <1>3 DEF CurrentPass
<1>10. Settled'
  BY <1>1, <1>3, <1>4, <1>6, CurrentDone DEF Settled
<1>11. SettledTold'
  <2> SUFFICES ASSUME undisturbed' = 2
               PROVE  SettledStatus(policy'.status, policy.gen, policy.spec)
    BY <1>4 DEF SettledTold
  <2>1. pass.current /\ undisturbed # 0 /\ policy'.status = ComputedStatus
    BY <1>6, CurrentReported
  <2> QED BY <1>1, <2>1, SettledBuilt
<1> QED BY <1>7, <1>8, <1>9, <1>10, <1>11

LEMMA CondInvStep ==
  ASSUME CondInv, [CNext]_vars
  PROVE  CondInv'
BY CondInvWorld, CondInvAside, CondInvReconcile, CondInvFails, CondInvChild, CondInvStatus DEF CNext

----------------------------------------------------------------------------
(* The theorems.                                                           *)

\* For all kinds, specs and numbers of disturbances, with caches that lag as
\* they like: the conditions of a status explain its phase, unless its message
\* is that of a failed resolution, whose phase is Failed.
THEOREM PhaseExplained == CSpec => []ConditionsExplainPhase
<1>1. CondInv => ConditionsExplainPhase
  BY DEF CondInv
<1> QED BY <1>1, CondInvInit, CondInvStep, PTL DEF CSpec

\* What a current pass makes after two undisturbed ones is what there is.
LEMMA SettledRewritten ==
  ASSUME CondInv, StatusUnchanged \/ UpdateStatus, undisturbed = 2
  PROVE  policy'.status = policy.status
<1> USE DEF CondInv
<1>1. StatusDue /\ pass.current
  BY DEF StatusUnchanged, UpdateStatus, StatusDue, CurrentPass, Shape
<1>2. /\ State = SettledPhase(policy.spec) /\ Failed = {} /\ pass.spec = policy.spec
      /\ DOMAIN pass.outcome = Wanted(policy.spec)
      /\ ComputedStatus = [ phase |-> SettledPhase(policy.spec), obs |-> policy.gen,
                            message |-> SettledPhase(policy.spec), conditions |-> BuildConditions ]
  BY <1>1, CurrentDone
<1>3. policy'.status = ComputedStatus
  BY <1>1, CurrentReported
<1>4. \A k \in Wanted(policy.spec) : pass.outcome[k] = "reconciled"
  BY <1>1, <1>2 DEF Settled
<1> DEFINE told == policy.status.conditions
           phase == SettledPhase(policy.spec)
           value == IF policy.spec.valid THEN "True" ELSE "False"
<1>5. /\ IsStatus(policy.status)
      /\ policy.status.phase = phase /\ policy.status.message = phase
      /\ policy.status.obs = policy.gen
      /\ told = [ t \in { Own } \cup Wanted(policy.spec) |-> told[t] ]
      /\ told[Own].says = phase /\ told[Own].value = value
      /\ \A k \in Wanted(policy.spec) : told[k].value = "True" /\ told[k].says = "reconciled"
  BY DEF SettledTold, SettledStatus
<1>6. pass.orig.conditions = told
  BY <1>1 DEF CurrentPass
<1>7. policy.status = [ phase |-> phase, obs |-> policy.gen, message |-> phase, conditions |-> told ]
  BY <1>5 DEF IsStatus
<1> HIDE DEF told
<1>8. DOMAIN told = { Own } \cup Wanted(policy.spec)
  BY <1>5
<1>9. BuildAuthPolicyCondition = told[Own]
  <2>1. BuildAuthPolicyCondition = Timed(Own, value, phase)
    BY <1>2 DEF BuildAuthPolicyCondition, SettledPhase
  <2> HIDE DEF value, phase
  <2>2. /\ Own \in DOMAIN pass.orig.conditions
        /\ pass.orig.conditions[Own].value = value /\ pass.orig.conditions[Own].says = phase
    BY <1>5, <1>6, <1>8
  <2>3. Timed(Own, value, phase) = pass.orig.conditions[Own]
    BY <2>2, TimedKeeps
  <2> QED BY <1>6, <2>1, <2>3
<1>10. ASSUME NEW k \in Wanted(policy.spec) PROVE BuildDescendantCondition(k) = told[k]
  <2>1. BuildDescendantCondition(k) = Timed(k, "True", "reconciled")
    BY <1>2, <1>4 DEF BuildDescendantCondition
  <2>2. /\ k \in DOMAIN pass.orig.conditions
        /\ pass.orig.conditions[k].value = "True" /\ pass.orig.conditions[k].says = "reconciled"
    BY <1>5, <1>6, <1>8
  <2>3. Timed(k, "True", "reconciled") = pass.orig.conditions[k]
    BY <2>2, TimedKeeps
  <2> QED BY <1>6, <2>1, <2>3
<1>11. \A t \in { Own } \cup Wanted(policy.spec) : BuildConditions[t] = told[t]
  BY <1>2, <1>9, <1>10, BuiltConditions
<1>12. BuildConditions = [ t \in { Own } \cup Wanted(policy.spec) |-> BuildConditions[t] ]
  <2>1. { Own } \cup DOMAIN pass.outcome \cup Wanted(pass.spec) = { Own } \cup Wanted(policy.spec)
    BY <1>2
  <2> QED BY <2>1, BuiltConditions
<1>13. BuildConditions = told
  BY <1>5, <1>11, <1>12
<1> QED BY <1>2, <1>3, <1>7, <1>13

\* Once two passes in a row read nothing but current copies of the AuthPolicy
\* and its children and met no disturbance, the status has the conditions of
\* the spec's children alone, and no pass that reads current copies changes it
\* any more, however many events bring one about and whatever the clock says.
THEOREM SettledStays == CSpec => SettledStatusStays
<1> DEFINE Stays == undisturbed = 2 =>
                      /\ DOMAIN policy.status.conditions = { Own } \cup Wanted(policy.spec)
                      /\ policy'.status = policy.status
<1>1. ASSUME CondInv, [CNext]_vars PROVE [Stays]_vars
  <2> SUFFICES ASSUME undisturbed = 2, CNext
               PROVE  /\ DOMAIN policy.status.conditions = { Own } \cup Wanted(policy.spec)
                      /\ policy'.status = policy.status
    BY <1>1
  <2> USE <1>1
  <2>1. DOMAIN policy.status.conditions = { Own } \cup Wanted(policy.spec)
    BY DEF CondInv, SettledTold, SettledStatus
  <2>2. StatusUnchanged \/ UpdateStatus \/ policy'.status = policy.status
    <3>1. CASE EditSpec
      BY <3>1 DEF EditSpec, CondInv, Shape
    <3>2. CASE StripLabels
      BY <3>2 DEF StripLabels, CondInv, Shape
    <3>3. CASE Reconcile
      BY <3>3 DEF Reconcile, CondInv, Shape
    <3> QED BY <3>1, <3>2, <3>3
            DEF CNext, SyncPolicy, Event, Tick, ResolveFails, UpdateStatusFails,
                ChangeChild, SyncChild, ReconcileChild, ReconcileChildFails
  <2> QED BY <2>1, <2>2, SettledRewritten
<1> QED BY <1>1, CondInvInit, CondInvStep, PTL DEF CSpec, SettledStatusStays
=============================================================================
