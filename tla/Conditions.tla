----------------------------- MODULE Conditions -----------------------------
(***************************************************************************)
(* The status of an AuthPolicy in full (internal/statusmanager): phase,    *)
(* message and conditions, one for the AuthPolicy, one for every child a   *)
(* pass had to do with and one for every wanted child it did not get to,   *)
(* each with the time of its last change.  A pass reads the AuthPolicy and *)
(* its children from caches, which may be behind what it then writes to.   *)
(*                                                                         *)
(* A condition's reason and message follow from what happened to the       *)
(* child, so that is what is kept of them.  A child is its content, as a   *)
(* spec asks for it; Controller has the rest (owners, the two calls that a *)
(* child takes, deletion of the AuthPolicy, restarts).                     *)
(***************************************************************************)
EXTENDS Integers, FiniteSets

CONSTANTS
  Kinds,       \* kinds of children, in place of the six
  Specs,       \* [ valid, children ]: the content wanted of each kind, or Absent
  MaxSpent,    \* edits of the spec, of labels and of children, failing calls
  MaxClock     \* the clock stops there

Absent == "absent"
Tampered == "tampered"   \* what no spec asks for

ASSUME SpecsAssumption ==
  /\ Specs # {}
  /\ \A s \in Specs : s.valid \in BOOLEAN /\ DOMAIN s.children = Kinds
ASSUME BoundsAssumption == { MaxSpent, MaxClock } \subseteq Nat

Own == "AuthPolicy"   \* the type of its own condition
ASSUME OwnAssumption == Own \notin Kinds

\* A child that is not one of these was created, updated or reconciled.
Errors == { "not read", "not written" }

VARIABLES
  policy, cached,     \* the AuthPolicy on the server and in the cache
  children, seen,     \* its children on the server and in the caches
  queued, pass,
  clock,
  spent,
  undisturbed         \* history: full passes that read nothing but current
                      \* copies since the last disturbance, at most two

vars == << policy, cached, children, seen, queued, pass, clock, spent, undisturbed >>

Wanted(spec) == { k \in Kinds : spec.children[k] # Absent }

\* Ready is (phase = "Ready"); message: what the text is about.
NewStatus == [ phase |-> "None", obs |-> 0, message |-> "None", conditions |-> << >> ]

\* read: the conditions of the copy that was read; orig: originalAuthPolicy's
\* status; outcome: what happened to each child so far (the descendants);
\* current: nothing but current copies was read, and no disturbance met since.
Idle == [ step |-> "idle", gen |-> 0, spec |-> CHOOSE s \in Specs : TRUE, read |-> << >>,
          orig |-> NewStatus, todo |-> {}, outcome |-> << >>, current |-> FALSE ]

CInit ==
  /\ \E s \in Specs : policy = [ gen |-> 1, spec |-> s, labelled |-> FALSE, status |-> NewStatus ]
  /\ cached = policy
  /\ children = [ k \in Kinds |-> Absent ]
  /\ seen = children
  /\ queued = TRUE
  /\ pass = Idle
  /\ clock = 0
  /\ spent = 0
  /\ undisturbed = 0

Spend == spent < MaxSpent /\ spent' = spent + 1

Disturb == undisturbed' = 0 /\ pass' = [ pass EXCEPT !.current = FALSE ]

----------------------------------------------------------------------------
(* The world.                                                              *)

EditSpec ==
  /\ Spend
  /\ \E s \in Specs \ { policy.spec } : policy' = [ policy EXCEPT !.spec = s, !.gen = @ + 1 ]
  /\ Disturb
  /\ UNCHANGED << cached, children, seen, queued, clock >>

StripLabels ==
  /\ Spend
  /\ policy.labelled
  /\ policy' = [ policy EXCEPT !.labelled = FALSE ]
  /\ Disturb
  /\ UNCHANGED << cached, children, seen, queued, clock >>

\* A user changes or deletes a child.
ChangeChild(k) ==
  /\ Spend
  /\ children[k] # Absent
  /\ \E c \in { Absent, Tampered } \ { children[k] } : children' = [ children EXCEPT ![k] = c ]
  /\ Disturb
  /\ UNCHANGED << policy, cached, seen, queued, clock >>

\* A cache catches up.  GenerationChangedPredicate hides a change of labels
\* or status; Owns queues for every change of a child.
SyncPolicy ==
  /\ cached # policy
  /\ cached' = policy
  /\ queued' = (queued \/ cached.gen # policy.gen)
  /\ UNCHANGED << policy, children, seen, pass, clock, spent, undisturbed >>

SyncChild(k) ==
  /\ seen[k] # children[k]
  /\ seen' = [ seen EXCEPT ![k] = children[k] ]
  /\ queued' = TRUE
  /\ UNCHANGED << policy, cached, children, pass, clock, spent, undisturbed >>

\* An event of a pod, a config map or a secret.
Event ==
  /\ queued' = TRUE
  /\ UNCHANGED << policy, cached, children, seen, pass, clock, spent, undisturbed >>

Tick ==
  /\ clock < MaxClock
  /\ clock' = clock + 1
  /\ UNCHANGED << policy, cached, children, seen, queued, pass, spent, undisturbed >>

----------------------------------------------------------------------------
(* A pass.                                                                 *)

\* InitializeStatus, on the copy that the result is compared with; where the
\* copy has no labels, the answer to the patch that adds them takes its place.
\* (If that patch fails, nothing has happened and the request stays.)
Reconcile ==
  /\ queued /\ pass.step = "idle"
  /\ queued' = FALSE
  /\ policy' = [ policy EXCEPT !.labelled = @ \/ ~cached.labelled ]
  /\ pass' = [ step |-> "children", gen |-> cached.gen, spec |-> cached.spec,
               read |-> cached.status.conditions,
               orig |-> IF cached.labelled
                        THEN [ cached.status EXCEPT !.phase = "Pending", !.obs = cached.gen ]
                        ELSE policy.status,
               todo |-> Kinds, outcome |-> << >>, current |-> cached = policy ]
  /\ undisturbed' = IF cached = policy THEN undisturbed ELSE 0
  /\ UNCHANGED << cached, children, seen, clock, spent >>

\* A failing call: the error brings the request back.
Fail(new) ==
  /\ pass' = [ new EXCEPT !.current = FALSE ]
  /\ queued' = TRUE
  /\ undisturbed' = 0

ResolveFails ==
  /\ pass.step = "children" /\ pass.todo = Kinds
  /\ Spend
  /\ Fail([ pass EXCEPT !.step = "unresolved" ])
  /\ UNCHANGED << policy, cached, children, seen, clock >>

\* ReplaceDescendant.
With(outcome, k, what) ==
  [ j \in DOMAIN outcome \cup { k } |-> IF j = k THEN what ELSE outcome[j] ]

\* DetermineReconcileAction, from the cached copy.
ActionFor(k) ==
  LET want == pass.spec.children[k]
  IN  CASE seen[k] = want -> "none"
        [] seen[k] # want /\ want = Absent -> "delete"
        [] seen[k] = Absent /\ want # Absent -> "create"
        [] OTHER -> "update"

\* AlreadyExists, or NotFound.
Refused(k) ==
  CASE ActionFor(k) = "create" -> children[k] # Absent
    [] ActionFor(k) \in { "update", "delete" } -> children[k] = Absent
    [] OTHER -> FALSE

Says(action) ==
  CASE action = "create" -> "created" [] action = "update" -> "updated" [] OTHER -> "reconciled"

\* A merge patch made from an older copy may leave a mix.
Written(k) ==
  { pass.spec.children[k] } \cup
  IF ActionFor(k) = "update" /\ children[k] \notin { seen[k], pass.spec.children[k] }
  THEN { Tampered } ELSE {}

Write(k) == \E c \in Written(k) : children' = [ children EXCEPT ![k] = c ]

\* One child (in any order; the code's is fixed).  What is not wanted leaves
\* no trace if it is absent or deleted.
ReconcileChild(k) ==
  /\ pass.step = "children" /\ k \in pass.todo
  /\ ~Refused(k)
  /\ IF ActionFor(k) = "none" THEN UNCHANGED children ELSE Write(k)
  /\ pass' = [ pass EXCEPT !.todo = @ \ { k },
                           !.current = @ /\ seen[k] = children[k],
                           !.outcome = IF k \in Wanted(pass.spec)
                                       THEN With(@, k, Says(ActionFor(k))) ELSE @ ]
  /\ undisturbed' = IF seen[k] = children[k] THEN undisturbed ELSE 0
  /\ UNCHANGED << policy, cached, seen, queued, clock, spent >>

\* The write is refused; or the read or the write fails, or only its answer.
ReconcileChildFails(k) ==
  /\ pass.step = "children" /\ k \in pass.todo
  /\ \E e \in Errors :
       /\ Fail([ pass EXCEPT !.todo = @ \ { k }, !.outcome = With(@, k, e) ])
       /\ \/ Refused(k) /\ e = "not written" /\ UNCHANGED << children, spent >>
          \/ /\ Spend
             /\ \/ UNCHANGED children
                \/ e = "not written" /\ ~Refused(k) /\ Write(k)
             /\ e = "not written" => ActionFor(k) # "none"
  /\ UNCHANGED << policy, cached, seen, clock >>

----------------------------------------------------------------------------
(* The conditions.                                                         *)

\* Slip: every condition is new.
NeverEqual(existing, cond) == FALSE

isLogicallyEqualCondition(existing, cond) ==
  existing.value = cond.value /\ existing.says = cond.says

\* The time is kept if the same condition was there already.
Timed(type, value, says) ==
  LET cond == [ value |-> value, says |-> says, time |-> clock ]
      existing == pass.orig.conditions
  IN  IF type \in DOMAIN existing /\ isLogicallyEqualCondition(existing[type], cond)
      THEN existing[type] ELSE cond

Failed == { k \in DOMAIN pass.outcome : pass.outcome[k] \in Errors }

\* DetermineReconciliationState.
State ==
  IF ~pass.spec.valid THEN "Invalid"
  ELSE IF Cardinality(DOMAIN pass.outcome) # Cardinality(Wanted(pass.spec)) THEN "Pending"
  ELSE IF Failed # {} THEN "Failed" ELSE "Ready"

BuildAuthPolicyCondition ==
  Timed(Own, CASE State = "Ready" -> "True"
               [] State = "Pending" -> "Unknown"
               [] OTHER -> "False", State)

BuildDescendantCondition(k) ==
  Timed(k, IF k \in Failed THEN "False" ELSE "True", pass.outcome[k])

\* A wanted child is always read, so this does not come up.
BuildMissingResourceCondition(k) == Timed(k, "False", "NotFound")

\* Slip: the conditions of children that were there before are kept.
ConditionsKeptToo ==
  [ t \in { Own } \cup DOMAIN pass.outcome \cup Wanted(pass.spec) \cup DOMAIN pass.read |->
      IF t = Own THEN BuildAuthPolicyCondition
      ELSE IF t \in DOMAIN pass.outcome THEN BuildDescendantCondition(t)
      ELSE IF t \in DOMAIN pass.read THEN pass.read[t] ELSE BuildMissingResourceCondition(t) ]

BuildConditions ==
  [ t \in { Own } \cup DOMAIN pass.outcome \cup Wanted(pass.spec) |->
      IF t = Own THEN BuildAuthPolicyCondition
      ELSE IF t \in DOMAIN pass.outcome THEN BuildDescendantCondition(t)
      ELSE BuildMissingResourceCondition(t) ]

\* What UpdateAuthPolicyStatus makes after the children, and what Reconcile
\* makes when resolution failed: the conditions are those that were read.
ComputedStatus ==
  IF pass.step = "unresolved"
  THEN [ phase |-> "Failed", obs |-> pass.gen, message |-> "unresolved", conditions |-> pass.read ]
  ELSE [ phase |-> State, obs |-> pass.gen, message |-> State, conditions |-> BuildConditions ]

\* The pass ends with its status where it should be.
Done ==
  /\ pass' = Idle
  /\ undisturbed' = IF pass.current /\ undisturbed < 2 THEN undisturbed + 1 ELSE undisturbed

StatusDue == pass.step = "unresolved" \/ (pass.step = "children" /\ pass.todo = {})

\* DeepEqual to the status that was read: nothing is written.
Unchanged == pass.step = "children" /\ pass.orig = ComputedStatus

StatusUnchanged ==
  /\ StatusDue /\ Unchanged
  /\ Done
  /\ UNCHANGED << policy, cached, children, seen, queued, clock, spent >>

\* Written once the cache holds the current version (RetryOnConflict).
UpdateStatus ==
  /\ StatusDue /\ ~Unchanged
  /\ cached = policy
  /\ policy' = [ policy EXCEPT !.status = ComputedStatus ]
  /\ Done
  /\ UNCHANGED << cached, children, seen, queued, clock, spent >>

\* The call fails, or the cache does not catch up before the last attempt.
UpdateStatusFails ==
  /\ StatusDue /\ ~Unchanged
  /\ Spend
  /\ pass' = Idle /\ undisturbed' = 0
  /\ UNCHANGED << policy, cached, children, seen, queued, clock >>

CNext ==
  \/ EditSpec \/ StripLabels \/ SyncPolicy \/ Event \/ Tick
  \/ Reconcile \/ ResolveFails \/ StatusUnchanged \/ UpdateStatus \/ UpdateStatusFails
  \/ \E k \in Kinds : ChangeChild(k) \/ SyncChild(k) \/ ReconcileChild(k) \/ ReconcileChildFails(k)

CSpec == CInit /\ [][CNext]_vars

----------------------------------------------------------------------------
(* Properties.                                                             *)

\* What the conditions of a status must say for its phase.
Explained(status) ==
  LET told == status.conditions
  IN  IF status.message = "unresolved" THEN status.phase = "Failed"
      ELSE status.phase # "None" =>
             /\ Own \in DOMAIN told /\ told[Own].says = status.phase
             /\ status.phase = "Ready" => \A t \in DOMAIN told : told[t].value = "True"
             /\ status.phase \in { "Failed", "Pending" } =>
                  \E k \in DOMAIN told \ { Own } : told[k].value = "False"

\* The conditions explain the phase, whatever the caches held: the AuthPolicy's
\* own condition says the same, a Ready AuthPolicy (which the webhook lets pods
\* in by) has no condition that says otherwise, and one that is Failed or
\* Pending ("pending due to missing Descendants") has a child that failed.
\* The one exception is told by the message: after a failed resolution the
\* phase is Failed beside the conditions of an earlier pass.
ConditionsExplainPhase == Explained(policy.status)

\* LastTransitionTime is kept where nothing changed: once two passes in a row
\* read nothing but current copies and met no disturbance (the first may still
\* say "created"), the status is about the children of the spec alone, and no
\* further pass changes it, however often events bring one about; until one
\* reads the AuthPolicy before the last write has reached the cache, which may
\* give conditions older times or new ones.
SettledStatusStays ==
  [][undisturbed = 2 => /\ DOMAIN policy.status.conditions = { Own } \cup Wanted(policy.spec)
                        /\ policy'.status = policy.status]_vars
=============================================================================
