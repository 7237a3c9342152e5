------------------------------ MODULE Metrics ------------------------------
(***************************************************************************)
(* The gauge ztoperator_authpolicy_info (pkg/metrics/metrics.go): a set of *)
(* series in the operator's memory that two goroutines change without a    *)
(* common lock.  The worker deletes and sets the series of the AuthPolicy  *)
(* it reconciles (statusmanager.UpdateStatus, Reconcile); the collector    *)
(* clears the gauge every collectorInterval and sets the series of every   *)
(* AuthPolicy it listed.  One call on the gauge, the cache or the API      *)
(* server is one step.                                                     *)
(*                                                                         *)
(* A series is told by its labels: the AuthPolicy's name, what comes from  *)
(* its spec and namespace (issuer, enabled, auto-login, owner), its phase  *)
(* and a protected pod.                                                    *)
(***************************************************************************)
EXTENDS Integers, FiniteSets

CONSTANTS
  Name,        \* AuthPolicy names
  Info,        \* what the labels take from a spec
  Pod,         \* pod names
  Gone,        \* no AuthPolicy of that name
  Outcome,     \* the phase a pass gives an AuthPolicy with that spec
  MaxChanges,  \* changes of AuthPolicies and pods
  MaxFails,    \* failing calls
  MaxCrashes   \* restarts of the operator

NoPod == ""
NoPhase == ""     \* no pass has written a status yet

Phase == { NoPhase, "Ready", "Invalid", "Failed" }

ASSUME NameAssumption == Name # {}
ASSUME OutcomeAssumption == Outcome \in [ Info -> Phase \ { NoPhase, "Failed" } ]
ASSUME PodAssumption == NoPod \notin Pod
ASSUME BoundsAssumption == MaxChanges \in Nat /\ MaxFails \in Nat /\ MaxCrashes \in Nat

AuthPolicy == [ info : Info, phase : Phase ]
ASSUME GoneAssumption == Gone \notin AuthPolicy

Series == [ name : Name, info : Info, phase : Phase, pod : Pod \cup {NoPod} ]

VARIABLES
  policies,    \* the AuthPolicies on the API server
  cached,      \* the AuthPolicies in the informer cache
  pods,        \* the pods each AuthPolicy selects, as cached
  series,      \* the gauge
  queued,      \* the work queue
  worker,      \* the pass of the worker
  collector,   \* the round of the collector
  spent,       \* changes, deletions among them, failing calls, restarts
  calm         \* history: the round began at rest and nothing happened since

world == << policies, cached, pods >>
vars == << policies, cached, pods, series, queued, worker, collector, spent, calm >>

----------------------------------------------------------------------------
(* The labels of one AuthPolicy.                                           *)

\* One series per pod, or one without a pod.
PodLabels(n) == IF pods[n] = {} THEN {NoPod} ELSE pods[n]

SeriesOf(n, policy, pod) ==
  [ name |-> n, info |-> policy.info, phase |-> policy.phase, pod |-> pod ]

Named(n) == { s \in series : s.name = n }

IdleWorker == [ pc |-> "idle", name |-> CHOOSE n \in Name : TRUE, policy |-> Gone, pods |-> {} ]

\* Elected leader, or waiting to be.
IdleCollector(pc) ==
  [ pc |-> pc, listed |-> {}, name |-> CHOOSE n \in Name : TRUE, policy |-> Gone, pods |-> {} ]

AtRest ==
  queued = {} /\ worker.pc = "idle" /\ cached = policies

Init ==
  /\ policies = [ n \in Name |-> Gone ]
  /\ cached = policies
  /\ pods = [ n \in Name |-> {} ]
  /\ series = {}
  /\ queued = {}
  /\ worker = IdleWorker
  /\ collector = IdleCollector("waiting")
  /\ spent = [ changes |-> 0, deletes |-> 0, fails |-> 0, crashes |-> 0 ]
  /\ calm = FALSE

----------------------------------------------------------------------------
(* Users, and the informers.                                               *)

Change(deletes) ==
  /\ spent.changes < MaxChanges
  /\ spent' = [ spent EXCEPT !.changes = @ + 1, !.deletes = @ + deletes ]
Fail == spent.fails < MaxFails /\ spent' = [ spent EXCEPT !.fails = @ + 1 ]

\* A new AuthPolicy has no status; an edit keeps it.
Apply(n, i) ==
  /\ Change(0)
  /\ policies' = [ policies EXCEPT
       ![n] = [ info |-> i, phase |-> IF @ = Gone THEN NoPhase ELSE @.phase ] ]
  /\ policies' # policies
  /\ calm' = FALSE
  /\ UNCHANGED << cached, pods, series, queued, worker, collector >>

Delete(n) ==
  /\ Change(1)
  /\ policies[n] # Gone
  /\ policies' = [ policies EXCEPT ![n] = Gone ]
  /\ calm' = FALSE
  /\ UNCHANGED << cached, pods, series, queued, worker, collector >>

\* pod.EventHandler queues every AuthPolicy of the namespace.
PodsChange(n) ==
  /\ Change(0)
  /\ \E p \in SUBSET Pod \ {pods[n]} : pods' = [ pods EXCEPT ![n] = p ]
  /\ queued' = queued \cup { m \in Name : policies[m] # Gone }
  /\ calm' = FALSE
  /\ UNCHANGED << policies, cached, series, worker, collector >>

\* The cache catches up; GenerationChangedPredicate passes creations,
\* deletions and edits, not a new status.
Sync(n) ==
  /\ cached[n] # policies[n]
  /\ cached' = [ cached EXCEPT ![n] = policies[n] ]
  /\ queued' = IF /\ cached[n] # Gone /\ policies[n] # Gone
                  /\ cached[n].info = policies[n].info
               THEN queued ELSE queued \cup {n}
  /\ UNCHANGED << policies, pods, series, worker, collector, spent, calm >>

----------------------------------------------------------------------------
(* The worker.                                                             *)

\* Reconcile of a deleted AuthPolicy: DeleteAuthPolicyInfo, nothing else.
ReconcileGone(n) ==
  /\ worker.pc = "idle" /\ n \in queued /\ cached[n] = Gone
  /\ series' = series \ Named(n)
  /\ queued' = queued \ {n}
  /\ UNCHANGED << world, worker, collector, spent, calm >>

\* A pass over an AuthPolicy that ends in UpdateStatus.  A failing call of
\* the pass makes it Failed and queues the request again.
Reconcile(n) ==
  /\ worker.pc = "idle" /\ n \in queued /\ cached[n] # Gone
  /\ \/ /\ worker' = [ IdleWorker EXCEPT !.pc = "delete", !.name = n,
                         !.policy = [ cached[n] EXCEPT !.phase = Outcome[cached[n].info] ] ]
        /\ queued' = queued \ {n}
        /\ UNCHANGED << spent, calm >>
     \/ /\ Fail
        /\ worker' = [ IdleWorker EXCEPT !.pc = "delete", !.name = n,
                         !.policy = [ cached[n] EXCEPT !.phase = "Failed" ] ]
        /\ calm' = FALSE
        /\ UNCHANGED queued
  /\ UNCHANGED << world, series, collector >>

\* A pass that patched the labels compares with the status on the server and
\* skips UpdateStatus when nothing changed.
ReconcileUnchanged(n) ==
  /\ worker.pc = "idle" /\ n \in queued /\ cached[n] # Gone
  /\ cached[n].phase = Outcome[cached[n].info]
  /\ queued' = queued \ {n}
  /\ UNCHANGED << world, series, worker, collector, spent, calm >>

DeleteAuthPolicyInfo ==
  /\ worker.pc = "delete"
  /\ series' = series \ Named(worker.name)
  /\ worker' = [ worker EXCEPT !.pc = "list" ]
  /\ UNCHANGED << world, queued, collector, spent, calm >>

\* GetProtectedPods; when it fails, RefreshAuthPolicyInfo returns the nil
\* error of the line before, and the status update goes on.
ListPods ==
  /\ worker.pc = "list"
  /\ \/ /\ worker' = [ worker EXCEPT !.pc = "set", !.pods = PodLabels(worker.name) ]
        /\ UNCHANGED << spent, calm >>
     \/ /\ Fail
        /\ worker' = [ worker EXCEPT !.pc = "status" ]
        /\ calm' = FALSE
  /\ UNCHANGED << world, series, queued, collector >>

\* WithLabelValues(...).Set(1), one pod at a time.
SetInfo ==
  /\ worker.pc = "set"
  /\ \E p \in worker.pods :
       /\ series' = series \cup { SeriesOf(worker.name, worker.policy, p) }
       /\ worker' = [ worker EXCEPT !.pods = @ \ {p},
                                    !.pc = IF worker.pods = {p} THEN "status" ELSE @ ]
  /\ UNCHANGED << world, queued, collector, spent, calm >>

\* Slip: the series are deleted when the pass ends, not before they are set.
UpdateStatusDeletesInfo ==
  /\ worker.pc = "status"
  /\ cached[worker.name] # Gone /\ cached[worker.name] = policies[worker.name]
  /\ policies' = [ policies EXCEPT ![worker.name].phase = worker.policy.phase ]
  /\ series' = series \ Named(worker.name)
  /\ worker' = IdleWorker
  /\ UNCHANGED << cached, pods, queued, collector, spent, calm >>

\* The status update, retried until the cache holds the current version; its
\* error is only logged.
UpdateStatus ==
  /\ worker.pc = "status"
  /\ LET n == worker.name
     IN  \/ /\ cached[n] # Gone /\ cached[n] = policies[n]
            /\ policies' = [ policies EXCEPT ![n].phase = worker.policy.phase ]
            /\ UNCHANGED << spent, calm >>
         \/ /\ cached[n] = Gone \/ policies[n] = Gone
            /\ UNCHANGED << policies, spent, calm >>
         \/ /\ Fail
            /\ calm' = FALSE
            /\ UNCHANGED policies
  /\ worker' = IdleWorker
  /\ UNCHANGED << cached, pods, series, queued, collector >>

----------------------------------------------------------------------------
(* The collector.                                                          *)

Elected ==
  /\ collector.pc = "waiting"
  /\ collector' = IdleCollector("reset")
  /\ UNCHANGED << world, series, queued, worker, spent, calm >>

\* Slip: the gauge is not cleared.
NoReset ==
  /\ collector.pc = "reset"
  /\ collector' = IdleCollector("list")
  /\ calm' = AtRest
  /\ UNCHANGED << world, series, queued, worker, spent >>

Reset ==
  /\ collector.pc = "reset"
  /\ series' = {}
  /\ collector' = IdleCollector("list")
  /\ calm' = AtRest
  /\ UNCHANGED << world, queued, worker, spent >>

\* Slip: names without an AuthPolicy are listed too.
ListEveryName ==
  /\ collector.pc = "list"
  /\ collector' = [ collector EXCEPT !.pc = "refresh",
       !.listed = { [ name |-> n, policy |-> cached[n] ] : n \in Name } ]
  /\ UNCHANGED << world, series, queued, worker, spent, calm >>

\* The list comes from the cache; an error of the call is ignored and leaves
\* an empty list.
List ==
  /\ collector.pc = "list"
  /\ \/ /\ collector' = [ collector EXCEPT !.pc = "refresh",
              !.listed = { [ name |-> n, policy |-> cached[n] ] :
                             n \in { m \in Name : cached[m] # Gone } } ]
        /\ UNCHANGED << spent, calm >>
     \/ /\ Fail
        /\ collector' = [ collector EXCEPT !.pc = "refresh" ]
        /\ calm' = FALSE
  /\ UNCHANGED << world, series, queued, worker >>

\* RefreshAuthPolicyInfo of the next listed copy, up to its pods; a failing
\* GetProtectedPods leaves it without series.
RefreshNext ==
  /\ collector.pc = "refresh"
  /\ \E c \in collector.listed :
       \/ /\ collector' = [ collector EXCEPT !.pc = "set", !.listed = @ \ {c},
                              !.name = c.name, !.policy = c.policy,
                              !.pods = PodLabels(c.name) ]
          /\ UNCHANGED << spent, calm >>
       \/ /\ Fail
          /\ collector' = [ collector EXCEPT !.listed = @ \ {c} ]
          /\ calm' = FALSE
  /\ UNCHANGED << world, series, queued, worker >>

CollectorSetInfo ==
  /\ collector.pc = "set"
  /\ \E p \in collector.pods :
       /\ series' = series \cup { SeriesOf(collector.name, collector.policy, p) }
       /\ collector' = [ collector EXCEPT !.pods = @ \ {p},
                           !.pc = IF collector.pods = {p} THEN "refresh" ELSE @ ]
  /\ UNCHANGED << world, queued, worker, spent, calm >>

\* The round is over; the ticker starts the next one.
EndRound ==
  /\ collector.pc = "refresh" /\ collector.listed = {}
  /\ collector' = IdleCollector("sleep")
  /\ UNCHANGED << world, series, queued, worker, spent, calm >>

\* Slip: the collector runs once.
NoTick == collector.pc = "sleep" /\ UNCHANGED vars

Tick ==
  /\ collector.pc = "sleep"
  /\ collector' = IdleCollector("reset")
  /\ UNCHANGED << world, series, queued, worker, spent, calm >>

\* The operator restarts: the gauge, the queue and both goroutines are lost,
\* every AuthPolicy counts as created.
Crash ==
  /\ spent.crashes < MaxCrashes
  /\ spent' = [ spent EXCEPT !.crashes = @ + 1 ]
  /\ cached' = policies
  /\ queued' = { n \in Name : policies[n] # Gone }
  /\ series' = {}
  /\ worker' = IdleWorker
  /\ collector' = IdleCollector("waiting")
  /\ calm' = FALSE
  /\ UNCHANGED << policies, pods >>

----------------------------------------------------------------------------
UserStep ==
  \E n \in Name : Delete(n) \/ PodsChange(n) \/ \E i \in Info : Apply(n, i)

WorkerStep ==
  \/ \E n \in Name : ReconcileGone(n) \/ Reconcile(n) \/ ReconcileUnchanged(n)
  \/ DeleteAuthPolicyInfo \/ ListPods \/ SetInfo \/ UpdateStatus

CollectorStep ==
  \/ Elected \/ Reset \/ List \/ RefreshNext \/ CollectorSetInfo \/ EndRound \/ Tick

SyncStep == \E n \in Name : Sync(n)

Next == UserStep \/ SyncStep \/ WorkerStep \/ CollectorStep \/ Crash

Spec == Init /\ [][Next]_vars

\* The worker, the collector and the informer keep going; users and failures
\* owe nothing.
FairSpec ==
  /\ Spec
  /\ WF_vars(WorkerStep) /\ WF_vars(CollectorStep)
  /\ \A n \in Name : WF_vars(Sync(n))

----------------------------------------------------------------------------
\* Every variable has its type; in particular both goroutines only hold
\* AuthPolicies that existed, and set series made from them.
TypeOK ==
  /\ policies \in [ Name -> AuthPolicy \cup {Gone} ]
  /\ cached \in [ Name -> AuthPolicy \cup {Gone} ]
  /\ pods \in [ Name -> SUBSET Pod ]
  /\ series \subseteq Series
  /\ queued \subseteq Name
  /\ worker \in [ pc : { "idle", "delete", "list", "set", "status" }, name : Name,
                  policy : AuthPolicy \cup {Gone}, pods : SUBSET (Pod \cup {NoPod}) ]
  /\ collector \in [ pc : { "waiting", "reset", "list", "refresh", "set", "sleep" },
                     listed : SUBSET [ name : Name, policy : AuthPolicy ],
                     name : Name, policy : AuthPolicy \cup {Gone},
                     pods : SUBSET (Pod \cup {NoPod}) ]
  /\ spent \in [ changes : Nat, deletes : Nat, fails : Nat, crashes : Nat ]
  /\ calm \in BOOLEAN

\* The series that the AuthPolicies on the server should have.
Current ==
  UNION { { SeriesOf(n, policies[n], p) : p \in PodLabels(n) } :
            n \in { m \in Name : policies[m] # Gone } }

\* refreshOnce repairs the gauge in one round: if nothing was under way when
\* the gauge was cleared and nothing has happened since, it shows no series
\* but current ones, and all of them when the collector sleeps.  What a
\* worker and a collector left behind while they raced does not outlive that.
CalmRoundIsExact ==
  calm => /\ series \subseteq Current
          /\ collector.pc = "sleep" => series = Current

\* Clearing, deleting and setting series in any order never hides an
\* AuthPolicy: when nothing is under way, no call has failed and none was
\* recreated, everyone has a series (perhaps an old one).  The pass of a
\* deleted AuthPolicy may write its status on the recreated one, whose own
\* pass may then find it unchanged and set no series before the next round.
NoPolicyHidden ==
  AtRest /\ collector.pc = "sleep" /\ spent.fails = 0 /\ spent.deletes = 0 =>
    \A n \in Name : policies[n] # Gone => Named(n) # {}

\* A series of an older spec, status or pod, or of a deleted AuthPolicy, is
\* eventually gone for good, and the gauge is exact again and again: also
\* after failing calls, lost status updates and restarts.
EventuallyExact ==
  <>[](series \subseteq Current) /\ []<>(series = Current)
=============================================================================
