--------------------------- MODULE MetricsProofs ---------------------------
(***************************************************************************)
(* Proofs about Metrics, for any number of AuthPolicies and pods and every *)
(* bound: the variables keep their types, a round of the collector that    *)
(* nothing disturbs leaves the gauge exact, whatever it held before, and   *)
(* no race of the two goroutines leaves an AuthPolicy without a series.    *)
(***************************************************************************)
EXTENDS Metrics, TLAPS

----------------------------------------------------------------------------
(* Types.                                                                  *)

Spent == [ changes : Nat, deletes : Nat, fails : Nat, crashes : Nat ]

WorkerStates ==
  [ pc : { "idle", "delete", "list", "set", "status" }, name : Name,
    policy : AuthPolicy \cup {Gone}, pods : SUBSET (Pod \cup {NoPod}) ]

CollectorStates ==
  [ pc : { "waiting", "reset", "list", "refresh", "set", "sleep" },
    listed : SUBSET [ name : Name, policy : AuthPolicy ], name : Name,
    policy : AuthPolicy \cup {Gone}, pods : SUBSET (Pod \cup {NoPod}) ]

LEMMA SpentType ==
  ASSUME spent \in Spent
  PROVE  /\ \A d \in {0, 1} : Change(d) => spent' \in Spent
         /\ Fail => spent' \in Spent
         /\ [ spent EXCEPT !.crashes = @ + 1 ] \in Spent
<1>1. \A d \in {0, 1} : Change(d) =>
        spent' = [ spent EXCEPT !.changes = spent.changes + 1, !.deletes = spent.deletes + d ]
  BY DEF Change
<1>2. spent.changes \in Nat /\ spent.deletes \in Nat /\ spent.fails \in Nat /\ spent.crashes \in Nat
  BY DEF Spent
<1>3. \A a, b \in Nat : [ spent EXCEPT !.changes = a, !.deletes = b ] \in Spent
  BY DEF Spent
<1>4. \A a \in Nat : [ spent EXCEPT !.fails = a ] \in Spent /\ [ spent EXCEPT !.crashes = a ] \in Spent
  BY DEF Spent
<1>5. ASSUME NEW d \in {0, 1}, Change(d) PROVE spent' \in Spent
  <2>1. spent.changes + 1 \in Nat /\ spent.deletes + d \in Nat
    BY <1>2
  <2> QED BY <1>1, <1>3, <1>5, <2>1
<1>6. spent.fails + 1 \in Nat /\ spent.crashes + 1 \in Nat
  BY <1>2
<1>7. Fail => spent' = [ spent EXCEPT !.fails = spent.fails + 1 ]
  BY DEF Fail
<1> QED BY <1>4, <1>5, <1>6, <1>7

LEMMA IdleTypes ==
  /\ IdleWorker \in [ pc : { "idle" }, name : Name, policy : AuthPolicy \cup {Gone},
                       pods : SUBSET (Pod \cup {NoPod}) ]
  /\ \A pc : IdleCollector(pc) \in [ pc : { pc }, listed : SUBSET [ name : Name, policy : AuthPolicy ],
                       name : Name, policy : AuthPolicy \cup {Gone},
                       pods : SUBSET (Pod \cup {NoPod}) ]
<1>1. (CHOOSE n \in Name : TRUE) \in Name
  BY NameAssumption
<1> QED BY <1>1 DEF IdleWorker, IdleCollector

\* What the gauge is set to for an AuthPolicy is a series.
LEMMA SeriesType ==
  ASSUME NEW n \in Name, NEW q \in AuthPolicy, NEW p \in Pod \cup {NoPod}
  PROVE  SeriesOf(n, q, p) \in Series
BY DEF SeriesOf, Series, AuthPolicy

LEMMA PodLabelsType ==
  ASSUME pods \in [ Name -> SUBSET Pod ], NEW n \in Name
  PROVE  PodLabels(n) \in SUBSET (Pod \cup {NoPod}) /\ PodLabels(n) # {}
BY DEF PodLabels

\* While they set series, both goroutines hold an AuthPolicy.
Holding ==
  /\ worker.pc # "idle" => worker.policy \in AuthPolicy
  /\ collector.pc = "set" => collector.policy \in AuthPolicy

TypeInv == TypeOK /\ Holding

LEMMA UserType ==
  ASSUME TypeInv, UserStep \/ SyncStep \/ Crash
  PROVE  TypeInv'
<1> USE DEF TypeInv, TypeOK, Holding, Spent, world
<1>1. CASE \E n \in Name, i \in Info : Apply(n, i)
  <2>1. PICK n \in Name, i \in Info : Apply(n, i)
    BY <1>1
  <2>2. policies[n] # Gone => policies[n].phase \in Phase
    BY DEF AuthPolicy
  <2>3. [ info |-> i, phase |-> IF policies[n] = Gone THEN NoPhase ELSE policies[n].phase ] \in AuthPolicy
    BY <2>2 DEF AuthPolicy, Phase
  <2>4. spent' \in Spent
    BY <2>1, SpentType DEF Apply
  <2>5. policies' \in [ Name -> AuthPolicy \cup {Gone} ]
    BY <2>1, <2>3 DEF Apply
  <2> QED BY <2>1, <2>4, <2>5 DEF Apply
<1>2. CASE \E n \in Name : Delete(n)
  <2>1. spent' \in Spent
    BY <1>2, SpentType DEF Delete
  <2> QED BY <1>2, <2>1 DEF Delete
<1>3. CASE \E n \in Name : PodsChange(n)
  <2>1. spent' \in Spent
    BY <1>3, SpentType DEF PodsChange
  <2>2. pods' \in [ Name -> SUBSET Pod ] /\ queued' \subseteq Name
    BY <1>3 DEF PodsChange
  <2>3. UNCHANGED << policies, cached, series, worker, collector >> /\ calm' = FALSE
    BY <1>3 DEF PodsChange
  <2> QED BY <2>1, <2>2, <2>3
<1>4. CASE SyncStep
  BY <1>4 DEF SyncStep, Sync
<1>5. CASE Crash
  <2>1. spent' \in Spent
    BY <1>5, SpentType DEF Crash
  <2>2. worker' = IdleWorker /\ collector' = IdleCollector("waiting")
    BY <1>5 DEF Crash
  <2>3. worker'.pc = "idle" /\ collector'.pc = "waiting"
    BY <2>2, IdleTypes
  <2>4. worker' \in WorkerStates /\ collector' \in CollectorStates
    BY <2>2, IdleTypes DEF WorkerStates, CollectorStates
  <2>5. /\ UNCHANGED << policies, pods >> /\ cached' = policies /\ calm' = FALSE
        /\ series' = {} /\ queued' = { n \in Name : policies[n] # Gone }
    BY <1>5 DEF Crash
  <2> QED BY <2>1, <2>3, <2>4, <2>5 DEF WorkerStates, CollectorStates
<1> QED BY <1>1, <1>2, <1>3, <1>4, <1>5 DEF UserStep

\* A status keeps an AuthPolicy an AuthPolicy.
LEMMA PhaseType ==
  ASSUME NEW q \in AuthPolicy, NEW ph \in Phase
  PROVE  [ q EXCEPT !.phase = ph ] \in AuthPolicy
BY DEF AuthPolicy

LEMMA WorkerTypes ==
  ASSUME TypeInv, WorkerStep
  PROVE  TypeInv'
<1> USE DEF world
<1>0. /\ policies \in [ Name -> AuthPolicy \cup {Gone} ] /\ cached \in [ Name -> AuthPolicy \cup {Gone} ]
      /\ pods \in [ Name -> SUBSET Pod ] /\ series \subseteq Series /\ queued \subseteq Name
      /\ worker \in WorkerStates /\ collector \in CollectorStates
      /\ spent \in Spent /\ calm \in BOOLEAN /\ Holding
  BY DEF TypeInv, TypeOK, WorkerStates, CollectorStates, Spent
<1>1. SUFFICES /\ policies' \in [ Name -> AuthPolicy \cup {Gone} ] /\ series' \subseteq Series
               /\ queued' \subseteq Name /\ worker' \in WorkerStates
               /\ spent' \in Spent /\ calm' \in BOOLEAN
               /\ worker'.pc # "idle" => worker'.policy \in AuthPolicy
  <2>1. UNCHANGED << cached, pods, collector >>
    BY DEF WorkerStep, ReconcileGone, Reconcile, ReconcileUnchanged, DeleteAuthPolicyInfo, ListPods,
           SetInfo, UpdateStatus
  <2> QED BY <1>0, <2>1 DEF TypeInv, TypeOK, WorkerStates, CollectorStates, Spent, Holding
<1>2. worker.pc # "idle" => worker.policy \in AuthPolicy
  BY <1>0 DEF Holding
<1>3. CASE \E n \in Name : ReconcileGone(n) \/ ReconcileUnchanged(n)
  BY <1>0, <1>2, <1>3 DEF ReconcileGone, ReconcileUnchanged, Named
<1>4. CASE \E n \in Name : Reconcile(n)
  <2>1. PICK n \in Name : Reconcile(n)
    BY <1>4
  <2>2. cached[n] \in AuthPolicy
    BY <1>0, <2>1 DEF Reconcile
  <2>3. \A ph \in Phase : LET w == [ IdleWorker EXCEPT !.pc = "delete", !.name = n,
                                        !.policy = [ cached[n] EXCEPT !.phase = ph ] ]
                          IN  w \in WorkerStates /\ w.policy \in AuthPolicy
    BY <2>2, PhaseType, IdleTypes DEF WorkerStates
  <2>4. Outcome[cached[n].info] \in Phase /\ "Failed" \in Phase
    BY <2>2, OutcomeAssumption DEF AuthPolicy, Phase
  <2>5. /\ worker' \in WorkerStates /\ worker'.policy \in AuthPolicy
        /\ spent' \in Spent /\ calm' \in BOOLEAN /\ queued' \subseteq Name
    BY <1>0, <2>1, <2>3, <2>4, SpentType DEF Reconcile
  <2> QED BY <1>0, <2>1, <2>5 DEF Reconcile
<1>5. CASE DeleteAuthPolicyInfo
  <2>1. worker' \in WorkerStates /\ worker'.policy = worker.policy
    BY <1>0, <1>5 DEF DeleteAuthPolicyInfo, WorkerStates
  <2> QED BY <1>0, <1>2, <1>5, <2>1 DEF DeleteAuthPolicyInfo, Named
<1>6. CASE ListPods
  <2>1. PodLabels(worker.name) \in SUBSET (Pod \cup {NoPod})
    BY <1>0, PodLabelsType DEF WorkerStates
  <2>2. worker' \in WorkerStates /\ worker'.policy = worker.policy
    BY <1>0, <1>6, <2>1 DEF ListPods, WorkerStates
  <2> QED BY <1>0, <1>2, <1>6, <2>2, SpentType DEF ListPods
<1>7. CASE SetInfo
  <2>1. PICK p \in worker.pods :
          /\ series' = series \cup { SeriesOf(worker.name, worker.policy, p) }
          /\ worker' = [ worker EXCEPT !.pods = worker.pods \ {p},
                                       !.pc = IF worker.pods = {p} THEN "status" ELSE worker.pc ]
    BY <1>7 DEF SetInfo
  <2>2. worker.policy \in AuthPolicy /\ worker.name \in Name /\ p \in Pod \cup {NoPod}
    BY <1>0, <1>2, <1>7 DEF SetInfo, WorkerStates
  <2>3. SeriesOf(worker.name, worker.policy, p) \in Series
    BY <2>2, SeriesType
  <2>4. worker' \in WorkerStates /\ worker'.policy = worker.policy
    BY <1>0, <2>1 DEF WorkerStates
  <2> QED BY <1>0, <1>7, <2>1, <2>2, <2>3, <2>4 DEF SetInfo
<1>8. CASE UpdateStatus
  <2>1. worker' = IdleWorker /\ worker' \in WorkerStates /\ worker'.pc = "idle"
    BY <1>8, IdleTypes DEF UpdateStatus, WorkerStates
  <2>2. worker.name \in Name /\ worker.policy.phase \in Phase
    BY <1>0, <1>2, <1>8 DEF UpdateStatus, WorkerStates, AuthPolicy
  <2>3. ASSUME cached[worker.name] # Gone, cached[worker.name] = policies[worker.name],
               policies' = [ policies EXCEPT ![worker.name].phase = worker.policy.phase ]
        PROVE  policies' \in [ Name -> AuthPolicy \cup {Gone} ]
    <3>1. [ policies[worker.name] EXCEPT !.phase = worker.policy.phase ] \in AuthPolicy
      BY <1>0, <2>2, <2>3, PhaseType
    <3> QED BY <1>0, <2>3, <3>1
  <2>4. policies' \in [ Name -> AuthPolicy \cup {Gone} ]
    BY <1>0, <1>8, <2>3 DEF UpdateStatus
  <2>5. spent' \in Spent /\ calm' \in BOOLEAN
    BY <1>0, <1>8, SpentType DEF UpdateStatus
  <2> QED BY <1>0, <1>8, <2>1, <2>4, <2>5 DEF UpdateStatus
<1> QED BY <1>3, <1>4, <1>5, <1>6, <1>7, <1>8 DEF WorkerStep

LEMMA CollectorTypes ==
  ASSUME TypeInv, CollectorStep
  PROVE  TypeInv'
<1> USE DEF world
<1>0. /\ cached \in [ Name -> AuthPolicy \cup {Gone} ] /\ pods \in [ Name -> SUBSET Pod ]
      /\ series \subseteq Series /\ collector \in CollectorStates
      /\ spent \in Spent /\ calm \in BOOLEAN /\ Holding
  BY DEF TypeInv, TypeOK, CollectorStates, Spent
<1>1. SUFFICES /\ series' \subseteq Series /\ collector' \in CollectorStates
               /\ spent' \in Spent /\ calm' \in BOOLEAN
               /\ collector'.pc = "set" => collector'.policy \in AuthPolicy
  <2>1. UNCHANGED << policies, cached, pods, queued, worker >>
    BY DEF CollectorStep, Elected, Reset, List, RefreshNext, CollectorSetInfo, EndRound, Tick
  <2> QED BY <1>0, <2>1 DEF TypeInv, TypeOK, WorkerStates, CollectorStates, Spent, Holding
<1>2. \A pc \in { "reset", "list", "sleep" } :
        IdleCollector(pc) \in CollectorStates /\ IdleCollector(pc).pc = pc
  BY IdleTypes DEF CollectorStates
<1>3. CASE Elected \/ EndRound \/ Tick
  BY <1>0, <1>2, <1>3 DEF Elected, EndRound, Tick
<1>4. CASE Reset
  BY <1>0, <1>2, <1>4 DEF Reset, AtRest
<1>5. CASE List
  <2> DEFINE all == { [ name |-> n, policy |-> cached[n] ] : n \in { m \in Name : cached[m] # Gone } }
  <2>1. all \in SUBSET [ name : Name, policy : AuthPolicy ]
    BY <1>0
  <2> HIDE DEF all
  <2>2. \/ collector' = [ collector EXCEPT !.pc = "refresh", !.listed = all ]
        \/ collector' = [ collector EXCEPT !.pc = "refresh" ]
    BY <1>5 DEF List, all
  <2>3. collector' \in CollectorStates /\ collector'.pc = "refresh"
    BY <1>0, <2>1, <2>2 DEF CollectorStates
  <2> QED BY <1>0, <1>5, <2>3, SpentType DEF List
<1>6. CASE RefreshNext
  <2>1. PICK c \in collector.listed :
          \/ collector' = [ collector EXCEPT !.pc = "set", !.listed = collector.listed \ {c},
                               !.name = c.name, !.policy = c.policy, !.pods = PodLabels(c.name) ]
          \/ /\ collector' = [ collector EXCEPT !.listed = collector.listed \ {c} ]
             /\ collector.pc = "refresh"
    BY <1>6 DEF RefreshNext
  <2>2. c.name \in Name /\ c.policy \in AuthPolicy
    BY <1>0 DEF CollectorStates
  <2>3. PodLabels(c.name) \in SUBSET (Pod \cup {NoPod})
    BY <1>0, <2>2, PodLabelsType
  <2>4. collector' \in CollectorStates /\ (collector'.pc = "set" => collector'.policy \in AuthPolicy)
    BY <1>0, <2>1, <2>2, <2>3 DEF CollectorStates
  <2> QED BY <1>0, <1>6, <2>4, SpentType DEF RefreshNext
<1>7. CASE CollectorSetInfo
  <2>1. PICK p \in collector.pods :
          /\ series' = series \cup { SeriesOf(collector.name, collector.policy, p) }
          /\ collector' = [ collector EXCEPT !.pods = collector.pods \ {p},
                               !.pc = IF collector.pods = {p} THEN "refresh" ELSE collector.pc ]
    BY <1>7 DEF CollectorSetInfo
  <2>2. collector.policy \in AuthPolicy /\ collector.name \in Name /\ p \in Pod \cup {NoPod}
    BY <1>0, <1>7 DEF CollectorSetInfo, CollectorStates, Holding
  <2>3. SeriesOf(collector.name, collector.policy, p) \in Series
    BY <2>2, SeriesType
  <2>4. collector' \in CollectorStates /\ collector'.policy = collector.policy
    BY <1>0, <2>1 DEF CollectorStates
  <2> QED BY <1>0, <1>7, <2>1, <2>2, <2>3, <2>4 DEF CollectorSetInfo
<1> QED BY <1>3, <1>4, <1>5, <1>6, <1>7 DEF CollectorStep

LEMMA TypeInvInit == Init => TypeInv
<1> SUFFICES ASSUME Init PROVE TypeInv
  OBVIOUS
<1>1. worker.pc = "idle" /\ collector.pc = "waiting"
  BY IdleTypes DEF Init
<1>2. worker \in WorkerStates /\ collector \in CollectorStates
  BY IdleTypes DEF Init, WorkerStates, CollectorStates
<1> QED BY <1>1, <1>2 DEF Init, TypeInv, TypeOK, Holding, WorkerStates, CollectorStates

LEMMA TypeInvStep == TypeInv /\ [Next]_vars => TypeInv'
<1>1. TypeInv /\ Next => TypeInv'
  BY UserType, WorkerTypes, CollectorTypes DEF Next
<1>2. TypeInv /\ UNCHANGED vars => TypeInv'
  BY DEF TypeInv, TypeOK, Holding, vars
<1> QED BY <1>1, <1>2

\* Every variable keeps its type; in particular neither goroutine ever sets a
\* series for an AuthPolicy it does not hold.
THEOREM TypeCorrect == Spec => []TypeOK
<1>1. TypeInv => TypeOK
  BY DEF TypeInv
<1> QED BY <1>1, TypeInvInit, TypeInvStep, PTL DEF Spec

----------------------------------------------------------------------------
(* A round that nothing disturbs.                                          *)

\* The series that are due: all current ones but those of the AuthPolicies
\* the round has yet to come to.
Due(s) == s \in Current /\ \A c \in collector.listed : c.name # s.name

\* What the round has listed is what is there.
ListedIsThere ==
  \A c \in collector.listed :
    /\ c = [ name |-> c.name, policy |-> policies[c.name] ]
    /\ c.name \in Name /\ policies[c.name] # Gone

\* What a calm round has done so far.
Progress ==
  /\ collector.pc = "list" => series = {}
  /\ collector.pc \in { "refresh", "set" } => ListedIsThere
  /\ collector.pc = "refresh" => \A s : s \in series <=> Due(s)
  /\ collector.pc = "set" =>
       /\ policies[collector.name] # Gone /\ collector.policy = policies[collector.name]
       /\ collector.pods \subseteq PodLabels(collector.name)
       /\ \A c \in collector.listed : c.name # collector.name
       /\ \A s : s \in series <=> Due(s) /\ (s.name = collector.name => s.pod \notin collector.pods)
  /\ collector.pc \in { "reset", "sleep" } => series = Current

CalmInv == calm => AtRest /\ collector.pc # "waiting" /\ Progress

LEMMA CurrentIs ==
  ASSUME NEW s
  PROVE  s \in Current <=>
           \E n \in Name : policies[n] # Gone /\ \E p \in PodLabels(n) : s = SeriesOf(n, policies[n], p)
<1> DEFINE Of(n) == { SeriesOf(n, policies[n], p) : p \in PodLabels(n) }
<1>1. Current = UNION { Of(n) : n \in { m \in Name : policies[m] # Gone } }
  BY DEF Current
<1>2. \A n : s \in Of(n) <=> \E p \in PodLabels(n) : s = SeriesOf(n, policies[n], p)
  OBVIOUS
<1> HIDE DEF Of
<1> QED BY <1>1, <1>2

\* While the round is calm nothing but the collector moves.
LEMMA CalmSteps ==
  ASSUME TypeInv, CalmInv, [Next]_vars, calm'
  PROVE  \/ CollectorStep
         \/ calm /\ UNCHANGED << policies, cached, pods, series, queued, worker, collector >>
<1> USE DEF world
<1>1. CASE UserStep \/ Crash
  BY <1>1 DEF UserStep, Apply, Delete, PodsChange, Crash
<1>2. CASE SyncStep \/ WorkerStep
  <2>1. calm
    BY <1>2 DEF SyncStep, Sync, WorkerStep, ReconcileGone, Reconcile, ReconcileUnchanged,
                DeleteAuthPolicyInfo, ListPods, SetInfo, UpdateStatus
  <2>2. queued = {} /\ worker.pc = "idle" /\ cached = policies
    BY <2>1 DEF CalmInv, AtRest
  <2> QED BY <1>2, <2>2 DEF SyncStep, Sync, WorkerStep, ReconcileGone, Reconcile, ReconcileUnchanged,
                DeleteAuthPolicyInfo, ListPods, SetInfo, UpdateStatus
<1>3. CASE UNCHANGED vars
  BY <1>3 DEF vars
<1> QED BY <1>1, <1>2, <1>3 DEF Next

LEMMA CalmInvStep ==
  ASSUME TypeInv, CalmInv, [Next]_vars
  PROVE  CalmInv'
<1> SUFFICES ASSUME calm' PROVE AtRest' /\ collector'.pc # "waiting" /\ Progress'
  BY DEF CalmInv
<1> USE DEF world
<1>0. /\ collector \in CollectorStates /\ pods \in [ Name -> SUBSET Pod ]
      /\ policies \in [ Name -> AuthPolicy \cup {Gone} ]
  BY DEF TypeInv, TypeOK, CollectorStates
<1>00. \A pc : IdleCollector(pc).pc = pc /\ IdleCollector(pc).listed = {}
  BY DEF IdleCollector
<1>1. CASE calm /\ UNCHANGED << policies, cached, pods, series, queued, worker, collector >>
  <2>1. AtRest /\ collector.pc # "waiting" /\ Progress
    BY <1>1 DEF CalmInv
  <2>2. Current' = Current /\ AtRest'
    BY <1>1, <2>1 DEF Current, PodLabels, AtRest
  <2>3. /\ \A s : Due(s)' <=> Due(s)
        /\ ListedIsThere' <=> ListedIsThere
        /\ \A n : PodLabels(n)' = PodLabels(n)
    BY <1>1, <2>2 DEF Due, ListedIsThere, PodLabels
  <2> QED BY <1>1, <2>1, <2>2, <2>3 DEF Progress
<1>2. CASE Elected
  BY <1>2 DEF Elected, CalmInv
<1>3. CASE Reset
  <2>1. AtRest' /\ series' = {} /\ collector'.pc = "list"
    BY <1>00, <1>3 DEF Reset, AtRest
  <2> QED BY <2>1 DEF Progress
<1>4. CASE List
  <2>1. /\ calm /\ series = {} /\ AtRest /\ UNCHANGED << policies, cached, pods, series, queued, worker >>
        /\ collector' = [ collector EXCEPT !.pc = "refresh",
              !.listed = { [ name |-> n, policy |-> cached[n] ] : n \in { m \in Name : cached[m] # Gone } } ]
    BY <1>4 DEF List, CalmInv, Progress
  <2>2. /\ collector'.pc = "refresh"
        /\ collector'.listed = { [ name |-> n, policy |-> policies[n] ] :
                                   n \in { m \in Name : policies[m] # Gone } }
    BY <1>0, <2>1 DEF CollectorStates, AtRest
  <2>3. AtRest'
    BY <2>1 DEF AtRest
  <2>4. ListedIsThere'
    BY <2>1, <2>2 DEF ListedIsThere
  <2>5. \A s : ~Due(s)'
    <3>1. SUFFICES ASSUME NEW s, s \in Current PROVE \E c \in collector'.listed : c.name = s.name
      BY <2>1 DEF Due, Current, PodLabels
    <3>2. PICK n \in Name : policies[n] # Gone /\ \E p \in PodLabels(n) : s = SeriesOf(n, policies[n], p)
      BY <3>1, CurrentIs
    <3>3. s.name = n
      BY <3>2 DEF SeriesOf
    <3>4. [ name |-> n, policy |-> policies[n] ] \in collector'.listed
      BY <2>2, <3>2
    <3> QED BY <3>3, <3>4
  <2> QED BY <2>1, <2>2, <2>3, <2>4, <2>5 DEF Progress
<1>5. CASE EndRound
  <2>1. /\ calm /\ AtRest /\ UNCHANGED << policies, cached, pods, series, queued, worker >>
        /\ collector'.pc = "sleep" /\ \A s : s \in series <=> Due(s)
    BY <1>00, <1>5 DEF EndRound, CalmInv, Progress
  <2>2. AtRest'
    BY <2>1 DEF AtRest
  <2>3. series = Current
    BY <1>5, <2>1 DEF EndRound, Due
  <2>4. Current' = Current
    BY <2>1 DEF Current, PodLabels
  <2> QED BY <2>1, <2>2, <2>3, <2>4 DEF Progress
<1>6. CASE Tick
  <2>1. /\ calm /\ AtRest /\ UNCHANGED << policies, cached, pods, series, queued, worker >>
        /\ collector'.pc = "reset" /\ series = Current
    BY <1>00, <1>6 DEF Tick, CalmInv, Progress
  <2>2. Current' = Current /\ AtRest'
    BY <2>1 DEF Current, PodLabels, AtRest
  <2> QED BY <2>1, <2>2 DEF Progress
<1>7. CASE RefreshNext
  <2>1. /\ calm /\ AtRest /\ UNCHANGED << policies, cached, pods, series, queued, worker >>
        /\ ListedIsThere /\ \A s : s \in series <=> Due(s)
    BY <1>7 DEF RefreshNext, CalmInv, Progress
  <2>2. PICK c \in collector.listed :
          collector' = [ collector EXCEPT !.pc = "set", !.listed = collector.listed \ {c},
                           !.name = c.name, !.policy = c.policy, !.pods = PodLabels(c.name) ]
    BY <1>7 DEF RefreshNext
  <2>3. /\ collector'.pc = "set" /\ collector'.listed = collector.listed \ {c}
        /\ collector'.name = c.name /\ collector'.policy = c.policy
        /\ collector'.pods = PodLabels(c.name)
    BY <1>0, <2>2 DEF CollectorStates
  <2>4. c = [ name |-> c.name, policy |-> policies[c.name] ] /\ c.name \in Name /\ policies[c.name] # Gone
    BY <2>1 DEF ListedIsThere
  <2>5. c.policy = policies[c.name]
    BY <2>4
  <2>6. \A d \in collector.listed \ {c} : d.name # c.name
    <3> TAKE d \in collector.listed \ {c}
    <3>1. d = [ name |-> d.name, policy |-> policies[d.name] ]
      BY <2>1 DEF ListedIsThere
    <3> QED BY <2>4, <3>1
  <2>7. ListedIsThere'
    BY <2>1, <2>3 DEF ListedIsThere
  <2>8. Current' = Current /\ AtRest' /\ \A n : PodLabels(n)' = PodLabels(n)
    BY <2>1 DEF Current, PodLabels, AtRest
  <2>9. \A s \in Current : s.name = c.name => s.pod \in PodLabels(c.name)
    <3> TAKE s \in Current
    <3>1. PICK n \in Name : \E p \in PodLabels(n) : s = SeriesOf(n, policies[n], p)
      BY CurrentIs
    <3> QED BY <3>1 DEF SeriesOf
  <2>10. \A s : Due(s)' <=> s \in Current /\ \A d \in collector.listed \ {c} : d.name # s.name
    BY <2>3, <2>8 DEF Due
  <2>11. \A s : s \in series <=> Due(s)' /\ (s.name = c.name => s.pod \notin PodLabels(c.name))
    BY <2>1, <2>9, <2>10 DEF Due
  <2>12. PodLabels(c.name)' = PodLabels(c.name)
    BY <2>8
  <2> QED BY <2>1, <2>3, <2>4, <2>5, <2>6, <2>7, <2>8, <2>11, <2>12 DEF Progress
<1>8. CASE CollectorSetInfo
  <2> DEFINE n == collector.name
  <2>1. /\ calm /\ AtRest /\ UNCHANGED << policies, cached, pods, queued, worker >>
        /\ ListedIsThere /\ policies[n] # Gone /\ collector.policy = policies[n]
        /\ collector.pods \subseteq PodLabels(n) /\ n \in Name
        /\ \A c \in collector.listed : c.name # n
        /\ \A s : s \in series <=> Due(s) /\ (s.name = n => s.pod \notin collector.pods)
    BY <1>0, <1>8 DEF CollectorSetInfo, CalmInv, Progress, CollectorStates
  <2>2. PICK p \in collector.pods :
          /\ series' = series \cup { SeriesOf(n, collector.policy, p) }
          /\ collector' = [ collector EXCEPT !.pods = collector.pods \ {p},
                               !.pc = IF collector.pods = {p} THEN "refresh" ELSE collector.pc ]
    BY <1>8 DEF CollectorSetInfo
  <2>3. /\ collector'.pods = collector.pods \ {p} /\ collector'.listed = collector.listed
        /\ collector'.name = n /\ collector'.policy = collector.policy
        /\ collector'.pc = IF collector.pods = {p} THEN "refresh" ELSE "set"
    BY <1>0, <1>8, <2>2 DEF CollectorStates, CollectorSetInfo
  <2>4. Current' = Current /\ AtRest' /\ PodLabels(n)' = PodLabels(n)
    BY <2>1, <2>3 DEF Current, PodLabels, AtRest
  <2>5. ListedIsThere'
    BY <2>1, <2>3 DEF ListedIsThere
  <2>50. \A s : Due(s)' <=> Due(s)
    BY <2>3, <2>4 DEF Due
  <2> DEFINE new == SeriesOf(n, policies[n], p)
  <2>6. Due(new) /\ new.name = n /\ new.pod = p
    <3>1. new.name = n /\ new.pod = p
      BY DEF SeriesOf
    <3>2. new \in Current
      BY <2>1, CurrentIs
    <3> QED BY <2>1, <3>1, <3>2 DEF Due
  <2>7. \A s : Due(s) /\ s.name = n /\ s.pod = p => s = new
    <3> TAKE s
    <3>1. s \in Current => \E m \in Name : \E q \in PodLabels(m) : s = SeriesOf(m, policies[m], q)
      BY CurrentIs
    <3> QED BY <3>1 DEF Due, SeriesOf
  <2> HIDE DEF new
  <2>8. series' = series \cup { new }
    BY <2>1, <2>2 DEF new
  <2>9. \A s : s \in series' <=> Due(s) /\ (s.name = n => s.pod \notin collector.pods \ {p})
    BY <2>1, <2>6, <2>7, <2>8
  <2>10. CASE collector.pods = {p}
    <3>1. \A s : s \in series' <=> Due(s)
      BY <2>9, <2>10
    <3> QED BY <2>1, <2>3, <2>4, <2>5, <2>50, <2>10, <3>1 DEF Progress
  <2>11. CASE collector.pods # {p}
    <3>1. collector'.pods \subseteq PodLabels(n)'
      BY <2>1, <2>3, <2>4
    <3> QED BY <2>1, <2>3, <2>4, <2>5, <2>50, <2>9, <2>11, <3>1 DEF Progress
  <2> QED BY <2>10, <2>11
<1> QED BY <1>1, <1>2, <1>3, <1>4, <1>5, <1>6, <1>7, <1>8, CalmSteps DEF CollectorStep

LEMMA CalmInvImplies == TypeInv /\ CalmInv => CalmRoundIsExact
<1> SUFFICES ASSUME TypeInv, CalmInv, calm
             PROVE  series \subseteq Current /\ (collector.pc = "sleep" => series = Current)
  BY DEF CalmRoundIsExact
<1>1. Progress /\ collector.pc \in { "reset", "list", "refresh", "set", "sleep" }
  BY DEF CalmInv, TypeInv, TypeOK
<1> QED BY <1>1 DEF Progress, Due

\* Whatever the worker and the collector left behind while they raced: one
\* round of the collector that begins at rest and meets no change leaves
\* exactly the current series, for any number of AuthPolicies and pods.
THEOREM CalmRoundRepairs == Spec => []CalmRoundIsExact
<1>1. Init => CalmInv
  BY DEF Init, CalmInv
<1>2. TypeInv /\ CalmInv /\ [Next]_vars => (TypeInv /\ CalmInv)'
  BY TypeInvStep, CalmInvStep
<1> QED BY <1>1, <1>2, TypeInvInit, CalmInvImplies, PTL DEF Spec

----------------------------------------------------------------------------
(* No AuthPolicy is hidden.                                                *)

\* No call failed and no AuthPolicy was deleted so far.
Smooth == spent.fails = 0 /\ spent.deletes = 0

\* The cache follows the server: what it has is there, a status it has was
\* written, and none is written before the AuthPolicy is cached.
CacheFollows(n) ==
  /\ cached[n] # Gone => policies[n] # Gone
  /\ cached[n] # Gone /\ policies[n].phase = NoPhase => cached[n].phase = NoPhase
  /\ cached[n] = Gone /\ policies[n] # Gone => policies[n].phase = NoPhase

\* The worker has yet to set the series of the AuthPolicy,
WorkerToSet(n) == worker.pc \in { "delete", "list", "set" } /\ worker.name = n

\* the collector has,
CollectorToSet(n) ==
  \/ collector.pc \in { "waiting", "reset", "list" }
  \/ collector.pc \in { "refresh", "set" } /\ \E c \in collector.listed : c.name = n
  \/ collector.pc = "set" /\ collector.name = n

\* or a pass is due that no earlier one makes superfluous: it is the status
\* that a pass may find unchanged.
FirstPassDue(n) ==
  /\ n \in queued /\ policies[n].phase = NoPhase
  /\ worker.pc = "status" => worker.name # n

ShownOrDue(n) ==
  policies[n] # Gone =>
    \/ Named(n) # {} \/ cached[n] = Gone
    \/ WorkerToSet(n) \/ CollectorToSet(n) \/ FirstPassDue(n)

\* The phase the worker is about to write is a result of a pass.
Shown ==
  /\ worker.pc # "idle" => cached[worker.name] # Gone /\ worker.policy.phase # NoPhase
  /\ \A n \in Name : CacheFollows(n) /\ ShownOrDue(n)

ShownInv == Smooth => Shown

\* What went wrong stays on record.
LEMMA SmoothSteps ==
  ASSUME TypeInv, [Next]_vars, Smooth'
  PROVE  Smooth /\ ~Fail /\ \A n \in Name : ~Delete(n)
<1>1. spent.fails \in Nat /\ spent.deletes \in Nat /\ spent \in Spent
  BY DEF TypeInv, TypeOK, Spent
<1>2. ~Fail
  <2>1. Fail => spent'.fails = spent.fails + 1
    BY <1>1 DEF Fail, Spent
  <2> QED BY <1>1, <2>1 DEF Smooth
<1>3. ~Change(1)
  <2>1. Change(1) => spent'.deletes = spent.deletes + 1
    BY <1>1 DEF Change, Spent
  <2> QED BY <1>1, <2>1 DEF Smooth
<1>4. \A n \in Name : ~Delete(n)
  BY <1>3 DEF Delete
<1>5. Change(0) => spent'.fails = spent.fails /\ spent'.deletes = spent.deletes
  BY <1>1 DEF Change, Spent
<1>6. Crash => spent'.fails = spent.fails /\ spent'.deletes = spent.deletes
  BY <1>1 DEF Crash, Spent
<1>7. Change(0) \/ Crash \/ UNCHANGED spent
  BY <1>2, <1>4 DEF Next, vars, UserStep, Apply, PodsChange, SyncStep, Sync, WorkerStep, ReconcileGone,
     Reconcile, ReconcileUnchanged, DeleteAuthPolicyInfo, ListPods, SetInfo, UpdateStatus,
     CollectorStep, Elected, Reset, List, RefreshNext, CollectorSetInfo, EndRound, Tick
<1> QED BY <1>2, <1>4, <1>5, <1>6, <1>7 DEF Smooth

\* Users and the informer: an edit keeps the phase, and a new AuthPolicy is
\* queued when the cache gets it.
LEMMA ShownOutside ==
  ASSUME TypeInv, Shown, UserStep \/ SyncStep \/ Crash, \A n \in Name : ~Delete(n)
  PROVE  Shown'
<1> USE DEF world
<1>0. /\ policies \in [ Name -> AuthPolicy \cup {Gone} ] /\ cached \in [ Name -> AuthPolicy \cup {Gone} ]
      /\ worker.name \in Name
  BY DEF TypeInv, TypeOK
<1>1. CASE \E n \in Name, i \in Info : Apply(n, i)
  <2>1. PICK n \in Name, i \in Info : Apply(n, i)
    BY <1>1
  <2> DEFINE new == [ info |-> i, phase |-> IF policies[n] = Gone THEN NoPhase ELSE policies[n].phase ]
  <2>2. /\ policies' = [ policies EXCEPT ![n] = new ]
        /\ UNCHANGED << cached, series, queued, worker, collector >>
    BY <2>1 DEF Apply
  <2>3. new \in AuthPolicy
    BY <1>0 DEF AuthPolicy, Phase
  <2>4. new # Gone /\ new.phase = IF policies[n] = Gone THEN NoPhase ELSE policies[n].phase
    BY <2>3, GoneAssumption
  <2> HIDE DEF new
  <2>5. \A m \in Name : policies'[m] = IF m = n THEN new ELSE policies[m]
    BY <1>0, <2>2
  <2>6. ASSUME NEW m \in Name PROVE CacheFollows(m)' /\ ShownOrDue(m)'
    <3>1. CacheFollows(m) /\ ShownOrDue(m)
      BY DEF Shown
    <3>2. CacheFollows(m)'
      BY <2>2, <2>4, <2>5, <3>1 DEF CacheFollows
    <3>3. ShownOrDue(m)'
      BY <2>2, <2>4, <2>5, <3>1
         DEF CacheFollows, ShownOrDue, Named, WorkerToSet, CollectorToSet, FirstPassDue
    <3> QED BY <3>2, <3>3
  <2> QED BY <2>2, <2>6 DEF Shown
<1>2. CASE \E n \in Name : PodsChange(n)
  <2>1. /\ UNCHANGED << policies, cached, series, worker, collector >> /\ queued \subseteq queued'
    BY <1>2 DEF PodsChange
  <2> QED BY <2>1 DEF Shown, CacheFollows, ShownOrDue, Named, WorkerToSet, CollectorToSet, FirstPassDue
<1>3. CASE SyncStep
  <2>1. PICK n \in Name : Sync(n)
    BY <1>3 DEF SyncStep
  <2>2. /\ cached' = [ cached EXCEPT ![n] = policies[n] ]
        /\ UNCHANGED << policies, series, worker, collector >>
        /\ queued \subseteq queued' /\ (cached[n] = Gone => n \in queued')
    BY <2>1 DEF Sync
  <2>3. \A m \in Name : cached'[m] = IF m = n THEN policies[n] ELSE cached[m]
    BY <1>0, <2>2
  <2>4. ASSUME NEW m \in Name PROVE CacheFollows(m)' /\ ShownOrDue(m)'
    <3>1. CacheFollows(m) /\ ShownOrDue(m)
      BY DEF Shown
    <3>2. CacheFollows(m)'
      BY <2>2, <2>3, <3>1 DEF CacheFollows
    <3>3. cached[m] = Gone /\ policies[m] # Gone /\ cached'[m] # Gone => FirstPassDue(m)'
      <4> SUFFICES ASSUME cached[m] = Gone, policies[m] # Gone, cached'[m] # Gone PROVE FirstPassDue(m)'
        OBVIOUS
      <4>1. m = n /\ m \in queued'
        BY <2>2, <2>3
      <4>2. policies'[m].phase = NoPhase
        BY <2>2, <3>1 DEF CacheFollows
      <4>3. worker'.pc = "status" => worker'.name # m
        BY <2>2 DEF Shown
      <4> QED BY <4>1, <4>2, <4>3 DEF FirstPassDue
    <3>4. FirstPassDue(m) => FirstPassDue(m)'
      BY <2>2 DEF FirstPassDue
    <3>5. /\ Named(m)' = Named(m) /\ (WorkerToSet(m)' <=> WorkerToSet(m))
          /\ (CollectorToSet(m)' <=> CollectorToSet(m))
      BY <2>2 DEF Named, WorkerToSet, CollectorToSet
    <3>6. ShownOrDue(m)'
      BY <2>2, <3>1, <3>3, <3>4, <3>5 DEF ShownOrDue
    <3> QED BY <3>2, <3>6
  <2>5. worker'.pc # "idle" => cached'[worker'.name] # Gone /\ worker'.policy.phase # NoPhase
    BY <1>0, <2>2, <2>3 DEF Shown, CacheFollows
  <2> QED BY <2>4, <2>5 DEF Shown
<1>4. CASE Crash
  <2>1. worker'.pc = "idle" /\ collector'.pc = "waiting" /\ cached' = policies /\ policies' = policies
    BY <1>4 DEF Crash, IdleWorker, IdleCollector
  <2>2. \A m \in Name : CacheFollows(m)' /\ ShownOrDue(m)'
    BY <2>1 DEF CacheFollows, ShownOrDue, CollectorToSet
  <2> QED BY <2>1, <2>2 DEF Shown
<1> QED BY <1>1, <1>2, <1>3, <1>4 DEF UserStep

\* The worker: what it deletes it is about to set, and it writes a status
\* only after it has.
LEMMA ShownWorker ==
  ASSUME TypeInv, Shown, WorkerStep, ~Fail
  PROVE  Shown'
<1> USE DEF world
<1>0. /\ policies \in [ Name -> AuthPolicy \cup {Gone} ] /\ cached \in [ Name -> AuthPolicy \cup {Gone} ]
      /\ worker \in WorkerStates /\ IdleWorker \in WorkerStates /\ IdleWorker.pc = "idle"
  BY IdleTypes DEF TypeInv, TypeOK, WorkerStates
<1>00. \A m \in Name : CacheFollows(m) /\ ShownOrDue(m)
  BY DEF Shown
<1>1. CASE \E n \in Name : ReconcileGone(n)
  <2>1. PICK n \in Name : ReconcileGone(n)
    BY <1>1
  <2>2. /\ cached[n] = Gone /\ series' = series \ Named(n) /\ queued' = queued \ {n}
        /\ UNCHANGED << policies, cached, worker, collector >>
    BY <2>1 DEF ReconcileGone
  <2>3. \A m \in Name : CacheFollows(m)'
    BY <1>00, <2>2 DEF CacheFollows
  <2>4. ASSUME NEW m \in Name PROVE ShownOrDue(m)'
    <3>1. CASE m = n
      BY <2>2, <3>1 DEF ShownOrDue
    <3>2. CASE m # n
      <4>1. Named(m)' = Named(m)
        BY <2>2, <3>2 DEF Named
      <4> QED BY <1>00, <2>2, <3>2, <4>1 DEF ShownOrDue, WorkerToSet, CollectorToSet, FirstPassDue
    <3> QED BY <3>1, <3>2
  <2> QED BY <2>2, <2>3, <2>4 DEF Shown
<1>2. CASE \E n \in Name : Reconcile(n)
  <2>1. PICK n \in Name : Reconcile(n)
    BY <1>2
  <2>2. /\ cached[n] # Gone /\ queued' = queued \ {n} /\ worker.pc = "idle"
        /\ worker' = [ IdleWorker EXCEPT !.pc = "delete", !.name = n,
                         !.policy = [ cached[n] EXCEPT !.phase = Outcome[cached[n].info] ] ]
        /\ UNCHANGED << policies, cached, series, collector >>
    BY <2>1 DEF Reconcile
  <2>3. worker'.pc = "delete" /\ worker'.name = n
    BY <1>0, <2>2 DEF WorkerStates
  <2>30. worker'.policy.phase # NoPhase
    <3>1. cached[n] \in AuthPolicy /\ cached[n].info \in Info
      BY <1>0, <2>2 DEF AuthPolicy
    <3>2. worker'.policy.phase = Outcome[cached[n].info]
      BY <1>0, <2>2, <3>1 DEF WorkerStates, AuthPolicy
    <3> QED BY <3>1, <3>2, OutcomeAssumption
  <2>4. \A m \in Name : CacheFollows(m)'
    BY <1>00, <2>2 DEF CacheFollows
  <2>5. \A m \in Name : ShownOrDue(m)'
    BY <1>00, <2>2, <2>3 DEF ShownOrDue, Named, WorkerToSet, CollectorToSet, FirstPassDue
  <2> QED BY <2>2, <2>3, <2>30, <2>4, <2>5 DEF Shown
<1>3. CASE \E n \in Name : ReconcileUnchanged(n)
  <2>1. PICK n \in Name : ReconcileUnchanged(n)
    BY <1>3
  <2>2. /\ cached[n] # Gone /\ queued' = queued \ {n} /\ cached[n].phase = Outcome[cached[n].info]
        /\ UNCHANGED << policies, cached, series, worker, collector >>
    BY <2>1 DEF ReconcileUnchanged
  <2>3. cached[n].phase # NoPhase
    <3>1. cached[n].info \in Info
      BY <1>0, <2>2 DEF AuthPolicy
    <3> QED BY <2>2, <3>1, OutcomeAssumption
  <2>4. policies[n].phase # NoPhase
    BY <1>00, <2>2, <2>3 DEF CacheFollows
  <2>5. \A m \in Name : CacheFollows(m)'
    BY <1>00, <2>2 DEF CacheFollows
  <2>6. \A m \in Name : ShownOrDue(m)'
    BY <1>00, <2>2, <2>4 DEF ShownOrDue, Named, WorkerToSet, CollectorToSet, FirstPassDue
  <2>7. worker'.pc # "idle" => cached'[worker'.name] # Gone /\ worker'.policy.phase # NoPhase
    BY <2>2 DEF Shown
  <2> QED BY <2>5, <2>6, <2>7 DEF Shown
<1>4. CASE DeleteAuthPolicyInfo
  <2>1. /\ worker.pc = "delete" /\ series' = series \ Named(worker.name)
        /\ worker' = [ worker EXCEPT !.pc = "list" ]
        /\ UNCHANGED << policies, cached, queued, collector >>
    BY <1>4 DEF DeleteAuthPolicyInfo
  <2>2. worker'.pc = "list" /\ worker'.name = worker.name /\ worker'.policy = worker.policy
    BY <1>0, <2>1 DEF WorkerStates
  <2>3. \A m \in Name : CacheFollows(m)'
    BY <1>00, <2>1 DEF CacheFollows
  <2>4. \A m : m # worker.name => Named(m)' = Named(m)
    BY <2>1 DEF Named
  <2>5. \A m \in Name : ShownOrDue(m)'
    BY <1>00, <2>1, <2>2, <2>4 DEF ShownOrDue, WorkerToSet, CollectorToSet, FirstPassDue
  <2>6. cached'[worker'.name] # Gone /\ worker'.policy.phase # NoPhase
    BY <2>1, <2>2 DEF Shown
  <2> QED BY <2>3, <2>5, <2>6 DEF Shown
<1>5. CASE ListPods
  <2>1. /\ worker.pc = "list" /\ worker' = [ worker EXCEPT !.pc = "set", !.pods = PodLabels(worker.name) ]
        /\ UNCHANGED << policies, cached, series, queued, collector >>
    BY <1>5 DEF ListPods
  <2>2. worker'.pc = "set" /\ worker'.name = worker.name /\ worker'.policy = worker.policy
    BY <1>0, <2>1 DEF WorkerStates
  <2>3. \A m \in Name : CacheFollows(m)'
    BY <1>00, <2>1 DEF CacheFollows
  <2>5. \A m \in Name : ShownOrDue(m)'
    BY <1>00, <2>1, <2>2 DEF ShownOrDue, Named, WorkerToSet, CollectorToSet, FirstPassDue
  <2>6. cached'[worker'.name] # Gone /\ worker'.policy.phase # NoPhase
    BY <2>1, <2>2 DEF Shown
  <2> QED BY <2>3, <2>5, <2>6 DEF Shown
<1>6. CASE SetInfo
  <2>1. PICK p \in worker.pods :
          /\ series' = series \cup { SeriesOf(worker.name, worker.policy, p) }
          /\ worker' = [ worker EXCEPT !.pods = worker.pods \ {p},
                                       !.pc = IF worker.pods = {p} THEN "status" ELSE worker.pc ]
    BY <1>6 DEF SetInfo
  <2>2. worker.pc = "set" /\ UNCHANGED << policies, cached, queued, collector >>
    BY <1>6 DEF SetInfo
  <2>3. worker'.name = worker.name /\ worker'.policy = worker.policy
    BY <1>0, <2>1 DEF WorkerStates
  <2>4. \A m \in Name : CacheFollows(m)'
    BY <1>00, <2>2 DEF CacheFollows
  <2>5. \A m : m = worker.name => SeriesOf(worker.name, worker.policy, p) \in Named(m)'
    BY <2>1 DEF Named, SeriesOf
  <2>6. \A m : Named(m) \subseteq Named(m)'
    BY <2>1 DEF Named
  <2>7. ASSUME NEW m \in Name PROVE ShownOrDue(m)'
    <3>1. CASE m = worker.name
      BY <2>5, <3>1 DEF ShownOrDue
    <3>2. CASE m # worker.name
      BY <1>00, <2>2, <2>3, <2>6, <3>2 DEF ShownOrDue, WorkerToSet, CollectorToSet, FirstPassDue
    <3> QED BY <3>1, <3>2
  <2>8. cached'[worker'.name] # Gone /\ worker'.policy.phase # NoPhase
    BY <2>2, <2>3 DEF Shown
  <2> QED BY <2>4, <2>7, <2>8 DEF Shown
<1>7. CASE UpdateStatus
  <2> DEFINE n == worker.name
  <2>1. /\ worker.pc = "status" /\ worker' = IdleWorker /\ UNCHANGED << cached, series, queued, collector >>
        /\ \/ cached[n] # Gone /\ policies' = [ policies EXCEPT ![n].phase = worker.policy.phase ]
           \/ policies' = policies
    BY <1>7 DEF UpdateStatus
  <2>2. n \in Name /\ cached[n] # Gone
    BY <1>0, <2>1 DEF Shown, WorkerStates
  <2>3. policies[n] # Gone /\ policies[n] \in AuthPolicy
    BY <1>0, <1>00, <2>2 DEF CacheFollows
  <2>4. worker.policy \in AuthPolicy /\ worker.policy.phase \in Phase
    BY <2>1 DEF TypeInv, Holding, AuthPolicy
  <2> HIDE DEF n
  <2>5. /\ \A m \in Name : m # n => policies'[m] = policies[m]
        /\ policies'[n] # Gone
    <3>1. [ policies[n] EXCEPT !.phase = worker.policy.phase ] \in AuthPolicy
      BY <2>3, <2>4 DEF AuthPolicy
    <3> QED BY <1>0, <2>1, <2>2, <2>3, <3>1, GoneAssumption
  <2>6. policies'[n].phase = NoPhase => cached[n].phase = NoPhase
    <3>1. CASE policies' = policies
      BY <1>00, <2>2, <3>1 DEF CacheFollows
    <3>2. CASE policies' = [ policies EXCEPT ![n].phase = worker.policy.phase ]
      <4>1. policies'[n].phase = worker.policy.phase
        BY <1>0, <2>2, <2>3, <3>2 DEF AuthPolicy
      <4>2. worker.policy.phase # NoPhase
        BY <2>1 DEF Shown
      <4> QED BY <4>1, <4>2
    <3> QED BY <2>1, <3>1, <3>2
  <2>7. \A m \in Name : CacheFollows(m)'
    BY <1>00, <2>1, <2>2, <2>5, <2>6 DEF CacheFollows
  <2>8. ASSUME NEW m \in Name PROVE ShownOrDue(m)'
    <3>1. Named(m)' = Named(m) /\ (CollectorToSet(m)' <=> CollectorToSet(m))
      BY <2>1 DEF Named, CollectorToSet
    <3>2. CASE m = n
      <4>1. Named(m) # {} \/ CollectorToSet(m)
        BY <1>00, <2>1, <2>2, <2>3, <3>2 DEF ShownOrDue, WorkerToSet, FirstPassDue, n
      <4> QED BY <3>1, <4>1 DEF ShownOrDue
    <3>3. CASE m # n
      <4>1. ~WorkerToSet(m) /\ policies'[m] = policies[m] /\ cached'[m] = cached[m]
        BY <2>1, <2>5, <3>3 DEF WorkerToSet
      <4>2. FirstPassDue(m) => FirstPassDue(m)'
        BY <1>0, <2>1, <4>1 DEF FirstPassDue
      <4> QED BY <1>00, <3>1, <4>1, <4>2 DEF ShownOrDue
    <3> QED BY <3>2, <3>3
  <2> QED BY <1>0, <2>1, <2>7, <2>8 DEF Shown
<1> QED BY <1>1, <1>2, <1>3, <1>4, <1>5, <1>6, <1>7 DEF WorkerStep

\* The collector: once it has cleared the gauge it lists whatever is cached.
LEMMA ShownCollector ==
  ASSUME TypeInv, Shown, CollectorStep, ~Fail
  PROVE  Shown'
<1> USE DEF world
<1>0. collector \in CollectorStates
  BY DEF TypeInv, TypeOK, CollectorStates
<1>00. \A pc : IdleCollector(pc).pc = pc /\ IdleCollector(pc).listed = {}
  BY DEF IdleCollector
<1>1. UNCHANGED << policies, cached, queued, worker >>
  BY DEF CollectorStep, Elected, Reset, List, RefreshNext, CollectorSetInfo, EndRound, Tick
<1>2. \A m \in Name : CacheFollows(m)' /\ ShownOrDue(m)
  BY <1>1 DEF CacheFollows, Shown
<1>3. worker'.pc # "idle" => cached'[worker'.name] # Gone /\ worker'.policy.phase # NoPhase
  BY <1>1 DEF Shown
<1>4. SUFFICES ASSUME NEW m \in Name, policies[m] # Gone, cached[m] # Gone
               PROVE  Named(m) # {} \/ CollectorToSet(m) => Named(m)' # {} \/ CollectorToSet(m)'
  <2>1. \A n \in Name : (WorkerToSet(n)' <=> WorkerToSet(n)) /\ (FirstPassDue(n)' <=> FirstPassDue(n))
    BY <1>1 DEF WorkerToSet, FirstPassDue
  <2>2. \A n \in Name : ShownOrDue(n)'
    BY <1>1, <1>2, <1>4, <2>1 DEF ShownOrDue
  <2> QED BY <1>2, <1>3, <2>2 DEF Shown
<1>5. CASE Elected \/ Reset \/ Tick
  <2>1. collector'.pc \in { "reset", "list" }
    BY <1>00, <1>5 DEF Elected, Reset, Tick
  <2> QED BY <2>1 DEF CollectorToSet
<1>6. CASE List
  <2>1. collector' = [ collector EXCEPT !.pc = "refresh",
              !.listed = { [ name |-> n, policy |-> cached[n] ] : n \in { k \in Name : cached[k] # Gone } } ]
    BY <1>6 DEF List
  <2>2. /\ collector'.pc = "refresh"
        /\ collector'.listed = { [ name |-> n, policy |-> cached[n] ] : n \in { k \in Name : cached[k] # Gone } }
    BY <1>0, <2>1 DEF CollectorStates
  <2>3. [ name |-> m, policy |-> cached[m] ] \in collector'.listed
    BY <1>4, <2>2
  <2> QED BY <2>2, <2>3 DEF CollectorToSet
<1>7. CASE RefreshNext
  <2>1. PICK c \in collector.listed :
          collector' = [ collector EXCEPT !.pc = "set", !.listed = collector.listed \ {c},
                           !.name = c.name, !.policy = c.policy, !.pods = PodLabels(c.name) ]
    BY <1>7 DEF RefreshNext
  <2>2. collector'.pc = "set" /\ collector'.listed = collector.listed \ {c} /\ collector'.name = c.name
    BY <1>0, <2>1 DEF CollectorStates
  <2>3. Named(m)' = Named(m) /\ collector.pc = "refresh"
    BY <1>7 DEF RefreshNext, Named
  <2> QED BY <2>2, <2>3 DEF CollectorToSet
<1>8. CASE CollectorSetInfo
  <2>1. PICK p \in collector.pods :
          /\ series' = series \cup { SeriesOf(collector.name, collector.policy, p) }
          /\ collector' = [ collector EXCEPT !.pods = collector.pods \ {p},
                               !.pc = IF collector.pods = {p} THEN "refresh" ELSE collector.pc ]
    BY <1>8 DEF CollectorSetInfo
  <2>2. /\ collector'.listed = collector.listed /\ collector'.name = collector.name
        /\ collector'.pc \in { "refresh", "set" } /\ collector.pc = "set"
    BY <1>0, <1>8, <2>1 DEF CollectorStates, CollectorSetInfo
  <2>3. SeriesOf(collector.name, collector.policy, p) \in Named(collector.name)'
    BY <2>1 DEF Named, SeriesOf
  <2>4. Named(m) \subseteq Named(m)'
    BY <2>1 DEF Named
  <2> QED BY <2>2, <2>3, <2>4 DEF CollectorToSet
<1>9. CASE EndRound
  <2>1. collector.pc = "refresh" /\ collector.listed = {} /\ Named(m)' = Named(m)
    BY <1>9 DEF EndRound, Named
  <2> QED BY <2>1 DEF CollectorToSet
<1> QED BY <1>5, <1>6, <1>7, <1>8, <1>9 DEF CollectorStep

\* For any number of AuthPolicies, pods and restarts: however the worker and
\* the collector clear, delete and set series, no AuthPolicy is left without
\* one once nothing is under way, unless a call failed or one was deleted.
THEOREM NoneHidden == Spec => []NoPolicyHidden
<1>1. Init => ShownInv
  <2> SUFFICES ASSUME Init PROVE Shown
    BY DEF ShownInv
  <2>1. \A n \in Name : policies[n] = Gone /\ cached[n] = Gone
    BY DEF Init
  <2>2. worker.pc = "idle"
    BY DEF Init, IdleWorker
  <2> QED BY <2>1, <2>2 DEF Shown, CacheFollows, ShownOrDue
<1>2. TypeInv /\ ShownInv /\ [Next]_vars => (TypeInv /\ ShownInv)'
  <2> SUFFICES ASSUME TypeInv, ShownInv, [Next]_vars PROVE ShownInv'
    BY TypeInvStep
  <2> SUFFICES ASSUME Smooth' PROVE Shown'
    BY DEF ShownInv
  <2>1. Smooth /\ ~Fail /\ \A n \in Name : ~Delete(n)
    BY SmoothSteps
  <2>2. Shown
    BY <2>1 DEF ShownInv
  <2>3. CASE UNCHANGED vars
    BY <2>2, <2>3 DEF vars, Shown, CacheFollows, ShownOrDue, Named, WorkerToSet, CollectorToSet, FirstPassDue
  <2> QED BY <2>1, <2>2, <2>3, ShownOutside, ShownWorker, ShownCollector DEF Next
<1>3. TypeInv /\ ShownInv => NoPolicyHidden
  <2> SUFFICES ASSUME ShownInv, AtRest, collector.pc = "sleep", Smooth, NEW n \in Name, policies[n] # Gone
               PROVE  Named(n) # {}
    BY DEF NoPolicyHidden, Smooth
  <2>1. ShownOrDue(n) /\ cached[n] # Gone
    BY DEF ShownInv, Shown, AtRest
  <2> QED BY <2>1 DEF ShownOrDue, WorkerToSet, CollectorToSet, FirstPassDue, AtRest
<1> QED BY <1>1, <1>2, <1>3, TypeInvInit, PTL DEF Spec
=============================================================================
