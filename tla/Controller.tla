----------------------------- MODULE Controller -----------------------------
(***************************************************************************)
(* The AuthPolicy controller: one AuthPolicy name, the objects it owns on  *)
(* the API server, the watch events on their way to the operator, the      *)
(* informer caches the controller reads, its work queue, and the reconcile *)
(* pass of its single worker, cut at every API call (internal/controller,  *)
(* pkg/reconciliation, internal/statusmanager, internal/eventhandler).     *)
(*                                                                         *)
(* Around it are the users who edit, delete and recreate objects, the      *)
(* garbage collector, failing API calls and restarts of the operator.      *)
(* Every disturbance is counted; Budgets bounds which may come together.   *)
(***************************************************************************)
EXTENDS Resources

CONSTANTS
  Specs,     \* the specs users give the AuthPolicy
  Budgets,   \* how often disturbances happen: what each budget allows together
  MaxLag     \* how many versions of an object an informer may be behind

\* edit, strip (labels), delete, recreate: the AuthPolicy.  rotate: the OAuth
\* secret.  tamper: an owned child.  pod: a pod event.  foreign, race:
\* somebody else's object at a child's name (see CreateForeign).  apiFail,
\* statusFail, listFail: failing calls (statusFail: also a cache that does not
\* catch up within MaxTries attempts).  crash: a restart of the operator.
Disturbances == { "edit", "strip", "delete", "recreate", "rotate", "tamper",
                  "pod", "foreign", "race", "apiFail", "statusFail", "listFail", "crash" }

\* retry.DefaultBackoff.Steps of client-go.
MaxTries == 4

\* The OAuth secret's content: 0 is a missing secret.
Creds == 0..2

ASSUME SpecsAssumption == Specs \subseteq PolicySpec /\ Specs # {}
ASSUME BudgetsAssumption == Budgets \subseteq [Disturbances -> Nat]
ASSUME MaxLagAssumption == MaxLag \in Nat \ {0}

VARIABLES
  policy,      \* the AuthPolicy on the API server
  children,    \* the object at each child's name on the API server
  oauth,       \* the OAuth secret on the API server
  epolicy, echildren, eoauth,   \* versions the watches have yet to deliver
  cpolicy, cchildren, coauth,   \* the informer caches
  queued,      \* the request is in the work queue
  pass,        \* the worker's current Reconcile call
  used         \* how often each disturbance has happened

policyVars == << policy, epolicy >>
childVars == << children, echildren >>
oauthVars == << oauth, eoauth >>
server == << policyVars, childVars, oauthVars >>
caches == << cpolicy, cchildren, coauth >>
vars == << policy, children, oauth, epolicy, echildren, eoauth,
           cpolicy, cchildren, coauth, queued, pass, used >>

----------------------------------------------------------------------------
(* State.                                                                  *)

Status == [ phase : Phases,     \* Ready is (phase = "Ready")
            obs : Nat,          \* ObservedGeneration
            cond : Phases ]     \* what the AuthPolicy condition says

Policy == [ present : BOOLEAN,
            uid : Nat \ {0},
            gen : Nat \ {0},
            spec : Specs,
            labelled : BOOLEAN,
            deleting : BOOLEAN,   \* DeletionTimestamp is set
            status : Status ]

\* resolve..failStatus are the calls a pass is about to make.
PCs == { "idle", "labels", "resolve", "get", "write", "status", "failStatus" }

Pass == [ pc : PCs,
          uid : Nat, gen : Nat, spec : Specs,   \* the AuthPolicy that was read
          cond : Phases,           \* the condition that was read
          orig : Status,           \* originalAuthPolicy.Status
          cred : Creds, hmac : Nat,
          idx : 1..6,              \* which of ControllerResources
          cur : Object,            \* the child that was read
          ok : SUBSET Kinds, failed : SUBSET Kinds,
          tries : 1..MaxTries ]

NewStatus == [ phase |-> "None", obs |-> 0, cond |-> "None" ]

NewPolicy(uid, spec) ==
  [ present |-> TRUE, uid |-> uid, gen |-> 1, spec |-> spec,
    labelled |-> FALSE, deleting |-> FALSE, status |-> NewStatus ]

\* A worker without a request; everything but the pc is dead then.
IdlePass ==
  [ pc |-> "idle", uid |-> 0, gen |-> 0, spec |-> CHOOSE s \in Specs : TRUE,
    cond |-> "None", orig |-> NewStatus, cred |-> 0, hmac |-> 0, idx |-> 1, cur |-> NoObject,
    ok |-> {}, failed |-> {}, tries |-> 1 ]

\* A new AuthPolicy, with or without the OAuth secret that auto-login needs,
\* that the operator has not seen yet.
Init ==
  /\ \E s \in Specs : policy = NewPolicy(1, s)
  /\ cpolicy = [ policy EXCEPT !.present = FALSE ]
  /\ epolicy = << policy >>
  /\ children = [ k \in Kinds |-> NoObject ]
  /\ cchildren = children
  /\ echildren = [ k \in Kinds |-> << >> ]
  /\ oauth \in IF \E s \in Specs : s.autoLogin THEN {0, 1} ELSE {0}
  /\ coauth = oauth
  /\ eoauth = << >>
  /\ queued = FALSE
  /\ pass = IdlePass
  /\ used = [ d \in Disturbances |-> 0 ]

Spend(d) ==
  /\ \E b \in Budgets : used[d] < b[d] /\ \A e \in Disturbances : used[e] <= b[e]
  /\ used' = [ used EXCEPT ![d] = @ + 1 ]

\* Writes of the API server: every change of an object is a watch event.
SetPolicy(new) ==
  /\ new # policy => Len(epolicy) < MaxLag
  /\ policy' = new
  /\ epolicy' = IF new = policy THEN epolicy ELSE Append(epolicy, new)

SetChild(k, new) ==
  /\ new # children[k] => Len(echildren[k]) < MaxLag
  /\ children' = [ children EXCEPT ![k] = new ]
  /\ echildren' = IF new = children[k] THEN echildren
                  ELSE [ echildren EXCEPT ![k] = Append(@, new) ]

SetOauth(new) ==
  /\ Len(eoauth) < MaxLag
  /\ oauth' = new
  /\ eoauth' = Append(eoauth, new)

----------------------------------------------------------------------------
(* Users, and the garbage collector of the API server.                     *)

EditSpec ==
  /\ Spend("edit")
  /\ policy.present /\ ~policy.deleting
  /\ \E s \in Specs \ {policy.spec} :
       SetPolicy([ policy EXCEPT !.spec = s, !.gen = @ + 1 ])
  /\ UNCHANGED << childVars, oauthVars, caches, queued, pass >>

\* Labels are metadata: the generation stays.
StripLabels ==
  /\ Spend("strip")
  /\ policy.present /\ policy.labelled
  /\ SetPolicy([ policy EXCEPT !.labelled = FALSE ])
  /\ UNCHANGED << childVars, oauthVars, caches, queued, pass >>

\* Background deletion removes the AuthPolicy at once; foreground deletion
\* marks it (which counts as a new generation) until its children are gone.
DeletePolicy ==
  /\ Spend("delete")
  /\ policy.present /\ ~policy.deleting
  /\ \/ SetPolicy([ policy EXCEPT !.present = FALSE ])
     \/ SetPolicy([ policy EXCEPT !.deleting = TRUE, !.gen = @ + 1 ])
  /\ UNCHANGED << childVars, oauthVars, caches, queued, pass >>

RecreatePolicy ==
  /\ Spend("recreate")
  /\ ~policy.present
  /\ \E s \in Specs : SetPolicy(NewPolicy(policy.uid + 1, s))
  /\ UNCHANGED << childVars, oauthVars, caches, queued, pass >>

\* The OAuth secret is created, rotated or deleted.
ChangeOauth ==
  /\ Spend("rotate")
  /\ \E c \in Creds \ {oauth} : SetOauth(c)
  /\ UNCHANGED << policyVars, childVars, caches, queued, pass >>

\* A body that no generator produces.
Tampered == << -1 >>

\* Somebody edits or deletes an owned child.
TamperChild(k) ==
  /\ Spend("tamper")
  /\ children[k].owner >= 1
  /\ \E obj \in { NoObject, [ children[k] EXCEPT !.body = Tampered ],
                  [ children[k] EXCEPT !.labels = FALSE ] } :
       /\ obj # children[k]
       /\ SetChild(k, obj)
  /\ UNCHANGED << policyVars, oauthVars, caches, queued, pass >>

ForeignObject == [ owner |-> Foreign, body |-> Tampered, labels |-> FALSE, extra |-> 0 ]

\* The operator knows that the name is free: its cache says so and is up to
\* date, and the pass under way does not hold an older copy.
SeenFree(k) ==
  /\ ~Exists(cchildren[k]) /\ echildren[k] = << >>
  /\ pass.pc = "write" /\ ControllerResources[pass.idx] = k => ~Exists(pass.cur)

\* Somebody else creates an object at a child's name; at a name the operator
\* may still hold an owned copy of, this is the "race" disturbance.
CreateForeign(k) ==
  /\ ~Exists(children[k])
  /\ IF SeenFree(k) THEN Spend("foreign") ELSE Spend("race")
  /\ SetChild(k, ForeignObject)
  /\ UNCHANGED << policyVars, oauthVars, caches, queued, pass >>

DeleteForeign(k) ==
  /\ children[k].owner = Foreign
  /\ SetChild(k, NoObject)
  /\ UNCHANGED << policyVars, oauthVars, caches, queued, pass, used >>

IsGarbage(k) ==
  /\ children[k].owner >= 1
  /\ children[k].owner = policy.uid /\ policy.present => policy.deleting

CollectChild(k) ==
  /\ IsGarbage(k)
  /\ SetChild(k, NoObject)
  /\ UNCHANGED << policyVars, oauthVars, caches, queued, pass, used >>

\* A foreground deletion ends when no child is left.
CollectPolicy ==
  /\ policy.present /\ policy.deleting
  /\ \A k \in Kinds : children[k].owner # policy.uid
  /\ SetPolicy([ policy EXCEPT !.present = FALSE, !.deleting = FALSE ])
  /\ UNCHANGED << childVars, oauthVars, caches, queued, pass, used >>

----------------------------------------------------------------------------
(* Informers and event handlers.  A watch delivers the next version of an  *)
(* object: the cache takes it and the handlers decide whether a request is *)
(* queued.                                                                 *)

\* Slip: the secret and config map watches queue nothing.
EnqueueNothing == UNCHANGED << queued, used >>

\* EnqueueAuthPoliciesInNamespace lists the AuthPolicies on the server; when
\* that call fails the event leaves no request behind.
EnqueueAuthPoliciesInNamespace ==
  \/ /\ queued' = (queued \/ policy.present)
     /\ UNCHANGED used
  \/ /\ Spend("listFail")
     /\ UNCHANGED queued

\* For(AuthPolicy) with GenerationChangedPredicate: creation, deletion and a
\* new generation are queued, a change of status or labels is not.
SyncPolicy ==
  /\ epolicy # << >>
  /\ cpolicy' = Head(epolicy)
  /\ epolicy' = Tail(epolicy)
  /\ queued' = \/ queued
               \/ cpolicy.present # cpolicy'.present
               \/ cpolicy.gen # cpolicy'.gen
  /\ UNCHANGED << policy, childVars, oauthVars, cchildren, coauth, pass, used >>

\* Slip: only the new object's owner is queued, so a deleted child has none.
SyncChildNewOwner(k) ==
  /\ echildren[k] # << >>
  /\ cchildren' = [ cchildren EXCEPT ![k] = Head(echildren[k]) ]
  /\ echildren' = [ echildren EXCEPT ![k] = Tail(@) ]
  /\ queued' = (queued \/ Head(echildren[k]).owner >= 1)
  /\ UNCHANGED << policyVars, children, oauthVars, cpolicy, coauth, pass, used >>

\* Owns(...) queues the controlling AuthPolicy of the old and of the new
\* object; the Secret watch queues every AuthPolicy for an unowned secret.
SyncChild(k) ==
  /\ echildren[k] # << >>
  /\ cchildren' = [ cchildren EXCEPT ![k] = Head(echildren[k]) ]
  /\ echildren' = [ echildren EXCEPT ![k] = Tail(@) ]
  /\ IF cchildren[k].owner >= 1 \/ Head(echildren[k]).owner >= 1
     THEN queued' = TRUE /\ UNCHANGED used
     ELSE IF k = "Secret" THEN EnqueueAuthPoliciesInNamespace
     ELSE UNCHANGED << queued, used >>
  /\ UNCHANGED << policyVars, children, oauthVars, cpolicy, coauth, pass >>

SyncOauth ==
  /\ eoauth # << >>
  /\ coauth' = Head(eoauth)
  /\ eoauth' = Tail(eoauth)
  /\ EnqueueAuthPoliciesInNamespace
  /\ UNCHANGED << policyVars, childVars, oauth, cpolicy, cchildren, pass >>

\* A pod of the namespace changes.
PodEvent ==
  /\ Spend("pod")
  /\ queued' = (queued \/ policy.present)
  /\ UNCHANGED << server, caches, pass >>

\* Nothing is under way: no request, no pass, no undelivered event, no
\* garbage.
AtRest ==
  /\ ~queued /\ pass.pc = "idle"
  /\ epolicy = << >> /\ eoauth = << >>
  /\ \A k \in Kinds : echildren[k] = << >> /\ ~IsGarbage(k)
  /\ ~(policy.present /\ policy.deleting)

\* Slip: config maps are not watched.
NoResync == AtRest /\ policy.present /\ UNCHANGED vars

\* The informers resync the namespace's config maps (every namespace has one)
\* at intervals of hours, far longer than anything else takes.
Resync ==
  /\ AtRest /\ policy.present
  /\ queued' = TRUE
  /\ UNCHANGED << server, caches, pass, used >>

----------------------------------------------------------------------------
(* Reconcile.                                                              *)

\* The worker is done with the request; an error queues it again.
EndPass(err) ==
  /\ pass' = IdlePass
  /\ queued' = (queued \/ err)

\* The AuthPolicy is gone or being deleted: nothing is left to the pass.
ReconcileGone ==
  /\ pass.pc = "idle" /\ queued
  /\ ~cpolicy.present \/ cpolicy.deleting
  /\ queued' = FALSE
  /\ UNCHANGED << server, caches, pass, used >>

\* InitializeStatus resets the status of the copy, and the copy is what the
\* final status is compared with.
ReconcileStart ==
  /\ pass.pc = "idle" /\ queued
  /\ cpolicy.present /\ ~cpolicy.deleting
  /\ queued' = FALSE
  /\ pass' = [ IdlePass EXCEPT
                 !.pc = IF cpolicy.labelled THEN "resolve" ELSE "labels",
                 !.uid = cpolicy.uid, !.gen = cpolicy.gen, !.spec = cpolicy.spec,
                 !.cond = cpolicy.status.cond,
                 !.orig = [ phase |-> "Pending", obs |-> cpolicy.gen,
                            cond |-> cpolicy.status.cond ] ]
  /\ UNCHANGED << server, caches, used >>

\* The answer to the patch overwrites originalAuthPolicy, its status included.
PatchLabels ==
  /\ pass.pc = "labels" /\ policy.present
  /\ SetPolicy([ policy EXCEPT !.labelled = TRUE ])
  /\ pass' = [ pass EXCEPT !.pc = "resolve", !.orig = policy.status ]
  /\ UNCHANGED << childVars, oauthVars, caches, queued, used >>

PatchLabelsFails ==
  /\ pass.pc = "labels"
  /\ IF policy.present THEN Spend("apiFail") ELSE UNCHANGED used
  /\ EndPass(TRUE)
  /\ UNCHANGED << server, caches >>

\* The HMAC keys the operator may meet.  A drawn key never repeats, so a new
\* one is the first that is not among them.
HmacsInUse ==
  { children["Secret"].extra, cchildren["Secret"].extra }
    \cup { echildren["Secret"][i].extra : i \in 1..Len(echildren["Secret"]) }

\* Credentials are resolved for auto-login whether or not the policy is
\* enabled.
CredentialsResolve == pass.spec.autoLogin => coauth # 0

ResolveAuthPolicy ==
  /\ pass.pc = "resolve"
  /\ CredentialsResolve
  /\ \E h \in 1..(MaxLag + 2) :
       /\ h \notin HmacsInUse /\ \A g \in 1..(h - 1) : g \in HmacsInUse
       /\ pass' = [ pass EXCEPT !.pc = "get", !.hmac = IF pass.spec.autoLogin THEN h ELSE 0,
                                !.cred = IF pass.spec.autoLogin THEN coauth ELSE 0 ]
  /\ UNCHANGED << server, caches, queued, used >>

\* Slip: Reconcile returns the error without reporting it.
ResolveFailsSilently ==
  /\ pass.pc = "resolve"
  /\ IF CredentialsResolve THEN Spend("apiFail") ELSE UNCHANGED used
  /\ EndPass(TRUE)
  /\ UNCHANGED << server, caches >>

\* The secret is missing, or the discovery document cannot be fetched.
ResolveFails ==
  /\ pass.pc = "resolve"
  /\ IF CredentialsResolve THEN Spend("apiFail") ELSE UNCHANGED used
  /\ pass' = [ pass EXCEPT !.pc = "failStatus" ]
  /\ UNCHANGED << server, caches, queued >>

----------------------------------------------------------------------------
(* One child object: read it, decide, write it.                            *)

Kind == ControllerResources[pass.idx]

Desired(k) == GetDesired(k, pass.spec, pass.uid, pass.cred, pass.hmac)

\* Slip: the loop over the children runs one too far.
AdvanceTooFar(ok, failed) ==
  [ pass EXCEPT !.pc = IF pass.idx = 6 THEN "status" ELSE "get", !.idx = @ + 1,
                !.cur = NoObject, !.ok = @ \cup ok, !.failed = @ \cup failed ]

\* The pass after child k: ok and failed say which descendant it leaves.
Advance(ok, failed) ==
  [ pass EXCEPT !.pc = IF pass.idx = 6 THEN "status" ELSE "get",
                !.idx = IF pass.idx = 6 THEN 6 ELSE @ + 1,
                !.cur = NoObject,
                !.ok = @ \cup ok, !.failed = @ \cup failed ]

ReconcileControllerResource ==
  /\ pass.pc = "get"
  /\ LET current == cchildren[Kind]
         action == DetermineReconcileAction(current, Desired(Kind), pass.uid)
     IN  pass' = CASE action = "none" ->
                        Advance(IF Exists(Desired(Kind)) THEN {Kind} ELSE {}, {})
                   [] action = "notOwned" -> Advance({}, {Kind})
                   [] OTHER -> [ pass EXCEPT !.pc = "write", !.cur = current ]
  /\ UNCHANGED << server, caches, queued, used >>

GetFails ==
  /\ pass.pc = "get"
  /\ Spend("apiFail")
  /\ pass' = Advance({}, {Kind})
  /\ UNCHANGED << server, caches, queued >>

\* Which of the three writes the pass decided on when it read pass.cur.
Action == DetermineReconcileAction(pass.cur, Desired(Kind), pass.uid)

\* Create refuses a name in use; Patch and Delete go by name only.
ServerAccepts ==
  IF Action = "create" THEN ~Exists(children[Kind]) ELSE Exists(children[Kind])

Written ==
  CASE Action = "create" -> Desired(Kind)
    [] Action = "update" ->
         MergePatch(children[Kind], pass.cur, UpdateFields(Kind, pass.cur, Desired(Kind)))
    [] OTHER -> NoObject

WriteChild ==
  /\ pass.pc = "write"
  /\ ServerAccepts
  /\ SetChild(Kind, Written)
  /\ pass' = Advance(IF Action = "delete" THEN {} ELSE {Kind}, {})
  /\ UNCHANGED << policyVars, oauthVars, caches, queued, used >>

\* Refused by the server, or a failing call (which may have taken effect).
WriteFails ==
  /\ pass.pc = "write"
  /\ \/ ~ServerAccepts /\ UNCHANGED << childVars, used >>
     \/ ServerAccepts /\ Spend("apiFail") /\ UNCHANGED childVars
     \/ /\ ServerAccepts /\ Spend("apiFail")
        /\ SetChild(Kind, Written)
  /\ pass' = Advance({}, {Kind})
  /\ UNCHANGED << policyVars, oauthVars, caches, queued >>

----------------------------------------------------------------------------
(* Status.                                                                 *)

WantedKinds == { k \in Kinds : Exists(Desired(k)) }

ReconciliationState ==
  DetermineReconciliationState(pass.spec.validPaths, pass.ok, pass.failed, WantedKinds)

\* Slip: the generation after the one that was reconciled.
ComputedStatusAhead == [ phase |-> ReconciliationState, obs |-> pass.gen + 1,
                         cond |-> ReconciliationState ]

\* Slip: the failing path leaves ObservedGeneration out.
ComputedStatusWithoutGeneration ==
  IF pass.pc = "failStatus"
  THEN [ phase |-> "Failed", obs |-> 0, cond |-> pass.cond ]
  ELSE [ phase |-> ReconciliationState, obs |-> pass.gen, cond |-> ReconciliationState ]

\* Resolution failed: phase and message change, the conditions stay.
ComputedStatus ==
  IF pass.pc = "failStatus"
  THEN [ phase |-> "Failed", obs |-> pass.gen, cond |-> pass.cond ]
  ELSE [ phase |-> ReconciliationState, obs |-> pass.gen, cond |-> ReconciliationState ]

\* Slip: the errors of the children are only logged.
EndReconcileWithoutErrors == EndPass(pass.pc = "failStatus")

\* What Reconcile returns: an error of the status update is only logged,
\* unless resolution failed.
EndReconcile == EndPass(pass.pc = "failStatus" \/ pass.failed # {})

InStatus == pass.pc \in { "status", "failStatus" }

\* The new status equals the one in originalAuthPolicy.  Messages are not
\* modelled, so an update that only changes one may be made all the same.
StatusUnchanged ==
  /\ pass.pc = "status"
  /\ pass.orig = ComputedStatus
  /\ EndReconcile
  /\ UNCHANGED << server, caches, used >>

\* Slip: the conditions are not rebuilt.
UpdateStatusWithoutConditions ==
  /\ InStatus
  /\ cpolicy.present /\ epolicy = << >>
  /\ SetPolicy([ policy EXCEPT !.status = [ ComputedStatus EXCEPT !.cond = policy.status.cond ] ])
  /\ EndReconcile
  /\ UNCHANGED << childVars, oauthVars, caches, used >>

\* The latest AuthPolicy of that name is read from the cache; the server
\* takes its status if the cached version is the current one.
UpdateStatus ==
  /\ InStatus
  /\ cpolicy.present /\ epolicy = << >>
  /\ SetPolicy([ policy EXCEPT !.status = ComputedStatus ])
  /\ EndReconcile
  /\ UNCHANGED << childVars, oauthVars, caches, used >>

\* Slip: no retry.
UpdateStatusGivesUp ==
  /\ InStatus
  /\ cpolicy.present /\ policy.present /\ epolicy # << >>
  /\ EndReconcile
  /\ UNCHANGED << server, caches, used >>

\* RetryOnConflict: each attempt reads the cache again.
UpdateStatusConflict ==
  /\ InStatus
  /\ cpolicy.present /\ policy.present /\ epolicy # << >>
  /\ pass.tries < MaxTries
  /\ pass' = [ pass EXCEPT !.tries = @ + 1 ]
  /\ UNCHANGED << server, caches, queued, used >>

\* The AuthPolicy is gone; or the call, the metrics refresh before it or the
\* last attempt fails, because the cache did not catch up in the meantime.
UpdateStatusFails ==
  /\ InStatus
  /\ IF cpolicy.present /\ policy.present
     THEN Spend("statusFail") /\ (epolicy # << >> => pass.tries = MaxTries)
     ELSE UNCHANGED used
  /\ EndReconcile
  /\ UNCHANGED << server, caches >>

\* Slip: listed objects are not queued after a restart.
CrashForgets ==
  /\ Spend("crash")
  /\ pass' = IdlePass
  /\ cpolicy' = policy /\ cchildren' = children /\ coauth' = oauth
  /\ epolicy' = << >> /\ echildren' = [ k \in Kinds |-> << >> ] /\ eoauth' = << >>
  /\ queued' = FALSE
  /\ UNCHANGED << policy, children, oauth >>

\* The operator restarts: the pass and the queue are lost, the caches are
\* filled from the server, and every listed object counts as created.
Crash ==
  /\ Spend("crash")
  /\ pass' = IdlePass
  /\ cpolicy' = policy /\ cchildren' = children /\ coauth' = oauth
  /\ epolicy' = << >> /\ echildren' = [ k \in Kinds |-> << >> ] /\ eoauth' = << >>
  /\ queued' = (policy.present \/ \E k \in Kinds : children[k].owner >= 1)
  /\ UNCHANGED << policy, children, oauth >>

----------------------------------------------------------------------------
UserStep ==
  \/ EditSpec \/ StripLabels \/ DeletePolicy \/ RecreatePolicy \/ ChangeOauth
  \/ \E k \in Kinds : TamperChild(k) \/ CreateForeign(k) \/ DeleteForeign(k)

CollectStep == CollectPolicy \/ \E k \in Kinds : CollectChild(k)

SyncStep == SyncPolicy \/ SyncOauth \/ \E k \in Kinds : SyncChild(k)

ReconcileStep ==
  \/ ReconcileGone \/ ReconcileStart
  \/ PatchLabels \/ PatchLabelsFails
  \/ ResolveAuthPolicy \/ ResolveFails
  \/ ReconcileControllerResource \/ GetFails
  \/ WriteChild \/ WriteFails
  \/ StatusUnchanged \/ UpdateStatus \/ UpdateStatusConflict \/ UpdateStatusFails

Next == UserStep \/ CollectStep \/ SyncStep \/ PodEvent \/ Resync \/ ReconcileStep \/ Crash

Spec == Init /\ [][Next]_vars

\* The worker, the informers (their resync included) and the collector keep
\* going; users and failures owe nothing.
Fairness ==
  /\ WF_vars(ReconcileStep)
  /\ WF_vars(SyncPolicy) /\ WF_vars(SyncOauth)
  /\ \A k \in Kinds : WF_vars(SyncChild(k)) /\ WF_vars(CollectChild(k))
  /\ WF_vars(CollectPolicy)
  /\ WF_vars(Resync)

FairSpec == Spec /\ Fairness

----------------------------------------------------------------------------
(* Properties.                                                             *)

\* Every variable has its type: what the actions below rely on when they take
\* an object, a pass or a status apart.
TypeOK ==
  /\ policy \in Policy /\ cpolicy \in Policy
  /\ children \in [Kinds -> Object] /\ cchildren \in [Kinds -> Object]
  /\ oauth \in Creds /\ coauth \in Creds
  /\ epolicy \in Seq(Policy) /\ eoauth \in Seq(Creds)
  /\ echildren \in [Kinds -> Seq(Object)]
  /\ queued \in BOOLEAN
  /\ pass \in Pass
  /\ used \in [Disturbances -> Nat]

\* The object at k's name is what policy's spec asks for, HMAC key aside.
Matches(k) ==
  LET want == GetDesired(k, policy.spec, policy.uid,
                         IF policy.spec.autoLogin THEN oauth ELSE 0, 0)
  IN  IF policy.present /\ Exists(want)
      THEN children[k] = [ want EXCEPT !.extra = children[k].extra ]
      ELSE children[k].owner < 1

Converged == \A k \in Kinds : Matches(k)

\* The operator never comes to rest on a difference: whatever was edited,
\* rotated, tampered with, deleted or left half done while a pass was reading
\* stale caches, a system at rest has exactly the children its spec asks for,
\* unless a handler dropped an event (EventuallySettled is about that).
QuiescentMeansConverged == AtRest /\ used["listFail"] = 0 => Converged

\* What a settled AuthPolicy reports: this generation, with the phase its spec
\* earns, in the phase and in the condition.
Reported ==
  policy.present =>
    policy.status = LET phase == IF policy.spec.validPaths THEN "Ready" ELSE "Invalid"
                    IN  [ phase |-> phase, obs |-> policy.gen, cond |-> phase ]

\* A system at rest has told its user so, unless UpdateAuthPolicyStatus lost a
\* status, which it only logs, or a handler dropped an event: EventuallySettled
\* is about those.
QuiescentMeansReported ==
  AtRest /\ used["listFail"] = 0 /\ used["statusFail"] = 0 => Reported

\* ReconcileControllerResource: "Ztoperator only mutates or deletes resources
\* that are controlled by the AuthPolicy in scope."  (Only the worker's own
\* steps change pass.)
OnlyControlledObjectsChange ==
  [][ pass' # pass =>
        \A k \in Kinds : children'[k] # children[k] =>
          ~Exists(children[k]) \/ IsControlledBy(children[k], pass.uid) ]_vars

\* The status never speaks of a generation the AuthPolicy does not have yet,
\* nor goes back to an older one.  (A recreated AuthPolicy may for a while have
\* the status a late pass computed for its predecessor.)
ObservedGenerationValid == used["recreate"] = 0 => policy.status.obs <= policy.gen
ObservedGenerationMonotone ==
  [][ used'["recreate"] = 0 => policy'.status.obs >= policy.status.obs ]_vars

\* Istio lets every request to a workload through unless a policy denies it or
\* an ALLOW policy is there and none matches.  An AuthPolicy's workload is shut
\* to requests nobody allowed while it has its deny-all policy or one of its
\* two ALLOW policies.
Shut ==
  \/ children["DenyPolicy"].owner >= 1 /\ children["DenyPolicy"].body = DenyAll
  \/ children["IgnorePolicy"].owner >= 1
  \/ children["RequirePolicy"].owner >= 1

\* "We deny requests for all paths if the configuration is invalid": taking an
\* invalid AuthPolicy from its ALLOW policies to deny-all, doReconcile never
\* leaves the workload open in between.
InvalidStaysShut ==
  [][ pass' # pass /\ pass.spec.enabled /\ ~pass.spec.validPaths /\ Shut => Shut' ]_vars

\* The operator can do its job: the OAuth secret is there if auto-login needs
\* it, and nobody else's object sits at a name the spec asks for.
CredentialsThere == policy.spec.autoLogin => oauth # 0
NameTaken(k) ==
  children[k].owner = Foreign /\ Exists(GetDesired(k, policy.spec, policy.uid, oauth, 0))
Satisfiable ==
  policy.present => CredentialsThere /\ \A k \in Kinds : ~NameTaken(k)

\* Once disturbances end, the children and the status settle for good, even
\* after lost events, lost status updates and restarts.
EventuallySettled == <>[]Satisfiable => <>[](Converged /\ Reported)

\* A policy whose credentials stay missing ends up reported as Failed.
EventuallyFailed ==
  <>[](policy.present /\ ~policy.deleting /\ ~CredentialsThere)
    => <>[](policy.status.phase = "Failed")
=============================================================================
