----------------------------- MODULE References -----------------------------
(***************************************************************************)
(* AuthPolicies that take audiences and OAuth credentials from config maps *)
(* and secrets of their namespace (internal/resolver).  Any change of such *)
(* an object has to reach every AuthPolicy that refers to it: the event    *)
(* handlers (internal/eventhandler) list the AuthPolicies of the namespace *)
(* and queue them all, and each pass resolves every reference again, one   *)
(* read of a cache after the other.                                        *)
(*                                                                         *)
(* The children of an AuthPolicy are what they were resolved from;         *)
(* Controller has the details of writing them, and the deletions.          *)
(***************************************************************************)
EXTENDS Integers, Sequences

CONSTANTS
  Names,       \* names of AuthPolicies
  ConfigMaps, Secrets,
  Value,       \* audiences, and contents of secrets
  NoValue,     \* no such object, or nothing at the key
  Specs,       \* what AuthPolicies refer to
  Gone,        \* no AuthPolicy of that name
  MaxChanges,  \* changes of AuthPolicies and sources
  MaxLost,     \* events that are dropped
  MaxCrashes,  \* restarts
  MaxLag       \* versions an informer may be behind

Sources == ConfigMaps \cup Secrets

\* The schema admits one way to give an audience: a value or a reference.
\* oauth: the secret with the credentials, if auto-login needs one.
PolicySpec == [ oauth : SUBSET Secrets, audiences : Seq(Value \cup Sources) ]

ASSUME SpecsAssumption == Specs \subseteq PolicySpec /\ Gone \notin PolicySpec
ASSUME SourcesAssumption ==
  ConfigMaps \cap Secrets = {} /\ Value \cap Sources = {}
ASSUME ValueAssumption == NoValue \notin Value
ASSUME BoundsAssumption ==
  { MaxChanges, MaxLost, MaxCrashes } \subseteq Nat /\ MaxLag \in Nat \ {0}

VARIABLES
  specs, sources,     \* on the API server
  watch,              \* versions the three informers have yet to deliver
  cspecs, csources,   \* in the caches
  queued, pass,       \* the work queue and the pass of the worker
  applied,            \* what the children of each AuthPolicy were made from
  versions,           \* history: the specs each AuthPolicy had
  spent

vars == << specs, sources, watch, cspecs, csources, queued, pass, applied, versions, spent >>
server == << specs, sources, versions >>
caches == << watch, cspecs, csources >>

NoEvents == [ policies |-> << >>, configMaps |-> << >>, secrets |-> << >> ]
Idle == [ pc |-> "idle" ]

RefInit ==
  /\ specs = [ n \in Names |-> Gone ]
  /\ sources \in [ Sources -> Value \cup { NoValue } ]
  /\ watch = NoEvents
  /\ cspecs = specs /\ csources = sources
  /\ queued = {}
  /\ pass = Idle
  /\ applied = [ n \in Names |-> Gone ]
  /\ versions = [ n \in Names |-> {} ]
  /\ spent = [ changes |-> 0, lost |-> 0, crashes |-> 0 ]

Spend(what, bound) ==
  spent[what] < bound /\ spent' = [ spent EXCEPT ![what] = @ + 1 ]

----------------------------------------------------------------------------
(* The API server and its watches.                                         *)

\* A user creates or edits an AuthPolicy.
SetSpec(n, s) ==
  /\ Spend("changes", MaxChanges)
  /\ s # specs[n] /\ Len(watch.policies) < MaxLag
  /\ specs' = [ specs EXCEPT ![n] = s ]
  /\ versions' = [ versions EXCEPT ![n] = @ \cup { s } ]
  /\ watch' = [ watch EXCEPT !.policies = Append(@, << n, s >>) ]
  /\ UNCHANGED << sources, cspecs, csources, queued, pass, applied >>

Informer(s) == IF s \in ConfigMaps THEN "configMaps" ELSE "secrets"

\* Somebody creates, changes or deletes a config map or a secret.
SetSource(s, v) ==
  /\ Spend("changes", MaxChanges)
  /\ v # sources[s] /\ Len(watch[Informer(s)]) < MaxLag
  /\ sources' = [ sources EXCEPT ![s] = v ]
  /\ watch' = [ watch EXCEPT ![Informer(s)] = Append(@, << s, v >>) ]
  /\ UNCHANGED << specs, versions, cspecs, csources, queued, pass, applied >>

SyncPolicies ==
  /\ watch.policies # << >>
  /\ LET n == Head(watch.policies)[1]
     IN  /\ cspecs' = [ cspecs EXCEPT ![n] = Head(watch.policies)[2] ]
         /\ queued' = queued \cup { n }
  /\ watch' = [ watch EXCEPT !.policies = Tail(@) ]
  /\ UNCHANGED << server, csources, pass, applied, spent >>

Present == { n \in Names : specs[n] # Gone }

\* Slip: only the AuthPolicies with an audience from the object.
EnqueueReferring(s) ==
  { n \in Names : /\ cspecs[n] # Gone
                  /\ \E i \in DOMAIN cspecs[n].audiences : cspecs[n].audiences[i] = s }

\* EnqueueAuthPoliciesInNamespace: an unstructured list, so the API server is
\* asked and not the cache.
EnqueueAuthPoliciesInNamespace(s) == Present

\* The handlers of secrets and config maps.  An event is lost when the list
\* fails, or when an AuthPolicy is among the object's owners without being its
\* controller: the handler leaves it to Owns, which looks at the controller.
EventHandler(s) ==
  \/ /\ queued' = queued \cup EnqueueAuthPoliciesInNamespace(s)
     /\ UNCHANGED spent
  \/ /\ Spend("lost", MaxLost)
     /\ UNCHANGED queued

SyncSources(informer) ==
  /\ watch[informer] # << >>
  /\ LET event == Head(watch[informer])
     IN  /\ csources' = [ csources EXCEPT ![event[1]] = event[2] ]
         /\ EventHandler(event[1])
  /\ watch' = [ watch EXCEPT ![informer] = Tail(@) ]
  /\ UNCHANGED << server, cspecs, pass, applied >>

----------------------------------------------------------------------------
(* The worker.                                                             *)

\* An AuthPolicy that is not in the cache counts as deleted.
Reconcile(n) ==
  /\ pass = Idle /\ n \in queued
  /\ queued' = queued \ { n }
  /\ pass' = IF cspecs[n] = Gone THEN Idle
             ELSE [ pc |-> "oauth", name |-> n, spec |-> cspecs[n], oauth |-> {}, got |-> << >> ]
  /\ UNCHANGED << server, caches, applied, spent >>

\* Resolution failed: the status says so and the request comes back; the
\* children stay as they are.
ResolveFailed == pass' = Idle /\ queued' = queued \cup { pass.name }

ResolveOAuthCredentials ==
  /\ pass.pc = "oauth"
  /\ LET found == { csources[s] : s \in pass.spec.oauth }
     IN  IF NoValue \in found THEN ResolveFailed
         ELSE /\ pass' = [ pass EXCEPT !.pc = "audiences", !.oauth = found ]
              /\ UNCHANGED queued
  /\ UNCHANGED << server, caches, applied, spent >>

resolveAudienceRef(e) == IF e \in Sources THEN csources[e] ELSE e

\* Slip: an audience that cannot be resolved is left out.
ResolveAudiencesSkipsMissing ==
  /\ pass.pc = "audiences"
  /\ pass' = [ pass EXCEPT !.pc = "apply",
       !.got = SelectSeq([ i \in DOMAIN pass.spec.audiences |->
                             resolveAudienceRef(pass.spec.audiences[i]) ],
                         LAMBDA v : v # NoValue) ]
  /\ UNCHANGED << server, caches, queued, applied, spent >>

\* The next audience, until there is none left.
ResolveAudiences ==
  /\ pass.pc = "audiences"
  /\ IF Len(pass.got) = Len(pass.spec.audiences)
     THEN pass' = [ pass EXCEPT !.pc = "apply" ] /\ UNCHANGED queued
     ELSE LET v == resolveAudienceRef(pass.spec.audiences[Len(pass.got) + 1])
          IN  IF v = NoValue THEN ResolveFailed
              ELSE pass' = [ pass EXCEPT !.got = Append(@, v) ] /\ UNCHANGED queued
  /\ UNCHANGED << server, caches, applied, spent >>

\* The children are written.
Apply ==
  /\ pass.pc = "apply"
  /\ applied' = [ applied EXCEPT
       ![pass.name] = [ oauth |-> pass.oauth, audiences |-> pass.got ] ]
  /\ pass' = Idle
  /\ UNCHANGED << server, caches, queued, spent >>

\* A restart lists everything anew.
Crash ==
  /\ Spend("crashes", MaxCrashes)
  /\ cspecs' = specs /\ csources' = sources
  /\ watch' = NoEvents
  /\ queued' = Present
  /\ pass' = Idle
  /\ UNCHANGED << server, applied >>

\* Nothing is under way.
AtRest == queued = {} /\ pass = Idle /\ watch = NoEvents

\* Slip: a predicate drops events of unchanged objects.
ResyncFiltered == UNCHANGED vars

\* The informers' resync delivers every config map again; every namespace has
\* one without an owner (kube-root-ca.crt).
Resync ==
  /\ queued' = queued \cup Present
  /\ UNCHANGED << server, caches, pass, applied, spent >>

----------------------------------------------------------------------------
UserStep ==
  \/ \E n \in Names, s \in Specs : SetSpec(n, s)
  \/ \E s \in Sources, v \in Value \cup { NoValue } : SetSource(s, v)

WorkerStep ==
  \/ \E n \in Names : Reconcile(n)
  \/ ResolveOAuthCredentials \/ ResolveAudiences \/ Apply

RefNext ==
  \/ UserStep \/ WorkerStep \/ SyncPolicies
  \/ \E informer \in { "configMaps", "secrets" } : SyncSources(informer)
  \/ Crash \/ Resync

RefSpec == RefInit /\ [][RefNext]_vars

\* The worker takes every request in turn (the queue is first in, first out),
\* and the informers go on.  The resync comes again and again.
FairRefSpec ==
  /\ RefSpec
  /\ WF_vars(ResolveOAuthCredentials \/ ResolveAudiences \/ Apply)
  /\ \A n \in Names : SF_vars(Reconcile(n))
  /\ WF_vars(SyncPolicies)
  /\ \A informer \in { "configMaps", "secrets" } : WF_vars(SyncSources(informer))
  /\ WF_vars(Resync)

----------------------------------------------------------------------------
(* Properties.                                                             *)

\* What the children of an AuthPolicy should be made from now.
Current(n) ==
  IF specs[n] = Gone THEN Gone
  ELSE [ oauth |-> { sources[s] : s \in specs[n].oauth },
         audiences |-> [ i \in DOMAIN specs[n].audiences |->
                           LET e == specs[n].audiences[i]
                           IN  IF e \in Sources THEN sources[e] ELSE e ] ]

Resolvable(n) ==
  specs[n] # Gone =>
    /\ NoValue \notin Current(n).oauth
    /\ \A i \in DOMAIN Current(n).audiences : Current(n).audiences[i] # NoValue

\* event_handler.go lets every change of a config map or secret reach the
\* AuthPolicies that refer to it: the system never rests on audiences or
\* credentials that are not the current ones, however the informers of
\* AuthPolicies, config maps and secrets get ahead of each other and whatever
\* changes between two reads of a pass, unless a handler lost an event.
ReferencesCurrent ==
  AtRest /\ spent.lost = 0 => \A n \in Present : applied[n] = Current(n)

\* ConstructAcceptedResources asks for no audience where the list is empty,
\* so a reference that cannot be read must never shorten the list: children
\* are made from as many audiences as some version of the AuthPolicy names,
\* the fixed ones as they are, and from credentials if it asks for them.
NoAudienceDropped ==
  \A n \in Names : applied[n] # Gone =>
    \E s \in versions[n] :
      /\ DOMAIN applied[n].audiences = DOMAIN s.audiences
      /\ \A i \in DOMAIN s.audiences :
           /\ applied[n].audiences[i] \in Value
           /\ s.audiences[i] \in Value => applied[n].audiences[i] = s.audiences[i]
      /\ applied[n].oauth \subseteq Value /\ (s.oauth # {} => applied[n].oauth # {})

\* A lost event does not come back, but the resync makes up for it: once
\* all references of an AuthPolicy can be read for good, its children are
\* made from the current values, whatever the other AuthPolicies refer to.
EventuallyCurrent ==
  \A n \in Names : <>[]Resolvable(n) => <>[](applied[n] = Current(n))
=============================================================================
