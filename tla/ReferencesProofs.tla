-------------------------- MODULE ReferencesProofs --------------------------
(***************************************************************************)
(* NoAudienceDropped and ReferencesCurrent for every set of AuthPolicies,  *)
(* sources, values and specs, any number of changes, restarts and lost     *)
(* events, and any lag.                                                    *)
(***************************************************************************)
EXTENDS References, TLAPS

Content == Value \cup { NoValue }
Events == Seq(Sources \X Content)

\* The server, the watch and the cache hold specs their AuthPolicy had.
SpecsKnown ==
  /\ versions \in [ Names -> SUBSET Specs ]
  /\ specs \in [ Names -> Specs \cup { Gone } ]
  /\ cspecs \in [ Names -> Specs \cup { Gone } ]
  /\ watch \in [ policies : Seq(Names \X Specs), configMaps : Events, secrets : Events ]
  /\ \A n \in Names : specs[n] # Gone => specs[n] \in versions[n]
  /\ \A n \in Names : cspecs[n] # Gone => cspecs[n] \in versions[n]
  /\ \A i \in 1..Len(watch.policies) :
       watch.policies[i][2] \in versions[watch.policies[i][1]]

SourcesTyped ==
  sources \in [ Sources -> Content ] /\ csources \in [ Sources -> Content ]

Passes == [ pc : { "oauth", "audiences", "apply" }, name : Names, spec : Specs,
            oauth : SUBSET Value, got : Seq(Value) ]

\* The pass resolves a version of its AuthPolicy, from the first audience on.
PassSound ==
  \/ pass = Idle
  \/ /\ pass \in Passes
     /\ pass.spec \in versions[pass.name]
     /\ pass.pc # "oauth" => (pass.spec.oauth # {} => pass.oauth # {})
     /\ Len(pass.got) <= Len(pass.spec.audiences)
     /\ \A i \in 1..Len(pass.got) :
          pass.spec.audiences[i] \in Value => pass.got[i] = pass.spec.audiences[i]
     /\ pass.pc = "apply" => Len(pass.got) = Len(pass.spec.audiences)

Applied == [ oauth : SUBSET Value, audiences : Seq(Value) ]

RefInv ==
  /\ SpecsKnown
  /\ SourcesTyped
  /\ PassSound
  /\ applied \in [ Names -> Applied \cup { Gone } ]
  /\ NoAudienceDropped

LEMMA InitSound == RefInit => RefInv
  <1> SUFFICES ASSUME RefInit PROVE RefInv
    OBVIOUS
  <1> USE DEF RefInit
  <1>1. SpecsKnown
    BY DEF SpecsKnown, Events, NoEvents
  <1>2. SourcesTyped
    BY DEF SourcesTyped, Content
  <1>3. PassSound
    BY DEF PassSound
  <1>4. applied \in [ Names -> Applied \cup { Gone } ] /\ NoAudienceDropped
    BY DEF NoAudienceDropped
  <1> QED
    BY <1>1, <1>2, <1>3, <1>4 DEF RefInv

\* A larger history keeps what was made from a version of it.
LEMMA VersionsGrow ==
  ASSUME NoAudienceDropped, UNCHANGED applied,
         \A n \in Names : versions[n] \subseteq versions'[n]
  PROVE  NoAudienceDropped'
  <1> SUFFICES ASSUME NEW n \in Names, applied[n] # Gone
               PROVE  \E s \in versions'[n] :
                        /\ DOMAIN applied[n].audiences = DOMAIN s.audiences
                        /\ \A i \in DOMAIN s.audiences :
                             /\ applied[n].audiences[i] \in Value
                             /\ s.audiences[i] \in Value => applied[n].audiences[i] = s.audiences[i]
                        /\ applied[n].oauth \subseteq Value
                        /\ s.oauth # {} => applied[n].oauth # {}
    BY DEF NoAudienceDropped
  <1> QED
    BY DEF NoAudienceDropped

LEMMA SetSpecSound ==
  ASSUME RefInv, NEW n \in Names, NEW s \in Specs, SetSpec(n, s) PROVE RefInv'
  <1> USE DEF RefInv
  <1>1. \A m \in Names : versions[m] \subseteq versions'[m]
    BY DEF SetSpec, SpecsKnown
  <1>2. SpecsKnown'
    <2>1. /\ versions' \in [ Names -> SUBSET Specs ]
          /\ specs' \in [ Names -> Specs \cup { Gone } ]
          /\ cspecs' \in [ Names -> Specs \cup { Gone } ]
      BY DEF SetSpec, SpecsKnown
    <2>2. watch' = [ watch EXCEPT !.policies = Append(@, << n, s >>) ]
      BY DEF SetSpec
    <2>3. watch' \in [ policies : Seq(Names \X Specs), configMaps : Events, secrets : Events ]
      <3>1. Append(watch.policies, << n, s >>) \in Seq(Names \X Specs)
        BY DEF SpecsKnown
      <3> QED
        BY <2>2, <3>1 DEF SpecsKnown
    <2>4. \A m \in Names : /\ specs'[m] # Gone => specs'[m] \in versions'[m]
                           /\ cspecs'[m] # Gone => cspecs'[m] \in versions'[m]
      BY <1>1 DEF SetSpec, SpecsKnown
    <2>5. ASSUME NEW i \in 1..Len(watch'.policies)
          PROVE  watch'.policies[i][2] \in versions'[watch'.policies[i][1]]
      <3>1. /\ watch.policies \in Seq(Names \X Specs)
            /\ watch'.policies = Append(watch.policies, << n, s >>)
            /\ s \in versions'[n]
        BY <2>2 DEF SpecsKnown, SetSpec
      <3>2. CASE i \in 1..Len(watch.policies)
        <4>1. watch'.policies[i] = watch.policies[i] /\ watch.policies[i] \in Names \X Specs
          BY <3>1, <3>2
        <4> QED
          BY <1>1, <3>2, <4>1 DEF SpecsKnown
      <3>3. CASE i = Len(watch.policies) + 1
        BY <3>1, <3>3
      <3> QED
        BY <3>1, <3>2, <3>3
    <2> QED
      BY <2>1, <2>3, <2>4, <2>5 DEF SpecsKnown
  <1>3. SourcesTyped'
    BY DEF SetSpec, SourcesTyped
  <1>4. PassSound'
    BY <1>1 DEF SetSpec, PassSound, Passes
  <1>5. NoAudienceDropped' /\ applied' \in [ Names -> Applied \cup { Gone } ]
    BY <1>1, VersionsGrow DEF SetSpec
  <1> QED
    BY <1>2, <1>3, <1>4, <1>5

LEMMA SetSourceSound ==
  ASSUME RefInv, NEW s \in Sources, NEW v \in Content, SetSource(s, v) PROVE RefInv'
  <1> USE DEF RefInv
  <1>1. watch' = [ watch EXCEPT ![Informer(s)] = Append(@, << s, v >>) ]
        /\ Informer(s) \in { "configMaps", "secrets" }
    BY DEF SetSource, Informer
  <1>2. /\ watch' \in [ policies : Seq(Names \X Specs), configMaps : Events, secrets : Events ]
        /\ watch'.policies = watch.policies
    <2>1. Append(watch[Informer(s)], << s, v >>) \in Events
      BY <1>1 DEF SpecsKnown, Events
    <2>2. CASE Informer(s) = "configMaps"
      BY <1>1, <2>1, <2>2 DEF SpecsKnown
    <2>3. CASE Informer(s) = "secrets"
      BY <1>1, <2>1, <2>3 DEF SpecsKnown
    <2> QED
      BY <1>1, <2>2, <2>3
  <1>3. SpecsKnown'
    BY <1>2 DEF SpecsKnown, SetSource
  <1>4. SourcesTyped' /\ PassSound'
    BY DEF SetSource, SourcesTyped, PassSound, Content
  <1>5. NoAudienceDropped' /\ applied' \in [ Names -> Applied \cup { Gone } ]
    BY VersionsGrow DEF SetSource
  <1> QED
    BY <1>3, <1>4, <1>5

LEMMA SyncPoliciesSound ==
  ASSUME RefInv, SyncPolicies PROVE RefInv'
  <1> USE DEF RefInv
  <1> DEFINE event == Head(watch.policies)
  <1>1. /\ watch.policies \in Seq(Names \X Specs) /\ watch.policies # << >>
        /\ event = watch.policies[1] /\ 1 \in 1..Len(watch.policies)
        /\ event \in Names \X Specs
    BY DEF SyncPolicies, SpecsKnown
  <1>2. event[1] \in Names /\ event[2] \in Specs /\ event[2] \in versions[event[1]]
    BY <1>1 DEF SpecsKnown
  <1>3. /\ cspecs' = [ cspecs EXCEPT ![event[1]] = event[2] ]
        /\ watch' = [ watch EXCEPT !.policies = Tail(@) ]
        /\ UNCHANGED << specs, sources, versions, csources, pass, applied >>
    BY DEF SyncPolicies, server
  <1>4. SpecsKnown'
    <2>1. watch' \in [ policies : Seq(Names \X Specs), configMaps : Events, secrets : Events ]
      <3>1. Tail(watch.policies) \in Seq(Names \X Specs)
        BY <1>1
      <3> QED
        BY <1>3, <3>1 DEF SpecsKnown
    <2>2. ASSUME NEW i \in 1..Len(watch'.policies)
          PROVE  watch'.policies[i][2] \in versions'[watch'.policies[i][1]]
      <3>1. watch'.policies = Tail(watch.policies)
        BY <1>3 DEF SpecsKnown
      <3>2. i + 1 \in 1..Len(watch.policies) /\ watch'.policies[i] = watch.policies[i + 1]
        BY <1>1, <3>1
      <3> QED
        BY <1>3, <3>2 DEF SpecsKnown
    <2> QED
      BY <1>2, <1>3, <2>1, <2>2 DEF SpecsKnown
  <1>5. SourcesTyped' /\ PassSound'
    BY <1>3 DEF SourcesTyped, PassSound
  <1>6. NoAudienceDropped' /\ applied' \in [ Names -> Applied \cup { Gone } ]
    BY <1>3, VersionsGrow
  <1> QED
    BY <1>4, <1>5, <1>6

LEMMA SyncSourcesSound ==
  ASSUME RefInv, NEW informer \in { "configMaps", "secrets" }, SyncSources(informer)
  PROVE  RefInv'
  <1> USE DEF RefInv
  <1> DEFINE event == Head(watch[informer])
  <1>1. watch[informer] \in Seq(Sources \X Content) /\ watch[informer] # << >>
    BY DEF SyncSources, SpecsKnown, Events
  <1>2. event \in Sources \X Content
    BY <1>1
  <1>3. /\ csources' = [ csources EXCEPT ![event[1]] = event[2] ]
        /\ watch' = [ watch EXCEPT ![informer] = Tail(@) ]
        /\ UNCHANGED << specs, sources, versions, cspecs, pass, applied >>
    BY DEF SyncSources, server
  <1>4. /\ watch' \in [ policies : Seq(Names \X Specs), configMaps : Events, secrets : Events ]
        /\ watch'.policies = watch.policies
    <2>1. Tail(watch[informer]) \in Events
      BY <1>1 DEF Events
    <2>2. CASE informer = "configMaps"
      BY <1>3, <2>1, <2>2 DEF SpecsKnown
    <2>3. CASE informer = "secrets"
      BY <1>3, <2>1, <2>3 DEF SpecsKnown
    <2> QED
      BY <2>2, <2>3
  <1>5. SpecsKnown'
    BY <1>3, <1>4 DEF SpecsKnown
  <1>6. SourcesTyped' /\ PassSound'
    BY <1>2, <1>3 DEF SourcesTyped, PassSound
  <1>7. NoAudienceDropped' /\ applied' \in [ Names -> Applied \cup { Gone } ]
    BY <1>3, VersionsGrow
  <1> QED
    BY <1>5, <1>6, <1>7

\* Steps of the worker before it writes leave all but the pass alone.
LEMMA OnlyPassChanges ==
  ASSUME RefInv, UNCHANGED << server, caches, applied >>, PassSound' PROVE RefInv'
  <1>1. SpecsKnown' /\ SourcesTyped'
    BY DEF RefInv, SpecsKnown, SourcesTyped, server, caches
  <1>2. NoAudienceDropped' /\ applied' \in [ Names -> Applied \cup { Gone } ]
    BY VersionsGrow DEF RefInv, server
  <1> QED
    BY <1>1, <1>2 DEF RefInv

LEMMA ReconcileSound ==
  ASSUME RefInv, NEW n \in Names, Reconcile(n) PROVE RefInv'
  <1>1. UNCHANGED << server, caches, applied >>
    BY DEF Reconcile
  <1>2. CASE cspecs[n] = Gone
    BY <1>1, <1>2, OnlyPassChanges DEF Reconcile, PassSound
  <1>3. CASE cspecs[n] # Gone
    <2>1. pass' = [ pc |-> "oauth", name |-> n, spec |-> cspecs[n], oauth |-> {}, got |-> << >> ]
      BY <1>3 DEF Reconcile
    <2>2. cspecs[n] \in Specs /\ cspecs[n] \in versions'[n] /\ cspecs[n].audiences \in Seq(Value \cup Sources)
      BY <1>1, <1>3, SpecsAssumption DEF RefInv, SpecsKnown, server, PolicySpec
    <2>3. pass' \in Passes
      BY <2>1, <2>2 DEF Passes
    <2>4. Len(pass'.got) = 0 /\ Len(pass'.spec.audiences) \in Nat
      BY <2>1, <2>2
    <2> QED
      BY <1>1, <2>1, <2>2, <2>3, <2>4, OnlyPassChanges DEF PassSound
  <1> QED
    BY <1>2, <1>3

LEMMA ResolveOAuthSound ==
  ASSUME RefInv, ResolveOAuthCredentials PROVE RefInv'
  <1>1. UNCHANGED << server, caches, applied >>
    BY DEF ResolveOAuthCredentials
  <1>2. pass # Idle /\ pass \in Passes /\ pass.pc = "oauth"
    BY DEF ResolveOAuthCredentials, Idle, RefInv, PassSound
  <1> DEFINE found == { csources[s] : s \in pass.spec.oauth }
  <1>3. CASE NoValue \in found
    BY <1>1, <1>3, OnlyPassChanges DEF ResolveOAuthCredentials, ResolveFailed, PassSound
  <1>4. CASE NoValue \notin found
    <2>1. pass' = [ pass EXCEPT !.pc = "audiences", !.oauth = found ]
      BY <1>4 DEF ResolveOAuthCredentials
    <2>2. pass.spec.oauth \subseteq Sources
      BY <1>2, SpecsAssumption DEF Passes, PolicySpec, Sources
    <2>3. found \subseteq Value /\ (pass.spec.oauth # {} => found # {})
      BY <1>4, <2>2 DEF RefInv, SourcesTyped, Content
    <2>4. pass' \in Passes
      BY <1>2, <2>1, <2>3 DEF Passes
    <2>5. PassSound'
      BY <1>1, <1>2, <2>1, <2>3, <2>4 DEF RefInv, PassSound, Passes, server
    <2> QED
      BY <1>1, <2>5, OnlyPassChanges
  <1> QED
    BY <1>3, <1>4

LEMMA ResolveAudiencesSound ==
  ASSUME RefInv, ResolveAudiences PROVE RefInv'
  <1>1. UNCHANGED << server, caches, applied >>
    BY DEF ResolveAudiences
  <1>2. /\ pass # Idle /\ pass \in Passes /\ pass.pc = "audiences"
        /\ pass.got \in Seq(Value) /\ pass.spec.audiences \in Seq(Value \cup Sources)
        /\ Len(pass.got) <= Len(pass.spec.audiences)
    BY SpecsAssumption DEF ResolveAudiences, Idle, RefInv, PassSound, Passes, PolicySpec
  <1>3. CASE Len(pass.got) = Len(pass.spec.audiences)
    <2>1. pass' = [ pass EXCEPT !.pc = "apply" ]
      BY <1>3 DEF ResolveAudiences
    <2>2. PassSound'
      BY <1>1, <1>2, <1>3, <2>1 DEF RefInv, PassSound, Passes, server
    <2> QED
      BY <1>1, <2>2, OnlyPassChanges
  <1>4. CASE Len(pass.got) # Len(pass.spec.audiences)
    <2> DEFINE i == Len(pass.got) + 1
    <2> DEFINE e == pass.spec.audiences[i]
    <2> DEFINE v == resolveAudienceRef(e)
    <2>1. i \in 1..Len(pass.spec.audiences) /\ e \in Value \cup Sources
      BY <1>2, <1>4
    <2>2. v \in Content /\ (e \in Value => v = e)
      BY <2>1, SourcesAssumption DEF RefInv, SourcesTyped, resolveAudienceRef, Content
    <2>3. CASE v = NoValue
      BY <1>1, <1>4, <2>3, OnlyPassChanges DEF ResolveAudiences, ResolveFailed, PassSound
    <2>4. CASE v # NoValue
      <3>1. pass' = [ pass EXCEPT !.got = Append(@, v) ]
        BY <1>4, <2>4 DEF ResolveAudiences
      <3>2. v \in Value
        BY <2>2, <2>4 DEF Content
      <3> HIDE DEF v
      <3>3. pass' \in Passes /\ pass'.got = Append(pass.got, v) /\ pass'.spec = pass.spec
            /\ pass'.name = pass.name /\ pass'.pc = "audiences" /\ pass'.oauth = pass.oauth
        <4>1. Append(pass.got, v) \in Seq(Value)
          BY <1>2, <3>2
        <4> QED
          BY <1>2, <3>1, <4>1 DEF Passes
      <3>4. Len(pass'.got) = i /\ \A j \in 1..Len(pass.got) : pass'.got[j] = pass.got[j]
            /\ pass'.got[i] = v
        BY <1>2, <3>2, <3>3
      <3>5. \A j \in 1..Len(pass'.got) :
              pass'.spec.audiences[j] \in Value => pass'.got[j] = pass'.spec.audiences[j]
        BY <1>2, <2>2, <3>3, <3>4 DEF RefInv, PassSound
      <3>6. PassSound'
        BY <1>1, <1>2, <2>1, <3>3, <3>4, <3>5 DEF RefInv, PassSound, server
      <3> QED
        BY <1>1, <3>6, OnlyPassChanges
    <2> QED
      BY <2>3, <2>4
  <1> QED
    BY <1>3, <1>4

LEMMA ApplySound ==
  ASSUME RefInv, Apply PROVE RefInv'
  <1>1. /\ UNCHANGED << server, caches >>
        /\ pass' = Idle
        /\ applied' = [ applied EXCEPT ![pass.name] = [ oauth |-> pass.oauth, audiences |-> pass.got ] ]
    BY DEF Apply
  <1>2. /\ pass \in Passes /\ pass.pc = "apply" /\ pass.spec \in versions[pass.name]
        /\ pass.got \in Seq(Value) /\ pass.spec.audiences \in Seq(Value \cup Sources)
        /\ Len(pass.got) = Len(pass.spec.audiences)
        /\ pass.oauth \subseteq Value /\ (pass.spec.oauth # {} => pass.oauth # {})
        /\ \A i \in 1..Len(pass.got) :
             pass.spec.audiences[i] \in Value => pass.got[i] = pass.spec.audiences[i]
    BY SpecsAssumption DEF Apply, Idle, RefInv, PassSound, Passes, PolicySpec
  <1>3. SpecsKnown' /\ SourcesTyped' /\ PassSound'
    BY <1>1 DEF RefInv, SpecsKnown, SourcesTyped, PassSound, server, caches
  <1>4. applied' \in [ Names -> Applied \cup { Gone } ]
    BY <1>1, <1>2 DEF RefInv, Applied, Passes
  <1>5. ASSUME NEW n \in Names, applied'[n] # Gone
        PROVE  \E s \in versions'[n] :
                 /\ DOMAIN applied'[n].audiences = DOMAIN s.audiences
                 /\ \A i \in DOMAIN s.audiences :
                      /\ applied'[n].audiences[i] \in Value
                      /\ s.audiences[i] \in Value => applied'[n].audiences[i] = s.audiences[i]
                 /\ applied'[n].oauth \subseteq Value
                 /\ s.oauth # {} => applied'[n].oauth # {}
    <2>1. CASE n = pass.name
      <3>1. /\ applied'[n].audiences = pass.got /\ applied'[n].oauth = pass.oauth
            /\ pass.spec \in versions'[n]
        BY <1>1, <1>2, <2>1 DEF RefInv, server
      <3>2. DOMAIN pass.got = 1..Len(pass.got) /\ DOMAIN pass.spec.audiences = 1..Len(pass.got)
        BY <1>2
      <3> QED
        BY <1>2, <3>1, <3>2
    <2>2. CASE n # pass.name
      <3>1. applied'[n] = applied[n] /\ versions'[n] = versions[n]
        BY <1>1, <2>2 DEF RefInv, server
      <3> QED
        BY <1>5, <3>1 DEF RefInv, NoAudienceDropped
    <2> QED
      BY <2>1, <2>2
  <1>6. NoAudienceDropped'
    BY <1>5 DEF NoAudienceDropped
  <1> QED
    BY <1>3, <1>4, <1>6 DEF RefInv

LEMMA CrashSound ==
  ASSUME RefInv, Crash PROVE RefInv'
  <1>1. /\ cspecs' = specs /\ csources' = sources /\ pass' = Idle
        /\ watch' = NoEvents
        /\ UNCHANGED << specs, sources, versions, applied >>
    BY DEF Crash, server
  <1>2. /\ watch' \in [ policies : Seq(Names \X Specs), configMaps : Events, secrets : Events ]
        /\ watch'.policies = << >>
    BY <1>1 DEF NoEvents, Events
  <1>3. SpecsKnown'
    BY <1>1, <1>2 DEF RefInv, SpecsKnown
  <1>4. SourcesTyped' /\ PassSound'
    BY <1>1 DEF RefInv, SourcesTyped, PassSound
  <1>5. NoAudienceDropped' /\ applied' \in [ Names -> Applied \cup { Gone } ]
    BY <1>1, VersionsGrow DEF RefInv
  <1> QED
    BY <1>3, <1>4, <1>5 DEF RefInv

LEMMA NextSound == RefInv /\ [RefNext]_vars => RefInv'
  <1> SUFFICES ASSUME RefInv, [RefNext]_vars PROVE RefInv'
    OBVIOUS
  <1>1. CASE UserStep
    BY <1>1, SetSpecSound, SetSourceSound DEF UserStep, Content
  <1>2. CASE WorkerStep
    BY <1>2, ReconcileSound, ResolveOAuthSound, ResolveAudiencesSound, ApplySound DEF WorkerStep
  <1>3. CASE SyncPolicies
    BY <1>3, SyncPoliciesSound
  <1>4. CASE \E informer \in { "configMaps", "secrets" } : SyncSources(informer)
    BY <1>4, SyncSourcesSound
  <1>5. CASE Crash
    BY <1>5, CrashSound
  <1>6. CASE Resync
    <2>1. UNCHANGED << server, caches, pass, applied >>
      BY <1>6 DEF Resync
    <2> QED
      BY <2>1, OnlyPassChanges DEF RefInv, PassSound, server
  <1>7. CASE UNCHANGED vars
    BY <1>7, OnlyPassChanges DEF vars, RefInv, PassSound, server, caches
  <1> QED
    BY <1>1, <1>2, <1>3, <1>4, <1>5, <1>6, <1>7 DEF RefNext

\* ResolveAudiences never shortens the list of audiences, and
\* ResolveOAuthCredentials never leaves the credentials out, for any number
\* of AuthPolicies and sources and whatever changes between two reads of a
\* pass.
THEOREM AudiencesComplete == RefSpec => []NoAudienceDropped
  <1>1. RefInv => NoAudienceDropped
    BY DEF RefInv
  <1> QED
    BY <1>1, InitSound, NextSound, PTL DEF RefSpec

----------------------------------------------------------------------------
(* ReferencesCurrent.  A pass may read an AuthPolicy, a config map and a   *)
(* secret from caches of different ages; what makes up for it is that      *)
(* whatever was newer than what the pass read is an event that has yet to  *)
(* be delivered, or has left a request.                                    *)

\* What the watch and the cache know last of k is what is there now.
Follows(events, k, cached, now) ==
  \/ cached = now /\ \A i \in 1..Len(events) : events[i][1] # k
  \/ \E i \in 1..Len(events) :
       events[i] = << k, now >> /\ \A j \in (i + 1)..Len(events) : events[j][1] # k

Watched ==
  /\ \A n \in Names : Follows(watch.policies, n, cspecs[n], specs[n])
  /\ \A s \in Sources : Follows(watch[Informer(s)], s, csources[s], sources[s])
  /\ \A informer \in { "configMaps", "secrets" } : \A i \in 1..Len(watch[informer]) :
       Informer(watch[informer][i][1]) = informer

SpecComing(n) == \E i \in 1..Len(watch.policies) : watch.policies[i][1] = n
SourceComing == watch.configMaps # << >> \/ watch.secrets # << >>

\* n is queued, or an event is on its way that will queue it.
Waking(n) == n \in queued \/ SpecComing(n) \/ SourceComing

Resolved(e) == IF e \in Sources THEN sources[e] ELSE e

\* All that the pass has read is still so.
PassCurrent(n) ==
  /\ pass.spec = specs[n]
  /\ pass.pc # "oauth" => pass.oauth = { sources[s] : s \in pass.spec.oauth }
  /\ \A i \in 1..Len(pass.got) : pass.got[i] = Resolved(pass.spec.audiences[i])

\* The children of n are current, or will be.
SeenTo(n) ==
  specs[n] # Gone /\ spent.lost = 0 =>
    \/ Waking(n)
    \/ IF pass # Idle /\ pass.name = n THEN PassCurrent(n) ELSE applied[n] = Current(n)

Counted == spent \in [ changes : Nat, lost : Nat, crashes : Nat ]

CurInv == Counted /\ Watched /\ \A n \in Names : SeenTo(n)

LEMMA FollowsAppend ==
  ASSUME NEW K, NEW V, NEW events \in Seq(K \X V), NEW k \in K, NEW v \in V, NEW cached
  PROVE  /\ Follows(Append(events, << k, v >>), k, cached, v)
         /\ \A m, old, now : m # k /\ Follows(events, m, old, now) =>
              Follows(Append(events, << k, v >>), m, old, now)
  <1> DEFINE new == Append(events, << k, v >>)
  <1>1. /\ Len(new) = Len(events) + 1 /\ Len(events) \in Nat
        /\ \A i \in 1..Len(events) : new[i] = events[i]
        /\ new[Len(events) + 1] = << k, v >>
    OBVIOUS
  <1> HIDE DEF new
  <1>2. Follows(new, k, cached, v)
    <2>1. Len(new) \in 1..Len(new) /\ \A j \in (Len(new) + 1)..Len(new) : FALSE
      BY <1>1
    <2> QED
      BY <1>1, <2>1 DEF Follows
  <1>3. ASSUME NEW m, NEW old, NEW now, m # k, Follows(events, m, old, now)
        PROVE  Follows(new, m, old, now)
    <2>1. new[Len(new)][1] # m
      BY <1>1, <1>3
    <2>2. CASE old = now /\ \A i \in 1..Len(events) : events[i][1] # m
      <3>1. \A i \in 1..Len(new) : new[i][1] # m
        BY <1>1, <2>1, <2>2
      <3> QED
        BY <2>2, <3>1 DEF Follows
    <2>3. CASE \E i \in 1..Len(events) :
                 events[i] = << m, now >> /\ \A j \in (i + 1)..Len(events) : events[j][1] # m
      <3>1. PICK i \in 1..Len(events) :
              events[i] = << m, now >> /\ \A j \in (i + 1)..Len(events) : events[j][1] # m
        BY <2>3
      <3>2. i \in 1..Len(new) /\ new[i] = << m, now >>
        BY <1>1, <3>1
      <3>3. ASSUME NEW j \in (i + 1)..Len(new) PROVE new[j][1] # m
        <4>0. Len(new) = Len(events) + 1 /\ Len(events) \in Nat
          BY <1>1
        <4>1. j = Len(new) \/ (j \in (i + 1)..Len(events) /\ j \in 1..Len(events))
          BY <4>0
        <4> QED
          BY <1>1, <2>1, <3>1, <4>1
      <3> QED
        BY <3>2, <3>3 DEF Follows
    <2> QED
      BY <1>3, <2>2, <2>3 DEF Follows
  <1> QED
    BY <1>2, <1>3 DEF new

LEMMA FollowsTail ==
  ASSUME NEW K, NEW V, NEW events \in Seq(K \X V), events # << >>, NEW k, NEW cached, NEW now,
         Follows(events, k, cached, now)
  PROVE  Follows(Tail(events), k, IF Head(events)[1] = k THEN Head(events)[2] ELSE cached, now)
  <1> DEFINE rest == Tail(events)
             next == IF Head(events)[1] = k THEN Head(events)[2] ELSE cached
  <1>1. /\ Len(events) \in Nat /\ Len(events) >= 1
        /\ Len(rest) = Len(events) - 1 /\ Head(events) = events[1]
        /\ \A i \in 1..Len(rest) : rest[i] = events[i + 1]
    OBVIOUS
  <1> HIDE DEF rest
  <1>4. \A i \in 1..Len(rest) : i + 1 \in 1..Len(events) /\ rest[i] = events[i + 1]
    BY <1>1
  <1>2. CASE cached = now /\ \A i \in 1..Len(events) : events[i][1] # k
    <2>1. next = now
      BY <1>1, <1>2
    <2>2. \A i \in 1..Len(rest) : rest[i][1] # k
      BY <1>2, <1>4
    <2> QED
      BY <2>1, <2>2 DEF Follows, rest
  <1>3. CASE \E i \in 1..Len(events) :
               events[i] = << k, now >> /\ \A j \in (i + 1)..Len(events) : events[j][1] # k
    <2>1. PICK i \in 1..Len(events) :
            events[i] = << k, now >> /\ \A j \in (i + 1)..Len(events) : events[j][1] # k
      BY <1>3
    <2>2. CASE i = 1
      <3>1. next = now
        BY <1>1, <2>1, <2>2
      <3>2. \A j \in 1..Len(rest) : rest[j][1] # k
        BY <1>1, <2>1, <2>2
      <3> QED
        BY <3>1, <3>2 DEF Follows, rest
    <2>3. CASE i # 1
      <3>0. i - 1 \in 1..Len(rest) /\ (i - 1) + 1 = i
        BY <1>1, <2>3
      <3>1. rest[i - 1] = << k, now >>
        BY <1>4, <2>1, <3>0
      <3>2. ASSUME NEW j \in ((i - 1) + 1)..Len(rest) PROVE rest[j][1] # k
        <4>1. j \in 1..Len(rest) /\ j + 1 \in (i + 1)..Len(events)
          BY <1>1, <2>3
        <4> QED
          BY <1>4, <2>1, <4>1
      <3> QED
        BY <3>0, <3>1, <3>2 DEF Follows, rest
    <2> QED
      BY <2>2, <2>3
  <1> QED
    BY <1>2, <1>3 DEF Follows

\* Without events a cache holds what is there.
LEMMA QuietCaches ==
  ASSUME RefInv, Watched
  PROVE  /\ \A n \in Names : ~SpecComing(n) => cspecs[n] = specs[n]
         /\ ~SourceComing => csources = sources
  <1>1. ASSUME NEW n \in Names, ~SpecComing(n) PROVE cspecs[n] = specs[n]
    <2>1. Follows(watch.policies, n, cspecs[n], specs[n])
      BY DEF Watched
    <2>2. \A i \in 1..Len(watch.policies) : watch.policies[i] # << n, specs[n] >>
      BY <1>1 DEF SpecComing
    <2> QED
      BY <2>1, <2>2 DEF Follows
  <1>2. ASSUME ~SourceComing PROVE csources = sources
    <2>1. ASSUME NEW s \in Sources PROVE csources[s] = sources[s]
      <3>1. Informer(s) \in { "configMaps", "secrets" } /\ watch[Informer(s)] = << >>
        BY <1>2 DEF SourceComing, Informer
      <3>2. Len(watch[Informer(s)]) = 0
        BY <3>1
      <3>3. Follows(watch[Informer(s)], s, csources[s], sources[s])
        BY DEF Watched
      <3> QED
        BY <3>2, <3>3 DEF Follows
    <2> QED
      BY <2>1 DEF RefInv, SourcesTyped
  <1> QED
    BY <1>1, <1>2

LEMMA WatchedStep ==
  ASSUME RefInv, Watched, [RefNext]_vars
  PROVE  Watched'
  <1>0. /\ watch \in [ policies : Seq(Names \X Specs), configMaps : Events, secrets : Events ]
        /\ specs \in [ Names -> Specs \cup { Gone } ] /\ cspecs \in [ Names -> Specs \cup { Gone } ]
        /\ sources \in [ Sources -> Content ] /\ csources \in [ Sources -> Content ]
        /\ watch.policies \in Seq(Names \X Specs)
    BY DEF RefInv, SpecsKnown, SourcesTyped
  <1> DEFINE Informers == { "configMaps", "secrets" }
  <1>8. \A informer \in Informers : watch[informer] \in Seq(Sources \X Content)
    BY <1>0 DEF Events
  <1>1. CASE UNCHANGED << watch, specs, cspecs, sources, csources >>
    BY <1>1 DEF Watched
  <1>2. ASSUME NEW n \in Names, NEW s \in Specs, SetSpec(n, s)
        PROVE  Watched'
    <2>1. /\ watch'.policies = Append(watch.policies, << n, s >>)
          /\ \A informer \in Informers : watch'[informer] = watch[informer]
          /\ specs' = [ specs EXCEPT ![n] = s ] /\ UNCHANGED << cspecs, sources, csources >>
      BY <1>0, <1>2 DEF SetSpec
    <2>2. ASSUME NEW m \in Names PROVE Follows(watch'.policies, m, cspecs'[m], specs'[m])
      <3>1. CASE m = n
        <4>1. Follows(Append(watch.policies, << n, s >>), n, cspecs[n], s)
          BY <1>0, FollowsAppend
        <4> QED
          BY <1>0, <2>1, <3>1, <4>1
      <3>2. CASE m # n
        <4>1. Follows(watch.policies, m, cspecs[m], specs[m])
          BY DEF Watched
        <4>2. Follows(Append(watch.policies, << n, s >>), m, cspecs[m], specs[m])
          BY <1>0, <3>2, <4>1, FollowsAppend
        <4> QED
          BY <1>0, <2>1, <3>2, <4>2
      <3> QED
        BY <3>1, <3>2
    <2>3. \A x \in Sources : Informer(x) \in Informers
      BY DEF Informer
    <2> QED
      BY <2>1, <2>2, <2>3 DEF Watched, Informer
  <1>3. ASSUME NEW s \in Sources, NEW v \in Content, SetSource(s, v)
        PROVE  Watched'
    <2> DEFINE inf == Informer(s)
    <2>0. inf \in Informers /\ \A x \in Sources : Informer(x) \in Informers
      BY DEF Informer
    <2>1. /\ watch' = [ watch EXCEPT ![inf] = Append(@, << s, v >>) ]
          /\ sources' = [ sources EXCEPT ![s] = v ] /\ UNCHANGED << cspecs, specs, csources >>
      BY <1>3 DEF SetSource
    <2> HIDE DEF inf
    <2>2. /\ watch'.policies = watch.policies
          /\ watch'[inf] = Append(watch[inf], << s, v >>)
          /\ \A other \in Informers \ { inf } : watch'[other] = watch[other]
      BY <1>0, <2>0, <2>1
    <2>3. ASSUME NEW x \in Sources
          PROVE  Follows(watch'[Informer(x)], x, csources'[x], sources'[x])
      <3>0. Follows(watch[Informer(x)], x, csources[x], sources[x])
        BY DEF Watched
      <3>1. CASE x = s
        <4>1. Follows(Append(watch[inf], << s, v >>), s, csources[s], v)
          BY <1>8, <2>0, FollowsAppend
        <4> QED
          BY <1>0, <2>1, <2>2, <3>1, <4>1 DEF inf
      <3>2. CASE x # s /\ Informer(x) = inf
        <4>1. Follows(Append(watch[inf], << s, v >>), x, csources[x], sources[x])
          BY <1>8, <2>0, <3>0, <3>2, FollowsAppend
        <4> QED
          BY <1>0, <2>1, <2>2, <3>2, <4>1
      <3>3. CASE Informer(x) # inf
        <4>1. x # s
          BY <3>3 DEF inf
        <4> QED
          BY <1>0, <2>0, <2>1, <2>2, <3>0, <3>3, <4>1
      <3> QED
        BY <3>1, <3>2, <3>3
    <2>4. ASSUME NEW informer \in Informers, NEW i \in 1..Len(watch'[informer])
          PROVE  Informer(watch'[informer][i][1]) = informer
      <3>1. CASE informer # inf
        BY <2>2, <2>4, <3>1 DEF Watched
      <3>2. CASE informer = inf /\ i \in 1..Len(watch[inf])
        <4>1. watch'[inf][i] = watch[inf][i]
          BY <1>8, <2>0, <2>2, <3>2
        <4> QED
          BY <3>2, <4>1 DEF Watched
      <3>3. CASE informer = inf /\ i = Len(watch[inf]) + 1
        <4>1. watch'[inf][i] = << s, v >>
          BY <1>8, <2>0, <2>2, <3>3
        <4> QED
          BY <3>3, <4>1 DEF inf
      <3> QED
        BY <1>8, <2>0, <2>2, <3>1, <3>2, <3>3
    <2> QED
      BY <2>1, <2>2, <2>3, <2>4 DEF Watched, Informer
  <1>4. CASE SyncPolicies
    <2> DEFINE event == Head(watch.policies)
    <2>1. /\ watch.policies # << >> /\ watch'.policies = Tail(watch.policies)
          /\ \A informer \in Informers : watch'[informer] = watch[informer]
          /\ cspecs' = [ cspecs EXCEPT ![event[1]] = event[2] ]
          /\ UNCHANGED << specs, sources, csources >>
      BY <1>0, <1>4 DEF SyncPolicies, server
    <2>2. ASSUME NEW m \in Names PROVE Follows(watch'.policies, m, cspecs'[m], specs'[m])
      <3>1. Follows(watch.policies, m, cspecs[m], specs[m])
        BY DEF Watched
      <3>2. Follows(Tail(watch.policies), m, IF event[1] = m THEN event[2] ELSE cspecs[m], specs[m])
        BY <1>0, <2>1, <3>1, FollowsTail
      <3>3. cspecs'[m] = IF event[1] = m THEN event[2] ELSE cspecs[m]
        BY <1>0, <2>1
      <3> QED
        BY <2>1, <3>2, <3>3
    <2>3. \A x \in Sources : Informer(x) \in Informers
      BY DEF Informer
    <2> QED
      BY <2>1, <2>2, <2>3 DEF Watched, Informer
  <1>5. ASSUME NEW inf \in Informers, SyncSources(inf)
        PROVE  Watched'
    <2> DEFINE event == Head(watch[inf])
    <2>0. \A x \in Sources : Informer(x) \in Informers
      BY DEF Informer
    <2>1. /\ watch[inf] # << >>
          /\ watch' = [ watch EXCEPT ![inf] = Tail(@) ]
          /\ csources' = [ csources EXCEPT ![event[1]] = event[2] ]
          /\ UNCHANGED << specs, sources, cspecs >>
      BY <1>5 DEF SyncSources, server
    <2>2. /\ watch'.policies = watch.policies
          /\ watch'[inf] = Tail(watch[inf])
          /\ \A other \in Informers \ { inf } : watch'[other] = watch[other]
      BY <1>0, <2>1
    <2>3. Informer(event[1]) = inf
      <3>1. event = watch[inf][1] /\ 1 \in 1..Len(watch[inf])
        BY <1>8, <2>1
      <3> QED
        BY <3>1 DEF Watched
    <2>4. ASSUME NEW x \in Sources
          PROVE  Follows(watch'[Informer(x)], x, csources'[x], sources'[x])
      <3>0. Follows(watch[Informer(x)], x, csources[x], sources[x])
        BY DEF Watched
      <3>1. csources'[x] = IF event[1] = x THEN event[2] ELSE csources[x]
        BY <1>0, <2>1
      <3>2. CASE Informer(x) = inf
        <4>1. Follows(Tail(watch[inf]), x, IF event[1] = x THEN event[2] ELSE csources[x], sources[x])
          BY <1>8, <2>1, <3>0, <3>2, FollowsTail
        <4> QED
          BY <2>1, <2>2, <3>1, <3>2, <4>1
      <3>3. CASE Informer(x) # inf
        <4>1. event[1] # x
          BY <2>3, <3>3
        <4> QED
          BY <2>0, <2>1, <2>2, <3>0, <3>1, <3>3, <4>1
      <3> QED
        BY <3>2, <3>3
    <2>5. ASSUME NEW informer \in Informers, NEW i \in 1..Len(watch'[informer])
          PROVE  Informer(watch'[informer][i][1]) = informer
      <3>1. CASE informer # inf
        BY <2>2, <2>5, <3>1 DEF Watched
      <3>2. CASE informer = inf
        <4>1. \A w \in Seq(Sources \X Content) : w # << >> =>
                \A j \in 1..Len(Tail(w)) : j + 1 \in 1..Len(w) /\ Tail(w)[j] = w[j + 1]
          OBVIOUS
        <4>2. i + 1 \in 1..Len(watch[inf]) /\ watch'[inf][i] = watch[inf][i + 1]
          <5>1. watch[inf] \in Seq(Sources \X Content) /\ watch[inf] # << >>
            BY <1>8, <2>1
          <5>2. watch'[inf] = Tail(watch[inf]) /\ i \in 1..Len(Tail(watch[inf]))
            BY <2>2, <3>2
          <5> QED
            BY <4>1, <5>1, <5>2
        <4> QED
          BY <3>2, <4>2 DEF Watched
      <3> QED
        BY <3>1, <3>2
    <2> QED
      BY <2>1, <2>2, <2>4, <2>5 DEF Watched, Informer
  <1>6. CASE Crash
    <2>1. /\ cspecs' = specs' /\ csources' = sources'
          /\ Len(watch'.policies) = 0 /\ Len(watch'.configMaps) = 0 /\ Len(watch'.secrets) = 0
      BY <1>6 DEF Crash, server, NoEvents
    <2> QED
      BY <2>1 DEF Watched, Follows, Informer
  <1>7. CASE WorkerStep \/ Resync \/ UNCHANGED vars
    BY <1>1, <1>7 DEF WorkerStep, Reconcile, ResolveOAuthCredentials, ResolveAudiences, Apply,
                      Resync, vars, server, caches
  <1> QED
    BY <1>2, <1>3, <1>4, <1>5, <1>6, <1>7 DEF RefNext, UserStep, Content

\* What is not disturbed stays as it is.
LEMMA SeenToSame ==
  ASSUME NEW n \in Names, SeenTo(n), UNCHANGED << sources, pass >>,
         specs'[n] = specs[n], applied'[n] = applied[n],
         spent'.lost = 0 => spent.lost = 0, Waking(n) => Waking(n)'
  PROVE  SeenTo(n)'
  <1>1. Current(n)' = Current(n)
    BY DEF Current
  <1>2. PassCurrent(n) => PassCurrent(n)'
    BY DEF PassCurrent, Resolved
  <1> QED
    BY <1>1, <1>2 DEF SeenTo

\* So does an AuthPolicy that the pass is not about.
LEMMA SeenToOther ==
  ASSUME NEW n \in Names, SeenTo(n), UNCHANGED << sources, spent >>,
         specs'[n] = specs[n], applied'[n] = applied[n],
         pass = Idle \/ pass.name # n, pass' = Idle \/ pass'.name # n,
         Waking(n) => Waking(n)'
  PROVE  SeenTo(n)'
  <1>1. Current(n)' = Current(n)
    BY DEF Current
  <1> QED
    BY <1>1 DEF SeenTo

LEMMA SeenToUser ==
  ASSUME RefInv, CurInv, UserStep, NEW n \in Names
  PROVE  SeenTo(n)'
  <1>0. /\ watch \in [ policies : Seq(Names \X Specs), configMaps : Events, secrets : Events ]
        /\ specs \in [ Names -> Specs \cup { Gone } ] /\ SeenTo(n) /\ Counted
    BY DEF RefInv, SpecsKnown, CurInv
  <1>1. ASSUME NEW m \in Names, NEW s \in Specs, SetSpec(m, s)
        PROVE  SeenTo(n)'
    <2>1. /\ watch'.policies = Append(watch.policies, << m, s >>)
          /\ watch'.configMaps = watch.configMaps /\ watch'.secrets = watch.secrets
          /\ specs' = [ specs EXCEPT ![m] = s ]
          /\ UNCHANGED << sources, queued, pass, applied >>
          /\ watch.policies \in Seq(Names \X Specs)
      BY <1>0, <1>1 DEF SetSpec
    <2>2. /\ Len(watch'.policies) = Len(watch.policies) + 1 /\ Len(watch.policies) \in Nat
          /\ \A i \in 1..Len(watch.policies) : watch'.policies[i] = watch.policies[i]
          /\ watch'.policies[Len(watch.policies) + 1] = << m, s >>
      BY <2>1
    <2>3. CASE m = n
      <3>1. Len(watch.policies) + 1 \in 1..Len(watch'.policies)
        BY <2>2
      <3>2. SpecComing(n)'
        BY <2>2, <2>3, <3>1 DEF SpecComing
      <3> QED
        BY <3>2 DEF SeenTo, Waking
    <2>4. CASE m # n
      <3>1. \A i \in 1..Len(watch.policies) : i \in 1..Len(watch'.policies)
        BY <2>2
      <3>2. SpecComing(n) => SpecComing(n)'
        BY <2>2, <3>1 DEF SpecComing
      <3>3. Waking(n) => Waking(n)'
        BY <2>1, <3>2 DEF Waking, SourceComing
      <3>4. spent'.lost = spent.lost
        BY <1>0, <1>1 DEF SetSpec, Spend, Counted
      <3> QED
        BY <1>0, <2>1, <2>4, <3>3, <3>4, SeenToSame
    <2> QED
      BY <2>3, <2>4
  <1>2. ASSUME NEW s \in Sources, NEW v \in Content, SetSource(s, v)
        PROVE  SeenTo(n)'
    <2>1. /\ watch' = [ watch EXCEPT ![Informer(s)] = Append(@, << s, v >>) ]
          /\ Informer(s) \in { "configMaps", "secrets" }
      BY <1>2 DEF SetSource, Informer
    <2>2. watch[Informer(s)] \in Seq(Sources \X Content)
      BY <1>0, <2>1 DEF Events
    <2>3. watch'[Informer(s)] = Append(watch[Informer(s)], << s, v >>)
      BY <1>0, <2>1
    <2>4. watch'[Informer(s)] # << >>
      BY <2>2, <2>3
    <2> QED
      BY <2>1, <2>4 DEF SeenTo, Waking, SourceComing
  <1> QED
    BY <1>1, <1>2 DEF UserStep, Content

LEMMA SeenToSync ==
  ASSUME RefInv, CurInv, NEW n \in Names,
         SyncPolicies \/ \E informer \in { "configMaps", "secrets" } : SyncSources(informer)
  PROVE  SeenTo(n)'
  <1>0. /\ watch \in [ policies : Seq(Names \X Specs), configMaps : Events, secrets : Events ]
        /\ SeenTo(n) /\ Counted
    BY DEF RefInv, SpecsKnown, CurInv
  <1>1. CASE SyncPolicies
    <2>1. /\ watch.policies \in Seq(Names \X Specs) /\ watch.policies # << >>
          /\ watch'.policies = Tail(watch.policies)
          /\ watch'.configMaps = watch.configMaps /\ watch'.secrets = watch.secrets
          /\ queued' = queued \cup { Head(watch.policies)[1] }
          /\ UNCHANGED << specs, sources, pass, applied, spent >>
      BY <1>0, <1>1 DEF SyncPolicies, server
    <2>2. /\ Head(watch.policies) = watch.policies[1]
          /\ \A i \in 1..Len(watch.policies) : i # 1 =>
               i - 1 \in 1..Len(watch'.policies) /\ watch'.policies[i - 1] = watch.policies[i]
      BY <2>1
    <2>3. SpecComing(n) => SpecComing(n)' \/ n \in queued'
      BY <2>1, <2>2 DEF SpecComing
    <2>4. Waking(n) => Waking(n)'
      BY <2>1, <2>3 DEF Waking, SourceComing
    <2> QED
      BY <1>0, <2>1, <2>4, SeenToSame
  <1>2. ASSUME NEW informer \in { "configMaps", "secrets" }, SyncSources(informer)
        PROVE  SeenTo(n)'
    <2> SUFFICES ASSUME specs'[n] # Gone, spent'.lost = 0 PROVE n \in queued'
      BY DEF SeenTo, Waking
    <2>1. ~Spend("lost", MaxLost)
      <3>1. spent.lost \in Nat /\ (Spend("lost", MaxLost) => spent'.lost = spent.lost + 1)
        BY <1>0 DEF Spend, Counted
      <3> QED
        BY <3>1
    <2>2. n \in Present
      BY <1>2 DEF SyncSources, server, Present
    <2> QED
      BY <1>2, <2>1, <2>2 DEF SyncSources, EventHandler, EnqueueAuthPoliciesInNamespace
  <1> QED
    BY <1>1, <1>2

LEMMA SeenToReconcile ==
  ASSUME RefInv, CurInv, NEW n \in Names, NEW m \in Names, Reconcile(m)
  PROVE  SeenTo(n)'
  <1>0. /\ UNCHANGED << specs, sources, watch, applied, spent >> /\ SeenTo(n)
        /\ queued' = queued \ { m } /\ pass = Idle
    BY DEF Reconcile, server, caches, CurInv
  <1>1. CASE m # n
    <2>1. pass' = Idle \/ pass'.name = m
      BY DEF Reconcile
    <2>2. Waking(n) => Waking(n)'
      BY <1>0, <1>1 DEF Waking, SpecComing, SourceComing
    <2> QED
      BY <1>0, <1>1, <2>1, <2>2, SeenToOther
  <1>2. CASE m = n
    <2>1. SpecComing(n)' <=> SpecComing(n)
      BY <1>0 DEF SpecComing
    <2> SUFFICES ASSUME specs[n] # Gone, ~SpecComing(n) PROVE SeenTo(n)'
      BY <1>0, <2>1 DEF SeenTo, Waking
    <2>2. cspecs[n] = specs[n]
      BY QuietCaches DEF CurInv
    <2>3. pass' = [ pc |-> "oauth", name |-> n, spec |-> specs[n], oauth |-> {}, got |-> << >> ]
      BY <1>2, <2>2 DEF Reconcile
    <2>4. pass' # Idle /\ pass'.name = n
      BY <2>3 DEF Idle
    <2>5. PassCurrent(n)'
      <3>1. pass'.spec = specs'[n] /\ pass'.pc = "oauth" /\ Len(pass'.got) = 0
        BY <1>0, <2>3
      <3> QED
        BY <3>1 DEF PassCurrent
    <2> QED
      BY <2>4, <2>5 DEF SeenTo
  <1> QED
    BY <1>1, <1>2

\* One read of the pass.
LEMMA SeenToResolve ==
  ASSUME RefInv, CurInv, NEW n \in Names, ResolveOAuthCredentials \/ ResolveAudiences
  PROVE  SeenTo(n)'
  <1>0. /\ UNCHANGED << specs, sources, watch, cspecs, csources, applied, spent >> /\ SeenTo(n)
        /\ pass # Idle /\ pass \in Passes /\ PassSound
    BY DEF ResolveOAuthCredentials, ResolveAudiences, server, caches, CurInv, RefInv, PassSound, Idle
  <1>1. CASE ResolveFailed
    <2>1. Waking(n) => Waking(n)'
      BY <1>0, <1>1 DEF ResolveFailed, Waking, SpecComing, SourceComing
    <2>2. CASE pass.name = n
      BY <1>1, <2>2 DEF ResolveFailed, SeenTo, Waking
    <2>3. CASE pass.name # n
      BY <1>0, <1>1, <2>1, <2>3, SeenToOther DEF ResolveFailed
    <2> QED
      BY <2>2, <2>3
  <1>2. ASSUME UNCHANGED queued, pass' # Idle, pass'.name = pass.name,
               pass.name = n /\ csources = sources /\ PassCurrent(n) => PassCurrent(n)'
        PROVE  SeenTo(n)'
    <2>1. Waking(n)' <=> Waking(n)
      BY <1>0, <1>2 DEF Waking, SpecComing, SourceComing
    <2>2. CASE pass.name # n
      BY <1>0, <1>2, <2>1, <2>2, SeenToOther
    <2>3. CASE pass.name = n
      <3> SUFFICES ASSUME specs[n] # Gone, spent.lost = 0, ~Waking(n) PROVE PassCurrent(n)'
        BY <1>0, <1>2, <2>1, <2>3 DEF SeenTo
      <3>1. csources = sources
        BY QuietCaches DEF CurInv, Waking
      <3>2. PassCurrent(n)
        BY <1>0, <2>3 DEF SeenTo
      <3> QED
        BY <1>2, <2>3, <3>1, <3>2
    <2> QED
      BY <2>2, <2>3
  <1>3. CASE ResolveOAuthCredentials /\ ~ResolveFailed
    <2> DEFINE found == { csources[s] : s \in pass.spec.oauth }
    <2>1. pass' = [ pass EXCEPT !.pc = "audiences", !.oauth = found ] /\ UNCHANGED queued
      BY <1>3 DEF ResolveOAuthCredentials
    <2>2. /\ pass'.name = pass.name /\ pass'.spec = pass.spec /\ pass'.got = pass.got
          /\ pass'.oauth = found /\ pass'.pc = "audiences"
      BY <1>0, <2>1 DEF Passes
    <2>3. pass' # Idle
      BY <2>2 DEF Idle
    <2>4. pass.name = n /\ csources = sources /\ PassCurrent(n) => PassCurrent(n)'
      BY <1>0, <2>2 DEF PassCurrent, Resolved
    <2> QED
      BY <1>2, <2>1, <2>2, <2>3, <2>4
  <1>4. CASE ResolveAudiences /\ ~ResolveFailed
    <2>0. pass.got \in Seq(Value)
      BY <1>0 DEF Passes
    <2>1. CASE Len(pass.got) = Len(pass.spec.audiences)
      <3>1. pass' = [ pass EXCEPT !.pc = "apply" ] /\ UNCHANGED queued /\ pass.pc = "audiences"
        BY <1>4, <2>1 DEF ResolveAudiences
      <3>2. /\ pass'.name = pass.name /\ pass'.spec = pass.spec /\ pass'.got = pass.got
            /\ pass'.oauth = pass.oauth /\ pass'.pc = "apply"
        BY <1>0, <3>1 DEF Passes
      <3>3. pass' # Idle
        BY <3>2 DEF Idle
      <3>4. pass.name = n /\ csources = sources /\ PassCurrent(n) => PassCurrent(n)'
        BY <1>0, <3>1, <3>2 DEF PassCurrent, Resolved
      <3> QED
        BY <1>2, <3>1, <3>2, <3>3, <3>4
    <2>2. CASE Len(pass.got) # Len(pass.spec.audiences)
      <3> DEFINE e == pass.spec.audiences[Len(pass.got) + 1]
                 v == resolveAudienceRef(e)
      <3>1. pass' = [ pass EXCEPT !.got = Append(@, v) ] /\ UNCHANGED queued /\ pass.pc = "audiences"
        BY <1>4, <2>2 DEF ResolveAudiences
      <3>2. csources = sources => v = Resolved(e)
        BY DEF resolveAudienceRef, Resolved
      <3> HIDE DEF v
      <3>3. /\ pass'.name = pass.name /\ pass'.spec = pass.spec /\ pass'.got = Append(pass.got, v)
            /\ pass'.oauth = pass.oauth /\ pass'.pc = "audiences"
        BY <1>0, <3>1 DEF Passes
      <3>4. pass' # Idle
        BY <3>3 DEF Idle
      <3>5. /\ Len(pass.got) \in Nat /\ Len(pass'.got) = Len(pass.got) + 1
            /\ \A i \in 1..Len(pass.got) : pass'.got[i] = pass.got[i]
            /\ pass'.got[Len(pass.got) + 1] = v
        BY <2>0, <3>3
      <3>6. ASSUME pass.name = n, csources = sources, PassCurrent(n)
            PROVE  PassCurrent(n)'
        <4>1. ASSUME NEW i \in 1..Len(pass'.got)
              PROVE  pass'.got[i] = Resolved(pass.spec.audiences[i])
          <5>1. i \in 1..Len(pass.got) \/ i = Len(pass.got) + 1
            BY <3>5
          <5> QED
            BY <3>2, <3>5, <3>6, <5>1 DEF PassCurrent
        <4> QED
          BY <1>0, <3>1, <3>3, <3>6, <4>1 DEF PassCurrent, Resolved
      <3> QED
        BY <1>2, <3>1, <3>3, <3>4, <3>6
    <2> QED
      BY <2>1, <2>2
  <1> QED
    BY <1>1, <1>3, <1>4

LEMMA SeenToApply ==
  ASSUME RefInv, CurInv, NEW n \in Names, Apply
  PROVE  SeenTo(n)'
  <1>0. /\ UNCHANGED << specs, sources, watch, queued, spent >> /\ SeenTo(n)
        /\ pass # Idle /\ pass \in Passes /\ PassSound /\ pass.pc = "apply" /\ pass' = Idle
        /\ applied' = [ applied EXCEPT ![pass.name] = [ oauth |-> pass.oauth, audiences |-> pass.got ] ]
        /\ applied \in [ Names -> Applied \cup { Gone } ]
    BY DEF Apply, server, caches, CurInv, RefInv, PassSound, Idle
  <1>1. Waking(n)' <=> Waking(n)
    BY <1>0 DEF Waking, SpecComing, SourceComing
  <1>2. CASE pass.name # n
    BY <1>0, <1>1, <1>2, SeenToOther
  <1>3. CASE pass.name = n
    <2> SUFFICES ASSUME specs[n] # Gone, spent.lost = 0, ~Waking(n) PROVE applied'[n] = Current(n)'
      BY <1>0, <1>1 DEF SeenTo
    <2>1. PassCurrent(n)
      BY <1>0, <1>3 DEF SeenTo
    <2>2. pass.got \in Seq(Value) /\ Len(pass.got) = Len(specs[n].audiences)
          /\ specs[n].audiences \in Seq(Value \cup Sources)
      BY <1>0, <2>1, SpecsAssumption DEF PassSound, PassCurrent, Passes, PolicySpec
    <2>3. pass.got = [ i \in DOMAIN specs[n].audiences |-> Resolved(specs[n].audiences[i]) ]
      <3>1. DOMAIN specs[n].audiences = 1..Len(pass.got) /\ DOMAIN pass.got = 1..Len(pass.got)
        BY <2>2
      <3>2. \A i \in 1..Len(pass.got) : pass.got[i] = Resolved(specs[n].audiences[i])
        BY <2>1 DEF PassCurrent
      <3>3. pass.got = [ i \in 1..Len(pass.got) |-> pass.got[i] ]
        BY <2>2
      <3> QED
        BY <3>1, <3>2, <3>3
    <2>4. pass.oauth = { sources[s] : s \in specs[n].oauth }
      BY <1>0, <2>1 DEF PassCurrent
    <2>5. Current(n) = [ oauth |-> pass.oauth, audiences |-> pass.got ]
      BY <2>3, <2>4 DEF Current, Resolved
    <2>6. Current(n)' = Current(n)
      BY <1>0 DEF Current
    <2> QED
      BY <1>0, <1>3, <2>5, <2>6
  <1> QED
    BY <1>2, <1>3

LEMMA CurInvStep ==
  ASSUME RefInv, CurInv, [RefNext]_vars
  PROVE  CurInv'
  <1>1. Watched'
    BY WatchedStep DEF CurInv
  <1>2. Counted'
    BY DEF CurInv, Counted, RefNext, UserStep, WorkerStep, SetSpec, SetSource, SyncPolicies,
           SyncSources, EventHandler, Reconcile, ResolveOAuthCredentials, ResolveAudiences, Apply,
           Crash, Resync, Spend, vars
  <1>3. ASSUME NEW n \in Names PROVE SeenTo(n)'
    <2>1. CASE UNCHANGED vars
      <3>1. SeenTo(n) /\ (Waking(n) => Waking(n)')
        BY <2>1 DEF vars, CurInv, Waking, SpecComing, SourceComing
      <3> QED
        BY <2>1, <3>1, SeenToSame DEF vars
    <2>2. CASE Resync
      <3>1. SeenTo(n) /\ (Waking(n) => Waking(n)')
        BY <2>2 DEF Resync, caches, CurInv, Waking, SpecComing, SourceComing
      <3> QED
        BY <2>2, <3>1, SeenToSame DEF Resync, server
    <2>3. CASE Crash
      <3>1. specs'[n] # Gone => n \in queued'
        BY <2>3 DEF Crash, server, Present
      <3> QED
        BY <3>1 DEF SeenTo, Waking
    <2>4. CASE WorkerStep
      BY <2>4, SeenToReconcile, SeenToResolve, SeenToApply DEF WorkerStep
    <2> QED
      BY <2>1, <2>2, <2>3, <2>4, SeenToUser, SeenToSync DEF RefNext
  <1> QED
    BY <1>1, <1>2, <1>3 DEF CurInv

\* However the informers of AuthPolicies, config maps and secrets get ahead of
\* each other, for any number of them: as long as no handler loses an event,
\* the children of every AuthPolicy are made from the current values of all it
\* refers to once nothing is under way.
THEOREM RestIsCurrent == RefSpec => []ReferencesCurrent
  <1>1. RefInit => CurInv
    <2> SUFFICES ASSUME RefInit PROVE CurInv
      OBVIOUS
    <2>1. /\ Len(watch.policies) = 0 /\ Len(watch.configMaps) = 0 /\ Len(watch.secrets) = 0
          /\ cspecs = specs /\ csources = sources
      BY DEF RefInit, NoEvents
    <2>2. Watched
      BY <2>1 DEF Watched, Follows, Informer
    <2>3. Counted /\ \A n \in Names : SeenTo(n)
      BY DEF RefInit, Counted, SeenTo
    <2> QED
      BY <2>2, <2>3 DEF CurInv
  <1>2. RefInv /\ CurInv => ReferencesCurrent
    <2> SUFFICES ASSUME RefInv, CurInv, AtRest, spent.lost = 0, NEW n \in Present
                 PROVE  applied[n] = Current(n)
      BY DEF ReferencesCurrent
    <2>1. n \in Names /\ specs[n] # Gone
      BY DEF Present
    <2>2. ~Waking(n)
      <3>1. /\ Len(watch.policies) = 0 /\ watch.configMaps = << >> /\ watch.secrets = << >>
            /\ queued = {}
        BY DEF AtRest, NoEvents
      <3> QED
        BY <3>1 DEF Waking, SpecComing, SourceComing
    <2> QED
      BY <2>1, <2>2 DEF CurInv, SeenTo, AtRest
  <1>3. RefInv /\ CurInv /\ [RefNext]_vars => RefInv' /\ CurInv'
    BY NextSound, CurInvStep
  <1> QED
    BY <1>1, <1>2, <1>3, InitSound, PTL DEF RefSpec
=============================================================================
