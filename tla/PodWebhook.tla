----------------------------- MODULE PodWebhook -----------------------------
(***************************************************************************)
(* The admission of pods (internal/webhook/v1): a pod that asks to be      *)
(* verified is let in if its application has one AuthPolicy, which is      *)
(* ready, and, with auto-login, if it mounts that AuthPolicy's Envoy       *)
(* secret (pkg/validation/pod_annotation_validation.go).                   *)
(*                                                                         *)
(* The webhook reads the namespace and the AuthPolicies from the manager's *)
(* caches, one after the other, while users and the reconciler change both *)
(* on the API server.  Whoever wants a pod tries again when it is refused. *)
(***************************************************************************)
EXTENDS Integers, Sequences

CONSTANTS
  Names,       \* names of AuthPolicies; also of their Envoy secrets
  Applications,
  Pods,        \* the pods somebody wants
  MaxChanges,  \* changes of AuthPolicies
  MaxFailures, \* failing reads and unavailable webhooks
  MaxLag       \* versions a cache may be behind

ASSUME BoundsAssumption == { MaxChanges, MaxFailures } \subseteq Nat /\ MaxLag \in Nat \ {0}

ConfigDir == "/etc/istio/config"   \* IstioCredentialsDirectory

\* An AuthPolicy as the webhook reads it.
AuthPolicy == [ app : Applications, autoLogin : BOOLEAN, ready : BOOLEAN ]
None == [ app |-> "-", autoLogin |-> FALSE, ready |-> FALSE ]

\* volumes and mounts are the two annotations of Istio: a set of at most one
\* list, as a set of pairs (volume, secret) or (volume, path); none where the
\* annotation is missing or not JSON.
Pod == [ app : Applications \cup {"-"},   \* "-": no label of an application
         verify : BOOLEAN,                \* the annotation asks for it
         volumes : SUBSET SUBSET (STRING \X STRING),
         mounts : SUBSET SUBSET (STRING \X STRING) ]

ASSUME PodsAssumption == \A p \in Pods : p \in Pod

VARIABLES
  namespace, enamespace, cnamespace,   \* "absent", "plain" or "managed": on the
                                       \* server, on its way, in the cache
  policies, epolicies, cpolicies,      \* the AuthPolicies, likewise
  versions,    \* every version of the AuthPolicies there was
  review,      \* the review under way: the pod and what is left to do
  admitted,    \* how each pod was let in, "no" if it was not
  changes, failures

nsVars == << namespace, enamespace, cnamespace >>
apVars == << policies, epolicies, cpolicies, versions >>
wvars == << nsVars, apVars, review, admitted, changes, failures >>

Idle == [ step |-> "idle" ]
Reviewing(pod, step) == [ step |-> step, pod |-> pod ]

WInit ==
  /\ namespace = "absent" /\ cnamespace = "absent" /\ enamespace = << >>
  /\ policies = [ n \in Names |-> None ] /\ cpolicies = policies /\ epolicies = << >>
  /\ versions = { policies }
  /\ review = Idle
  /\ admitted = [ p \in Pods |-> "no" ]
  /\ changes = 0 /\ failures = 0

Fails == failures < MaxFailures /\ failures' = failures + 1

----------------------------------------------------------------------------
(* The API server.                                                         *)

\* A namespace is created, and gets its label then or later.
ChangeNamespace ==
  /\ Len(enamespace) < MaxLag
  /\ \E ns \in { "plain", "managed" } :
       /\ namespace # "managed" /\ ns # namespace
       /\ namespace' = ns
       /\ enamespace' = Append(enamespace, ns)
  /\ UNCHANGED << cnamespace, apVars, review, admitted, changes, failures >>

\* An AuthPolicy is created, edited or deleted, or the reconciler reports on
\* it; a namespace comes first.
ChangePolicy(n) ==
  /\ namespace # "absent"
  /\ changes < MaxChanges /\ changes' = changes + 1
  /\ Len(epolicies) < MaxLag
  /\ \E p \in AuthPolicy \cup { None } :
       /\ p # policies[n]
       /\ policies[n] = None => ~p.ready
       /\ policies' = [ policies EXCEPT ![n] = p ]
  /\ epolicies' = Append(epolicies, policies')
  /\ versions' = versions \cup { policies' }
  /\ UNCHANGED << nsVars, cpolicies, review, admitted, failures >>

SyncNamespace ==
  /\ enamespace # << >>
  /\ cnamespace' = Head(enamespace) /\ enamespace' = Tail(enamespace)
  /\ UNCHANGED << namespace, apVars, review, admitted, changes, failures >>

SyncPolicies ==
  /\ epolicies # << >>
  /\ cpolicies' = Head(epolicies) /\ epolicies' = Tail(epolicies)
  /\ UNCHANGED << nsVars, policies, versions, review, admitted, changes, failures >>

\* namespaceSelector and matchConditions; any other pod is not reviewed.  A
\* webhook that cannot be reached refuses (failurePolicy).
CreatePod(pod) ==
  /\ review = Idle /\ admitted[pod] = "no"
  /\ namespace # "absent"
  /\ IF namespace = "managed" /\ pod.app # "-"
     THEN /\ UNCHANGED admitted
          /\ \/ review' = Reviewing(pod, "eligible") /\ UNCHANGED failures
             \/ Fails /\ UNCHANGED review
     ELSE admitted' = [ admitted EXCEPT ![pod] = "unreviewed" ] /\ UNCHANGED << review, failures >>
  /\ UNCHANGED << nsVars, apVars, changes >>

\* ValidateDelete refuses nothing.
DeletePod(pod) ==
  /\ admitted[pod] # "no"
  /\ admitted' = [ admitted EXCEPT ![pod] = "no" ]
  /\ UNCHANGED << nsVars, apVars, review, changes, failures >>

----------------------------------------------------------------------------
(* validatePod.                                                            *)

Admit(how) == admitted' = [ admitted EXCEPT ![review.pod] = how ] /\ review' = Idle
Refuse == review' = Idle /\ UNCHANGED admitted

\* IsWebhookEligible: a namespace that is not found, or cannot be read, makes
\* the pod not eligible, and it is let in.
IsWebhookEligible ==
  /\ review.step = "eligible"
  /\ \/ /\ IF cnamespace = "managed"
           THEN /\ review' = Reviewing(review.pod, "policy")
                /\ UNCHANGED admitted
           ELSE Admit("not eligible")
        /\ UNCHANGED failures
     \/ Fails /\ Admit("not eligible")
  /\ UNCHANGED << nsVars, apVars, changes >>

\* validateSecretVolumeMount: some volume mounted there holds the secret.
MountsSecret(pod, name) ==
  \E vs \in pod.volumes, ms \in pod.mounts :
    \E v \in vs, m \in ms : m[2] = ConfigDir /\ v[1] = m[1] /\ v[2] = name

\* Slip: the secret is asked for without auto-login too.
MountAlwaysRequired(pod, p, name) == MountsSecret(pod, name)

ValidatePodAnnotations(pod, p, name) == p.autoLogin => MountsSecret(pod, name)

\* Slip: only ready AuthPolicies are counted.
SingleReady(list, app) == { n \in Names : list[n].app = app /\ list[n].ready }

\* GetAuthPolicyForApplication, as a set of at most one.
AuthPolicyForApplication(list, app) ==
  { n \in Names : /\ list[n].app = app /\ list[n].ready
                  /\ \A m \in Names : list[m].app = app => m = n }

\* A pod that does not ask for verification has no AuthPolicy to agree with.
Verify ==
  /\ review.step = "policy"
  /\ LET pod == review.pod
         found == AuthPolicyForApplication(cpolicies, pod.app)
     IN  IF \/ ~pod.verify
            \/ \E n \in found : ValidatePodAnnotations(pod, cpolicies[n], n)
         THEN Admit("reviewed") ELSE Refuse
  /\ UNCHANGED << nsVars, apVars, changes, failures >>

\* Listing the AuthPolicies fails.
VerifyFails ==
  /\ review.step = "policy" /\ review.pod.verify
  /\ Fails /\ Refuse
  /\ UNCHANGED << nsVars, apVars, changes >>

ReviewStep == IsWebhookEligible \/ Verify \/ VerifyFails

WNext ==
  \/ ChangeNamespace \/ SyncNamespace \/ SyncPolicies
  \/ \E n \in Names : ChangePolicy(n)
  \/ \E pod \in Pods : CreatePod(pod) \/ DeletePod(pod)
  \/ ReviewStep

WSpec == WInit /\ [][WNext]_wvars

\* Informers and reviews go on, and every pod is tried again and again.
FairWSpec ==
  /\ WSpec
  /\ WF_wvars(SyncNamespace) /\ WF_wvars(SyncPolicies) /\ WF_wvars(ReviewStep)
  /\ \A pod \in Pods : SF_wvars(CreatePod(pod))

----------------------------------------------------------------------------
(* Properties.                                                             *)

\* What a pod has to meet, said of one version of the AuthPolicies.
MeetsPolicy(pod, list) ==
  \E n \in Names :
    /\ list[n].app = pod.app /\ list[n].ready
    /\ \A m \in Names \ { n } : list[m].app # pod.app
    /\ list[n].autoLogin => MountsSecret(pod, n)

\* "Fetches the single ready AuthPolicy for the given application": the caches
\* lag, but a pod that was verified met its AuthPolicy at some moment; no mix
\* of two versions lets a pod in.
VerifiedMetSomeVersion ==
  \A pod \in Pods :
    admitted[pod] = "reviewed" /\ pod.verify => \E list \in versions : MeetsPolicy(pod, list)

\* A pod whose AuthPolicy stays single, ready and met gets in, whatever was
\* refused before.
MeetingPodGetsIn ==
  \A pod \in Pods :
    <>[](namespace # "absent" /\ MeetsPolicy(pod, policies)) => <>(admitted[pod] # "no")
=============================================================================
