-------------------------- MODULE PodWebhookProofs --------------------------
(***************************************************************************)
(* Proofs about PodWebhook, for every set of names, applications and pods  *)
(* and every bound: what the webhook reads from its lagging cache is a     *)
(* version of the AuthPolicies that existed, and a verified pod met it.    *)
(***************************************************************************)
EXTENDS PodWebhook, TLAPS

\* The cache and all that is on its way to it are versions there were.
CacheInv ==
  /\ cpolicies \in versions
  /\ epolicies \in Seq(versions)

\* A review under way is the review of a pod somebody wants.
ReviewInv ==
  /\ admitted \in [Pods -> {"no", "unreviewed", "not eligible", "reviewed"}]
  /\ review.step \in {"idle", "eligible", "policy"}
  /\ review.step # "idle" => review.pod \in Pods

Inv == CacheInv /\ ReviewInv /\ VerifiedMetSomeVersion

LEMMA IdleStep == Idle.step = "idle"
BY DEF Idle

LEMMA ReviewingFields ==
  ASSUME NEW pod, NEW step
  PROVE  Reviewing(pod, step).step = step /\ Reviewing(pod, step).pod = pod
BY DEF Reviewing

\* The validator's verdict is what a pod has to meet, said of the list it read.
LEMMA VerdictMeets ==
  ASSUME NEW pod, NEW list,
         NEW n \in AuthPolicyForApplication(list, pod.app),
         ValidatePodAnnotations(pod, list[n], n)
  PROVE  MeetsPolicy(pod, list)
BY DEF AuthPolicyForApplication, ValidatePodAnnotations, MeetsPolicy

LEMMA InvInit == WInit => Inv
<1> SUFFICES ASSUME WInit PROVE Inv
  OBVIOUS
<1>1. CacheInv
  BY DEF WInit, CacheInv
<1>2. ReviewInv
  BY IdleStep DEF WInit, ReviewInv
<1>3. VerifiedMetSomeVersion
  BY DEF WInit, VerifiedMetSomeVersion
<1> QED BY <1>1, <1>2, <1>3 DEF Inv

\* A new version joins the ones there were, so nothing is lost.
LEMMA CacheStep ==
  ASSUME CacheInv, [WNext]_wvars
  PROVE  CacheInv' /\ versions \subseteq versions'
<1> USE DEF nsVars, apVars, CacheInv
<1>1. CASE \E n \in Names : ChangePolicy(n)
  <2>1. /\ versions' = versions \cup { policies' }
        /\ epolicies' = Append(epolicies, policies')
        /\ cpolicies' = cpolicies
    BY <1>1 DEF ChangePolicy
  <2>2. epolicies \in Seq(versions')
    BY <2>1
  <2> QED BY <2>1, <2>2
<1>2. CASE SyncPolicies
  <2>1. /\ epolicies # << >> /\ cpolicies' = Head(epolicies)
        /\ epolicies' = Tail(epolicies) /\ versions' = versions
    BY <1>2 DEF SyncPolicies
  <2> QED BY <2>1
<1>3. CASE ChangeNamespace \/ SyncNamespace \/ ReviewStep
  BY <1>3 DEF ChangeNamespace, SyncNamespace, ReviewStep, IsWebhookEligible, Verify, VerifyFails
<1>4. CASE \E pod \in Pods : CreatePod(pod) \/ DeletePod(pod)
  BY <1>4 DEF CreatePod, DeletePod
<1>5. CASE UNCHANGED wvars
  BY <1>5 DEF wvars
<1> QED BY <1>1, <1>2, <1>3, <1>4, <1>5 DEF WNext

LEMMA ReviewInvStep ==
  ASSUME ReviewInv, [WNext]_wvars
  PROVE  ReviewInv'
<1> USE DEF ReviewInv
<1>1. CASE ChangeNamespace \/ SyncNamespace \/ SyncPolicies \/ \E n \in Names : ChangePolicy(n)
  BY <1>1 DEF ChangeNamespace, SyncNamespace, SyncPolicies, ChangePolicy
<1>2. CASE \E pod \in Pods : CreatePod(pod)
  <2>1. PICK pod \in Pods : CreatePod(pod)
    BY <1>2
  <2>2. CASE UNCHANGED review
    BY <2>1, <2>2 DEF CreatePod
  <2>3. CASE review' = Reviewing(pod, "eligible") /\ UNCHANGED admitted
    <3>1. review'.step = "eligible" /\ review'.pod = pod
      BY <2>3, ReviewingFields
    <3> QED BY <2>3, <3>1
  <2> QED BY <2>1, <2>2, <2>3 DEF CreatePod
<1>3. CASE \E pod \in Pods : DeletePod(pod)
  BY <1>3 DEF DeletePod
<1>4. CASE IsWebhookEligible
  <2>1. CASE Admit("not eligible")
    BY <2>1, IdleStep DEF Admit
  <2>2. CASE review' = Reviewing(review.pod, "policy") /\ UNCHANGED admitted
    <3>1. review'.step = "policy" /\ review'.pod = review.pod
      BY <2>2, ReviewingFields
    <3> QED BY <1>4, <2>2, <3>1 DEF IsWebhookEligible
  <2> QED BY <1>4, <2>1, <2>2 DEF IsWebhookEligible
<1>5. CASE Verify \/ VerifyFails
  BY <1>5, IdleStep DEF Verify, VerifyFails, Admit, Refuse
<1>6. CASE UNCHANGED wvars
  BY <1>6 DEF wvars
<1> QED BY <1>1, <1>2, <1>3, <1>4, <1>5, <1>6 DEF WNext, ReviewStep

\* Only Verify lets a pod in as reviewed, and it read one list.
LEMMA VerifiedStep ==
  ASSUME Inv, [WNext]_wvars
  PROVE  VerifiedMetSomeVersion'
<1> SUFFICES ASSUME NEW pod \in Pods, admitted'[pod] = "reviewed", pod.verify
             PROVE  \E list \in versions' : MeetsPolicy(pod, list)
  BY DEF VerifiedMetSomeVersion
<1>1. versions \subseteq versions'
  BY CacheStep DEF Inv
<1>2. CASE admitted[pod] = "reviewed"
  BY <1>1, <1>2 DEF Inv, VerifiedMetSomeVersion
<1>3. CASE admitted[pod] # "reviewed"
  <2>1. Verify /\ review.pod = pod
    <3>1. ~\E p \in Pods : CreatePod(p) \/ DeletePod(p)
      BY <1>3 DEF CreatePod, DeletePod, Inv, ReviewInv
    <3>2. ~IsWebhookEligible /\ ~VerifyFails
      BY <1>3 DEF IsWebhookEligible, VerifyFails, Admit, Refuse, Inv, ReviewInv
    <3>3. ~(ChangeNamespace \/ SyncNamespace \/ SyncPolicies \/ \E n \in Names : ChangePolicy(n))
      BY <1>3 DEF ChangeNamespace, SyncNamespace, SyncPolicies, ChangePolicy
    <3>4. ~UNCHANGED wvars
      BY <1>3 DEF wvars
    <3>5. Verify
      BY <3>1, <3>2, <3>3, <3>4 DEF WNext, ReviewStep
    <3>6. admitted' = admitted \/ admitted' = [ admitted EXCEPT ![review.pod] = "reviewed" ]
      BY <3>5 DEF Verify, Admit, Refuse
    <3> QED BY <1>3, <3>5, <3>6 DEF Inv, ReviewInv
  <2>2. \E n \in AuthPolicyForApplication(cpolicies, pod.app) :
           ValidatePodAnnotations(pod, cpolicies[n], n)
    BY <1>3, <2>1 DEF Verify, Refuse
  <2>3. MeetsPolicy(pod, cpolicies)
    BY <2>2, VerdictMeets
  <2> QED BY <1>1, <2>3 DEF Inv, CacheInv
<1> QED BY <1>2, <1>3

\* However far the webhook's cache lags and however often the AuthPolicies of
\* an application change while a pod is reviewed, a pod let in as verified met
\* its application's single ready AuthPolicy in a version that existed.
THEOREM VerifiedPodsMetTheirPolicy == WSpec => []VerifiedMetSomeVersion
<1>1. Inv /\ [WNext]_wvars => Inv'
  BY CacheStep, ReviewInvStep, VerifiedStep DEF Inv
<1>2. Inv => VerifiedMetSomeVersion
  BY DEF Inv
<1> QED BY <1>1, <1>2, InvInit, PTL DEF WSpec
=============================================================================
