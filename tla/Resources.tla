----------------------------- MODULE Resources -----------------------------
(***************************************************************************)
(* The pure part of ztoperator's reconciliation: the six child objects an  *)
(* AuthPolicy may own, when each of them is wanted and what it is made     *)
(* from (pkg/resourcegenerators), how a live object is compared with the   *)
(* wanted one and updated (internal/reconciler/resources.go), which action *)
(* follows (pkg/reconciliation), and how the outcome of a pass becomes a   *)
(* phase (internal/statusmanager).                                         *)
(*                                                                         *)
(* An object is abstracted to what the reconciler tells apart: the         *)
(* AuthPolicy that controls it, the fields the reconciler compares and     *)
(* writes ("body", a tuple of the inputs its generator reads), the         *)
(* operator's standard labels, and one field it never compares ("extra").  *)
(***************************************************************************)
EXTENDS Integers, Sequences, FiniteSets

----------------------------------------------------------------------------
(* Child objects.                                                          *)

\* The order in which one pass handles the child objects.
ControllerResources ==
  << "Secret", "EnvoyFilter", "RequestAuthentication",
     "DenyPolicy", "IgnorePolicy", "RequirePolicy" >>

Kinds == { "Secret", "EnvoyFilter", "RequestAuthentication",
           "DenyPolicy", "IgnorePolicy", "RequirePolicy" }

\* Who controls an object: nobody because it does not exist, somebody else
\* than an AuthPolicy, or the AuthPolicy with uid n >= 1.
Absent == -1
Foreign == 0

Object == [ owner : {Absent, Foreign} \cup (Nat \ {0}),
            body : Seq(Int),
            labels : BOOLEAN,     \* the standard labels are all there
            extra : Nat ]         \* Secret: the HMAC key; others: not managed

NoObject == [ owner |-> Absent, body |-> << >>, labels |-> FALSE, extra |-> 0 ]

Exists(obj) == obj.owner # Absent

\* metav1.IsControlledBy: the controller reference carries the uid, so an
\* earlier AuthPolicy of the same name is somebody else.
IsControlledBy(obj, uid) == obj.owner = uid

----------------------------------------------------------------------------
(* AuthPolicy specs.  Rules are told apart only by their identity: 0 is    *)
(* "none", and jwt stands for the issuer, the audiences and the baseline   *)
(* claims.  The workload selector and the OAuth client id are left out:    *)
(* they would be compared and written like the rest of the body.           *)

PolicySpec == [ enabled : BOOLEAN, autoLogin : BOOLEAN, validPaths : BOOLEAN,
                authRules : Nat, ignoreRules : Nat, jwt : Nat ]

\* A live, owned object with standard labels.
Wanted(uid, body, extra) ==
  [ owner |-> uid, body |-> body, labels |-> TRUE, extra |-> extra ]

\* Only auto-login needs the Envoy secret; its HMAC key is drawn afresh.
SecretGetDesired(spec, uid, cred, hmac) ==
  IF spec.enabled /\ spec.validPaths /\ spec.autoLogin
  THEN Wanted(uid, << cred >>, hmac)
  ELSE NoObject

\* The filter's Lua script and OAuth cluster are built from both rule lists
\* and the identity provider; it names the Envoy secret but does not hold it.
EnvoyFilterGetDesired(spec, uid) ==
  IF spec.enabled /\ spec.validPaths /\ spec.autoLogin
  THEN Wanted(uid, << spec.authRules, spec.ignoreRules, spec.jwt >>, 0)
  ELSE NoObject

RequestAuthenticationGetDesired(spec, uid) ==
  IF spec.enabled /\ spec.validPaths
  THEN Wanted(uid, << spec.jwt >>, 0)
  ELSE NoObject

\* The rules of a DENY policy that denies every path.
DenyAll == << >>

\* An invalid spec is answered by a policy that denies every path.
DenyGetDesired(spec, uid) ==
  IF ~spec.enabled THEN NoObject
  ELSE IF ~spec.validPaths THEN Wanted(uid, DenyAll, 0)
  ELSE IF spec.authRules = 0 THEN NoObject
  ELSE Wanted(uid, << spec.authRules, spec.jwt >>, 0)

IgnoreGetDesired(spec, uid) ==
  IF spec.enabled /\ spec.validPaths /\ spec.ignoreRules # 0
  THEN Wanted(uid, << spec.ignoreRules >>, 0)
  ELSE NoObject

RequireGetDesired(spec, uid) ==
  IF spec.enabled /\ spec.validPaths
  THEN Wanted(uid, << spec.authRules, spec.ignoreRules, spec.jwt >>, 0)
  ELSE NoObject

GetDesired(kind, spec, uid, cred, hmac) ==
  CASE kind = "Secret" -> SecretGetDesired(spec, uid, cred, hmac)
    [] kind = "EnvoyFilter" -> EnvoyFilterGetDesired(spec, uid)
    [] kind = "RequestAuthentication" -> RequestAuthenticationGetDesired(spec, uid)
    [] kind = "DenyPolicy" -> DenyGetDesired(spec, uid)
    [] kind = "IgnorePolicy" -> IgnoreGetDesired(spec, uid)
    [] OTHER -> RequireGetDesired(spec, uid)

----------------------------------------------------------------------------
(* Comparing, updating and patching.                                       *)

\* "extra" is compared for no kind: neither a Secret's HMAC key nor the
\* action of an AuthorizationPolicy.
ShouldUpdate(current, desired) ==
  current.body # desired.body \/ ~current.labels

\* A Secret's whole data is replaced, the HMAC key included.
UpdateFields(kind, current, desired) ==
  [ current EXCEPT !.body = desired.body, !.labels = TRUE,
                   !.extra = IF kind = "Secret" THEN desired.extra ELSE @ ]

\* client.MergeFrom(before): the request carries only the fields that
\* UpdateFields changed, and no resourceVersion; the server applies them to
\* whatever object has that name when it arrives.
MergePatch(server, before, after) ==
  [ server EXCEPT !.body = IF before.body # after.body THEN after.body ELSE @,
                  !.labels = IF before.labels # after.labels THEN after.labels ELSE @,
                  !.extra = IF before.extra # after.extra THEN after.extra ELSE @ ]

ReconcileActions == { "create", "update", "delete", "none", "notOwned" }

\* Slip: the update does not look at the owner.
UpdateWithoutOwnership(current, desired, uid) ==
  IF ~Exists(desired)
  THEN IF Exists(current) /\ IsControlledBy(current, uid) THEN "delete" ELSE "none"
  ELSE IF ~Exists(current) THEN "create"
  ELSE IF ShouldUpdate(current, desired) THEN "update"
  ELSE "none"

\* Slip: an unowned object at a wanted name is ignored, not an error.
IgnoreUnowned(current, desired, uid) ==
  IF Exists(current) /\ ~IsControlledBy(current, uid) THEN "none"
  ELSE UpdateWithoutOwnership(current, desired, uid)

DetermineReconcileAction(current, desired, uid) ==
  IF ~Exists(desired)
  THEN IF Exists(current) /\ IsControlledBy(current, uid) THEN "delete" ELSE "none"
  ELSE IF ~Exists(current) THEN "create"
  ELSE IF ~IsControlledBy(current, uid) THEN "notOwned"
  ELSE IF ShouldUpdate(current, desired) THEN "update"
  ELSE "none"

----------------------------------------------------------------------------
(* The outcome of a pass.                                                  *)

Phases == { "None", "Pending", "Ready", "Failed", "Invalid" }

\* ok and failed are the kinds whose descendant carries a success or an error
\* message; a kind without a descendant is in neither.  wanted are the kinds
\* the pass wanted to exist.
DetermineReconciliationState(validPaths, ok, failed, wanted) ==
  IF ~validPaths THEN "Invalid"
  ELSE IF Cardinality(ok \cup failed) # Cardinality(wanted) THEN "Pending"
  ELSE IF failed # {} THEN "Failed"
  ELSE "Ready"
=============================================================================
