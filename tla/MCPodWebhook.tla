---------------------------- MODULE MCPodWebhook ----------------------------
(***************************************************************************)
(* Small instances of PodWebhook: two AuthPolicies that may claim the same *)
(* application, and pods that mount one secret or the wrong volume, or do  *)
(* not ask to be verified.                                                 *)
(***************************************************************************)
EXTENDS PodWebhook

PodWith(app, verify, volumes, mounts) ==
  [ app |-> app, verify |-> verify, volumes |-> volumes, mounts |-> mounts ]

Dir == { << "v", ConfigDir >> }

Mounting == PodWith("app", TRUE, { { << "v", "n1" >> } }, { Dir })
OtherVolume == PodWith("app", TRUE, { { << "w", "n1" >>, << "v", "x" >> } }, { Dir })
Unverified == PodWith("app", FALSE, {}, {})

SomePods == { Mounting, OtherVolume, Unverified }
=============================================================================
