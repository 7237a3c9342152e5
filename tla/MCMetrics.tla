----------------------------- MODULE MCMetrics -----------------------------
(***************************************************************************)
(* Small instances of Metrics: one AuthPolicy, a valid and an invalid      *)
(* spec, one or two pods that come and go.                                 *)
(***************************************************************************)
EXTENDS Metrics

Outcomes == [ i \in {"good", "bad"} |-> IF i = "good" THEN "Ready" ELSE "Invalid" ]
=============================================================================
