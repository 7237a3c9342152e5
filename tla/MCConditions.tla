---------------------------- MODULE MCConditions ----------------------------
(* Small instances of Conditions: one child, both, and an invalid spec     *)
(* that wants the first child with another content.                        *)
EXTENDS Conditions

Spec(valid, first, second) ==
  [ valid |-> valid, children |-> [ k \in Kinds |-> IF k = "k1" THEN first ELSE second ] ]

OneOrBoth == { Spec(TRUE, "a", Absent), Spec(TRUE, "a", "b"), Spec(FALSE, "d", Absent) }
=============================================================================
