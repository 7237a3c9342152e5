---------------------------- MODULE MCReferences ----------------------------
(***************************************************************************)
(* Small instances of References: two AuthPolicies, a config map and a     *)
(* secret.                                                                 *)
(***************************************************************************)
EXTENDS References

Mixed == [ oauth |-> {}, audiences |-> << "secret", "cm" >> ]
Login == [ oauth |-> { "secret" }, audiences |-> << "v1", "cm" >> ]

SomeSpecs == { Mixed, Login }
=============================================================================
