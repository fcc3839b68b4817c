--------------------------- MODULE MCSlotMigration ---------------------------
(* Instances of SlotMigration for TLC. *)
EXTENDS SlotMigration, TLC

CONSTANTS k1, k2, k3, s1, s2

OneDb == {0}
OneLabel == {{1}}
TwoSlots == (k1 :> s1) @@ (k2 :> s1) @@ (k3 :> s2)
ThreeForeign == (1 :> s1) @@ (2 :> s1) @@ (3 :> s2)
=============================================================================
