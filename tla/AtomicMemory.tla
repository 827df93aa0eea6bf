---------------------------- MODULE AtomicMemory ----------------------------
(***************************************************************************)
(* What RV-A promises guest software: an increment, whether one AMO or an   *)
(* LR/SC pair whose SC succeeded, happens at one instant and loses nothing. *)
(* Every word starts at 0, is only incremented (modulo the word width) or   *)
(* cleared, and one instruction touches one naturally aligned unit.         *)
(***************************************************************************)
EXTENDS Integers

CONSTANTS Words, Modulus, Units   \* Units: the sets of words one access covers

VARIABLE cells

Init == cells = [w \in Words |-> 0]

Increment(unit) ==
    cells' = [w \in Words |-> IF w \in unit THEN (cells[w] + 1) % Modulus ELSE cells[w]]

Clear(unit) == cells' = [w \in Words |-> IF w \in unit THEN 0 ELSE cells[w]]

Next == \E unit \in Units : Increment(unit) \/ Clear(unit)

Spec == Init /\ [][Next]_cells
=============================================================================
