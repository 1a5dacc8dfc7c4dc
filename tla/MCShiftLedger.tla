--------------------------- MODULE MCShiftLedger ---------------------------
(* ShiftLedger for TLC: symmetric ids, and the bound OnlyVoids. *)
EXTENDS ShiftLedger, TLC

Symmetry == Permutations(Txn) \cup Permutations(Shift) \cup Permutations(Cashier) \cup Permutations(Lease)
                \cup Permutations(Session)

\* Reversals are voids: refunds go through the same code.
OnlyVoids == \A t \in Txn : req[t].op = "reverse" => req[t].as = "VOIDED"
=============================================================================
