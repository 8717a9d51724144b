------------------------------ MODULE MCLedger ------------------------------
(***************************************************************************)
(* Small instances of Ledger.                                              *)
(***************************************************************************)
EXTENDS Ledger, TLC

CONSTANTS s1, s2, i1, i2, a, b

MCSink == {s1, s2}
MCOneSink == {s1}
MCRow == {i1}
MCTwoRows == {i1, i2}
MCValue == {a, b}

Symmetry == Permutations(MCSink) \cup Permutations(MCValue)

=============================================================================
