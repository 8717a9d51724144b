------------------------------ MODULE MCTurns -------------------------------
(***************************************************************************)
(* A small instance of Turns: a quarter hour is 4, so that the slack is 2. *)
(* And one of Lock.  They share no state, so one is at its start for as    *)
(* long as the other moves.                                                *)
(***************************************************************************)
EXTENDS Turns, Lock, TLC

CONSTANTS quick, slow1, slow2, slow3, p1, p2, p3, f1, f2

MCFamily == {quick, slow1, slow2, slow3}
MCEvery  == (quick :> 4) @@ (slow1 :> 12) @@ (slow2 :> 12) @@ (slow3 :> 16)
MCTotals == {slow3}
MCFlaky  == {slow1, slow2}

MCProcs  == {p1, p2, p3}
MCFiles  == {f1, f2}

Symmetry == {f @@ g : f \in Permutations({slow1, slow2}), g \in Permutations(MCProcs)}

SumInit == Init /\ LockInit

SumNext ==
    \/ LockInit /\ Next /\ UNCHANGED lock
    \/ Init /\ LockNext /\ UNCHANGED vars

SumSpec == SumInit /\ [][SumNext]_<<vars, lock>>

=============================================================================
