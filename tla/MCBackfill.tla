----------------------------- MODULE MCBackfill -----------------------------
(***************************************************************************)
(* Small instances of Backfill: two stores, two repositories, an           *)
(* account-wide family, a batch-only one, and one that is batched and      *)
(* walked repository by repository.                                        *)
(***************************************************************************)
EXTENDS Backfill, TLC

CONSTANTS s1, s2, r1, r2

\* Two walks of the same families, the second into one store and less deep:
\* what the first recorded the second may not go by, nor the other way round.
Whole   == [sinks |-> {s1, s2}, depth |-> 2, families |-> {1, 2, 3}]
Partial == [sinks |-> {s1}, depth |-> 1, families |-> {1, 2, 3}]

MCSink == {s1, s2}
MCRepo == {r1, r2}
MCBatched == {2, 3}
MCBatchOnly == {2}
MCScopes == {Whole, Partial}
MCOneScope == {Whole}

\* For the walk that must end: one that is not of every family.
Few == [sinks |-> {s1}, depth |-> 1, families |-> {2, 3}]
MCFewScopes == {Whole, Few}

Symmetry == Permutations(MCRepo)

=============================================================================
