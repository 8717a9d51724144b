---------------------------- MODULE MCMigration -----------------------------
(***************************************************************************)
(* A small instance of Migration.                                          *)
(***************************************************************************)
EXTENDS Migration

CONSTANTS service, migrate, oneshot, pg, sql, m1, r1, r2, d1, d2

MCService == {service}
MCMigrate == {migrate}
MCOneShot == {oneshot}
MCBothStores == {pg, sql}
MCAsked == {pg}
MCMigrations == {m1}
MCRepo == {r1, r2}
MCDest == {d1, d2}
MCOldest == [m \in Migration |-> 1]

Symmetry == {f @@ g : f \in Permutations(MCRepo), g \in Permutations(MCDest)}

=============================================================================
