-------------------------------- MODULE MCParts -------------------------------
(***************************************************************************)
(* Small instances of Client, Budget, Expanded, SetAside, Feeds and        *)
(* Windows.  They share no state, so one of them moves and the others stay *)
(* at a start: what is explored is their sum and not their product.        *)
(***************************************************************************)
EXTENDS Client, Budget, Expanded, SetAside, Feeds, Windows, TLC

CONSTANTS g1, g2, u1, t1, t2, r1, r2, s1, s2, s3, tiny, huge, next,
          run1, run2, pg, sql, row1, row2, repo1, repo2

MCCallers  == {g1, g2}
MCUrls     == {u1}
MCTypes    == {t1, t2}
MCReleases == {r1, r2}
MCShapes   == {s1, s2, s3}
\* One of the types changes between the releases.
MCShapeOf  == (r1 :> (t1 :> s1 @@ t2 :> s2)) @@ (r2 :> (t1 :> s3 @@ t2 :> s2))
MCContents == {tiny, huge}
MCBytes    == (tiny :> 1) @@ (huge :> 4)
MCLinks    == {NoLink, next}
MCLinkOf   == (tiny :> next) @@ (huge :> NoLink)
MCRuns     == {run1, run2}
MCStores   == {pg, sql}
MCRows     == {row1, row2}
MCRepos    == {repo1, repo2}

\* Since one part moves, one exchange of all pairs at once does for each of them.
Symmetry ==
    {p \in {c @@ r @@ n @@ s : c \in Permutations(MCCallers), r \in Permutations(MCRepos),
                              n \in Permutations(MCRuns), s \in Permutations(MCStores)} :
        \A v \in {repo1, run1, pg} : p[v] = v <=> p[g1] = g1}

\* Which of them moves.
VARIABLE part

AllVars == <<part, vars, budget, remembered, aside, feeds, windows>>

ClientAtStart == Init /\ release = r1 /\ github = [u \in Urls |-> tiny]
BudgetAtStart == BudgetInit /\ ~waits
AsideAtStart  == AsideInit /\ server = "postgres" /\ live = Absent

SumInit ==
    /\ MemoryInit /\ FeedsInit /\ WindowsInit
    /\ part \in {"client", "budget", "memory", "aside", "feeds", "windows"}
    /\ IF part = "client" THEN Init ELSE ClientAtStart
    /\ IF part = "budget" THEN BudgetInit ELSE BudgetAtStart
    /\ IF part = "aside" THEN AsideInit ELSE AsideAtStart

SumNext ==
    /\ UNCHANGED part
    /\ \/ /\ part = "client" /\ Next
          /\ UNCHANGED <<budget, remembered, aside, feeds, windows>>
       \/ /\ part = "budget" /\ BudgetNext
          /\ UNCHANGED <<vars, remembered, aside, feeds, windows>>
       \/ /\ part = "memory" /\ MemoryNext
          /\ UNCHANGED <<vars, budget, aside, feeds, windows>>
       \/ /\ part = "aside" /\ AsideNext
          /\ UNCHANGED <<vars, budget, remembered, feeds, windows>>
       \/ /\ part = "feeds" /\ FeedsNext
          /\ UNCHANGED <<vars, budget, remembered, aside, windows>>
       \/ /\ part = "windows" /\ WindowsNext
          /\ UNCHANGED <<vars, budget, remembered, aside, feeds>>

SumSpec == SumInit /\ [][SumNext]_AllVars

=============================================================================
