--------------------------- MODULE BackfillProofs ---------------------------
(***************************************************************************)
(* Proofs about Backfill, for every set of stores, repositories, families  *)
(* and walks: its variables keep their types; whatever the checkpoint      *)
(* records every store of its walk holds, and stays recorded; a family     *)
(* complete is marked; the retries give up only when stuck; a walk that    *)
(* ends has covered all it reads of the account and of single repositories.*)
(***************************************************************************)
EXTENDS Backfill, FiniteSetTheorems, TLAPS

-----------------------------------------------------------------------------
(* Constants and counts.                                                   *)

\* A walk's depth is a depth, and so is nothing at all.
LEMMA DepthType ==
    /\ Depth \subseteq Nat
    /\ 0 \in Depth
    /\ \A sc \in Scopes : sc.depth \in Depth
<1>1. \A sc \in Scopes : sc.depth \in Nat /\ 0..sc.depth \subseteq Nat
                         /\ 0 \in 0..sc.depth /\ sc.depth \in 0..sc.depth
  BY ScopesAssumption
<1>2. PICK sc \in Scopes : TRUE
  BY ScopesAssumption
<1> QED  BY <1>1, <1>2 DEF Depth

\* A selection of repositories is finite and no larger than all of them.
LEMMA RepoCount ==
    ASSUME NEW S \in SUBSET Repo
    PROVE  /\ IsFiniteSet(S) /\ Cardinality(S) \in Nat
           /\ Cardinality(Repo) \in Nat
           /\ Cardinality(S) <= Cardinality(Repo)
BY FS_Subset, FS_CardinalityType, FamiliesAssumption

\* The units a family is made of, and the family a position stands for.
LEMMA FamilyUnits ==
    /\ Account \subseteq Family /\ PerRepo \subseteq Family /\ Batched \subseteq PerRepo
    /\ \A f \in Family : <<f, NoRepo>> \in Unit /\ (\A r \in Repo : <<f, r>> \in Unit)
    /\ 1 \in 1..(NumFamilies + 1)
    /\ \A f \in Family : f + 1 \in 1..(NumFamilies + 1)
BY FamiliesAssumption DEF Family, Account, PerRepo, Unit

\* The walks' own fields.
LEMMA ScopeFields ==
    ASSUME NEW sc \in Scopes
    PROVE  sc.sinks \subseteq Sink /\ sc.depth \in Depth /\ sc.depth \in Nat
           /\ sc.families \subseteq Family
BY ScopesAssumption, DepthType

-----------------------------------------------------------------------------
(* What the operators on the checkpoint return.                            *)

LEMMA FreshType == ASSUME NEW sc \in Scopes
                   PROVE  Fresh(sc) \in Progress /\ Claims(Fresh(sc)) = {}
BY DEF Fresh, Progress, Claims

LEMMA WroteRepoType ==
    ASSUME NEW q \in Progress, NEW f \in Family, NEW r \in Repo
    PROVE  WroteRepo(q, f, r) \in Progress
BY FamilyUnits DEF WroteRepo, Progress

LEMMA FinishFamilyType ==
    ASSUME NEW q \in Progress, NEW f \in Family, NEW covered \in SUBSET Repo
    PROVE  FinishFamily(q, f, covered) \in Progress
BY DEF FinishFamily, Progress

\* Recording a repository claims that repository and nothing else.
LEMMA WroteRepoClaims ==
    ASSUME NEW q \in Progress, NEW f \in Family, NEW r \in Repo
    PROVE  /\ WroteRepo(q, f, r).scope = q.scope
           /\ Claims(WroteRepo(q, f, r)) \subseteq Claims(q) \cup {<<f, r>>}
BY DEF WroteRepo, Progress, Claims

\* Completing an account-wide family claims that family and nothing else.
LEMMA FinishAccountClaims ==
    ASSUME NEW q \in Progress, NEW f \in Account
    PROVE  /\ FinishFamily(q, f, {}).scope = q.scope
           /\ Claims(FinishFamily(q, f, {})) \subseteq Claims(q) \cup {<<f, NoRepo>>}
BY FamilyUnits DEF FinishFamily, Progress, Claims, PerRepo

\* Completing a per-repository family whose repositories are all recorded
\* claims nothing that was not claimed already.
LEMMA FinishReposClaims ==
    ASSUME NEW q \in Progress, NEW f \in PerRepo, NEW covered \in SUBSET Repo,
           \A r \in covered : RepoDone(q, f, r)
    PROVE  /\ FinishFamily(q, f, covered).scope = q.scope
           /\ Claims(FinishFamily(q, f, covered)) \subseteq Claims(q)
BY FamilyUnits DEF FinishFamily, Progress, Claims, PerRepo, RepoDone

LEMMA ClaimsAreUnits == ASSUME NEW q \in Progress PROVE Claims(q) \subseteq Unit
BY FamilyUnits DEF Claims, Progress, PerRepo, Unit

-----------------------------------------------------------------------------
(* What a write and a save do.                                             *)

\* emit only ever deepens what a store holds, and whoever took the unit holds
\* it as deep as the walk goes.
LEMMA EmitDeepens ==
    ASSUME TypeOK, NEW u \in Unit, NEW takers, Emit(u, takers)
    PROVE  /\ stores' \in [Sink -> [Unit -> Depth]]
           /\ \A s \in Sink, v \in Unit : stores'[s][v] >= stores[s][v]
           /\ \A s \in Sink : s \in takers => stores'[s][u] >= scope.depth
<1>1. scope.depth \in Depth /\ Depth \subseteq Nat
  BY ScopeFields, DepthType DEF TypeOK
<1>2. \A s \in Sink : stores'[s] = IF s \in takers /\ stores[s][u] < scope.depth
                                   THEN [stores[s] EXCEPT ![u] = scope.depth] ELSE stores[s]
  BY DEF Emit
<1>3. \A s \in Sink : stores[s] \in [Unit -> Depth] /\ \A v \in Unit : stores[s][v] \in Nat
  BY <1>1 DEF TypeOK
<1>4. \A s \in Sink : stores'[s] \in [Unit -> Depth]
  BY <1>1, <1>2, <1>3
<1>5. stores' \in [Sink -> [Unit -> Depth]]
  BY <1>4 DEF Emit
<1>6. ASSUME NEW s \in Sink, NEW v \in Unit
      PROVE  stores'[s][v] >= stores[s][v] /\ (s \in takers => stores'[s][u] >= scope.depth)
  <2>1. stores[s] \in [Unit -> Depth] /\ stores[s][u] \in Nat /\ stores[s][v] \in Nat
        /\ scope.depth \in Nat
    BY <1>1, <1>3
  <2>2. CASE s \in takers /\ stores[s][u] < scope.depth
    <3>1. stores'[s] = [stores[s] EXCEPT ![u] = scope.depth]
      BY <1>2, <2>2
    <3> QED  BY <2>1, <2>2, <3>1
  <2>3. CASE ~(s \in takers /\ stores[s][u] < scope.depth)
    <3>1. stores'[s] = stores[s]
      BY <1>2, <2>3
    <3> QED  BY <2>1, <2>3, <3>1
  <2> QED  BY <2>2, <2>3
<1> QED  BY <1>5, <1>6

\* What is saved is the checkpoint in memory or what was on disk before.
LEMMA CheckpointedType ==
    ASSUME TypeOK, NEW q \in Progress, NEW s \in State, NEW ok \in BOOLEAN,
           Checkpointed(q, s, ok)
    PROVE  /\ ck' \in Checkpoint \cup {None}
           /\ \/ ck' = ck
              \/ ck' # None /\ ck'.progress = q
<1>1. ck' = ck \/ ck' = [progress |-> q, learned |-> s]
  BY DEF Checkpointed, Save
<1>2. [progress |-> q, learned |-> s] \in Checkpoint
  BY DEF Checkpoint
<1> QED  BY <1>1, <1>2, RunAssumption DEF TypeOK

\* A mishap stays within its bound.
LEMMA MishapType ==
    ASSUME TypeOK, NEW bad, Mishap(bad)
    PROVE  mishaps' \in 0..MaxMishaps /\ asks' \in 0..MaxAsks
BY RunAssumption DEF TypeOK, Mishap

\* A process that has gone leaves nothing behind in memory.
LEMMA IdleType ==
    ASSUME TypeOK, Idle
    PROVE  /\ pc' = "off" /\ p' \in Progress /\ before' \in Progress /\ st' \in State
           /\ resumed' \in BOOLEAN /\ passes' \in 0..RetryLimit
           /\ repos' \in SUBSET Repo /\ asked' \in SUBSET Repo
           /\ at' \in 1..(NumFamilies + 1) /\ toCover' \in 0..Cardinality(Repo)
           /\ failed' \in 0..(Cardinality(Repo) + 1) /\ cancelled' \in BOOLEAN
<1>1. Fresh(scope) \in Progress
  BY FreshType DEF TypeOK
<1>2. Cardinality(Repo) \in Nat
  BY RepoCount
<1>3. 0 \in 0..RetryLimit /\ 0 \in 0..Cardinality(Repo) /\ 0 \in 0..(Cardinality(Repo) + 1)
  BY <1>2, RunAssumption
<1>4. NoState \in State
  BY DEF NoState, State
<1> QED  BY <1>1, <1>3, <1>4, FamilyUnits DEF Idle

-----------------------------------------------------------------------------
(* Types.                                                                  *)

\* Failures are one for the batch and one for each repository asked; a batch
\* that was the whole family counts every repository and asks none.
FailuresCounted ==
    pc = "repos" => /\ asked \subseteq repos
                    /\ toCover <= Cardinality(repos)
                    /\ at \in PerRepo
                    /\ at \notin BatchOnly => failed <= Cardinality(asked) + 1

Typed == TypeOK /\ FailuresCounted

LEMMA InitTyped == Init => Typed
<1> SUFFICES ASSUME Init PROVE Typed
  OBVIOUS
<1>1. Fresh(scope) \in Progress
  BY FreshType DEF Init
<1>2. stores \in [Sink -> [Unit -> Depth]]
  BY DepthType DEF Init
<1>3. Cardinality(Repo) \in Nat
  BY RepoCount
<1>4. 0 \in 0..RetryLimit /\ 0 \in 0..Cardinality(Repo) /\ 0 \in 0..(Cardinality(Repo) + 1)
      /\ 0 \in 0..MaxMishaps /\ 0 \in 0..MaxAsks
  BY <1>3, RunAssumption
<1>5. NoState \in State
  BY DEF NoState, State
<1>6. TypeOK
  BY <1>1, <1>2, <1>4, <1>5, FamilyUnits DEF Init, TypeOK
<1> QED  BY <1>6 DEF Init, Typed, FailuresCounted

\* Every step keeps the types, the failures within what was asked among them.
LEMMA NextTyped == Typed /\ [Next]_vars => Typed'
<1> SUFFICES ASSUME Typed, [Next]_vars PROVE Typed'
  OBVIOUS
<1> USE DEF Typed, disk, process
<1>0. /\ Cardinality(Repo) \in Nat /\ RetryLimit \in Nat \ {0} /\ NumFamilies \in Nat
      /\ scope.sinks \subseteq Sink
  BY RepoCount, RunAssumption, FamiliesAssumption, ScopeFields DEF TypeOK
<1>1. ASSUME NEW sc \in Scopes, Ask(sc) PROVE Typed'
  <2>1. Fresh(sc) \in Progress /\ asks' \in 0..MaxAsks
    BY <1>1, FreshType, RunAssumption DEF Ask, TypeOK
  <2> QED  BY <1>1, <2>1 DEF Ask, TypeOK, FailuresCounted
<1>2. ASSUME DeleteRefused PROVE Typed'
  BY <1>2 DEF DeleteRefused, TypeOK, FailuresCounted
<1>3. ASSUME Start PROVE Typed'
  <2>1. ck # None => ck.progress \in Progress
    BY DEF TypeOK, Checkpoint
  <2>2. p' \in Progress
    BY <1>3, <2>1, FreshType DEF Start, TypeOK
  <2>3. throughout' \in SUBSET Repo /\ 1 \in 0..RetryLimit
    BY <1>0, <1>3 DEF Start, TypeOK
  <2> QED  BY <1>3, <2>2, <2>3 DEF Start, TypeOK, FailuresCounted
<1>4. ASSUME Cancel PROVE Typed'
  <2>1. mishaps' \in 0..MaxMishaps /\ asks' \in 0..MaxAsks
    BY <1>4, MishapType DEF Cancel
  <2> QED  BY <1>4, <2>1 DEF Cancel, TypeOK, FailuresCounted
<1>5. ASSUME Crash \/ ListingFails \/ Interrupted PROVE Typed'
  <2>1. mishaps' \in 0..MaxMishaps /\ asks' \in 0..MaxAsks /\ Idle
    BY <1>5, MishapType DEF Crash, ListingFails, Interrupted, TypeOK
  <2> QED  BY <1>5, <2>1, IdleType DEF Crash, ListingFails, Interrupted, TypeOK, FailuresCounted
<1>6. ASSUME NEW listing \in SUBSET Repo, BeginPass(listing) PROVE Typed'
  <2>1. OpenedState \in State
    BY DEF OpenedState, Restore, Learn, State, Progress, TypeOK
  <2> QED  BY <1>6, <2>1, FamilyUnits DEF BeginPass, TypeOK, FailuresCounted
<1>7. ASSUME StepOver PROVE Typed'
  BY <1>7, FamilyUnits DEF StepOver, TypeOK, FailuresCounted
<1>8. ASSUME NEW takers \in SUBSET scope.sinks, NEW savedOk \in BOOLEAN,
             AccountCollected(takers, savedOk)
      PROVE  Typed'
  <2> DEFINE q == IF takers = scope.sinks THEN FinishFamily(p, at, {}) ELSE p
             s == [st EXCEPT !.marks = @ \cup {at}]
  <2>1. at \in Family /\ <<at, NoRepo>> \in Unit
    BY <1>8, FamilyUnits DEF AccountCollected
  <2>2. q \in Progress /\ s \in State
    BY <2>1, FinishFamilyType DEF TypeOK, State
  <2>3. stores' \in [Sink -> [Unit -> Depth]] /\ mishaps' \in 0..MaxMishaps /\ asks' \in 0..MaxAsks
    BY <1>8, <2>1, EmitDeepens, MishapType DEF AccountCollected
  <2>4. p' = q /\ st' = s /\ Checkpointed(q, s, savedOk)
    BY <1>8 DEF AccountCollected
  <2>5. ck' \in Checkpoint \cup {None}
    BY <2>2, <2>4, CheckpointedType
  <2> HIDE DEF q, s
  <2> QED
    BY <1>8, <2>1, <2>2, <2>3, <2>4, <2>5, FamilyUnits DEF AccountCollected, TypeOK, FailuresCounted
<1>9. ASSUME NEW rows \in BOOLEAN, AccountFailed(rows) PROVE Typed'
  <2>1. at \in Family /\ mishaps' \in 0..MaxMishaps /\ asks' \in 0..MaxAsks
    BY <1>9, FamilyUnits, MishapType DEF AccountFailed
  <2>2. st' \in State
    BY <1>9, <2>1 DEF AccountFailed, TypeOK, State
  <2> QED  BY <1>9, <2>1, <2>2, FamilyUnits DEF AccountFailed, TypeOK, FailuresCounted
<1>10. ASSUME NEW outcome \in {"whole", "partly", "lost"}, NEW takers \in SUBSET scope.sinks,
              Batch(outcome, takers)
       PROVE  Typed'
  <2>1. at \in Family /\ at \in PerRepo /\ <<at, NoRepo>> \in Unit
    BY <1>10, FamilyUnits DEF Batch
  <2>2. stores' \in [Sink -> [Unit -> Depth]] /\ mishaps' \in 0..MaxMishaps /\ asks' \in 0..MaxAsks
    BY <1>10, <2>1, EmitDeepens, MishapType DEF Batch, TypeOK
  <2>3. toCover' \in 0..Cardinality(Repo) /\ toCover' <= Cardinality(repos)
    <3>1. /\ IsFiniteSet(repos) /\ Cardinality(repos) \in Nat
          /\ Cardinality(repos) <= Cardinality(Repo)
      BY RepoCount DEF TypeOK
    <3>2. {r \in repos : ~RepoDone(p, at, r)} \in SUBSET repos
      OBVIOUS
    <3>3. /\ ReposToCover(at) \in Nat /\ ReposToCover(at) <= Cardinality(repos)
      BY <3>1, <3>2, FS_Subset, FS_CardinalityType DEF ReposToCover
    <3> QED  BY <1>0, <1>10, <3>1, <3>3 DEF Batch
  <2>4. /\ failed' \in 0..(Cardinality(Repo) + 1)
        /\ at \notin BatchOnly => failed' <= 1
    <3>1. Cardinality(repos) \in Nat /\ Cardinality(repos) <= Cardinality(Repo)
      BY RepoCount DEF TypeOK
    <3>2. failed' = BatchFailures(at, outcome)
      BY <1>10 DEF Batch
    <3> QED  BY <1>0, <3>1, <3>2 DEF BatchFailures
  <2>5. Cardinality({}) = 0
    BY FS_EmptySet
  <2> QED
    BY <1>10, <2>1, <2>2, <2>3, <2>4, <2>5 DEF Batch, TypeOK, FailuresCounted
<1>11. ASSUME NEW r \in Repo, NEW takers \in SUBSET scope.sinks, NEW savedOk \in BOOLEAN,
              RepoCollected(r, takers, savedOk)
       PROVE  Typed'
  <2> DEFINE q == IF takers = scope.sinks THEN WroteRepo(p, at, r) ELSE p
             s == IF at \in BatchOnly THEN st ELSE [st EXCEPT !.facts = @ \cup {<<at, r>>}]
  <2>1. at \in Family /\ at \in PerRepo /\ <<at, r>> \in Unit /\ r \in repos
    BY <1>11, FamilyUnits DEF RepoCollected, FailuresCounted, Left
  <2>2. q \in Progress /\ s \in State
    BY <2>1, WroteRepoType DEF TypeOK, State
  <2>3. stores' \in [Sink -> [Unit -> Depth]] /\ mishaps' \in 0..MaxMishaps /\ asks' \in 0..MaxAsks
    BY <1>11, <2>1, EmitDeepens, MishapType DEF RepoCollected
  <2>4. p' = q /\ st' = s /\ Checkpointed(q, s, savedOk)
    BY <1>11 DEF RepoCollected
  <2>5. ck' \in Checkpoint \cup {None}
    BY <2>2, <2>4, CheckpointedType
  <2>6. Cardinality(asked) <= Cardinality(asked') /\ Cardinality(asked') \in Nat
        /\ Cardinality(asked) \in Nat /\ asked' \subseteq repos
    <3>1. asked' = asked \cup {r} /\ asked \subseteq repos
      BY <1>11 DEF RepoCollected, FailuresCounted
    <3>2. IsFiniteSet(asked')
      BY <2>1, <3>1, RepoCount DEF TypeOK
    <3> QED  BY <2>1, <3>1, <3>2, FS_Subset, FS_CardinalityType
  <2>7. /\ pc = "repos"
        /\ UNCHANGED <<saved, scope, wanted, pc, resumed, passes, before, repos, at,
                       toCover, failed, cancelled, throughout>>
    BY <1>11 DEF RepoCollected
  <2> HIDE DEF q, s
  <2>8. TypeOK'
    BY <2>2, <2>3, <2>4, <2>5, <2>6, <2>7 DEF TypeOK
  <2>9. FailuresCounted'
    BY <2>6, <2>7 DEF TypeOK, FailuresCounted
  <2> QED  BY <2>8, <2>9
<1>12. ASSUME NEW r \in Repo, RepoFailed(r) PROVE Typed'
  <2>1. /\ r \in repos /\ r \notin asked /\ asked \subseteq repos
        /\ at \notin BatchOnly /\ failed <= Cardinality(asked) + 1
        /\ asked' = asked \cup {r} /\ failed' = failed + 1
    BY <1>12 DEF RepoFailed, FailuresCounted, Left
  <2>2. asked' \in SUBSET Repo /\ IsFiniteSet(asked)
    BY <2>1, RepoCount DEF TypeOK
  <2>3. Cardinality(asked') = Cardinality(asked) + 1 /\ Cardinality(asked) \in Nat
    BY <2>1, <2>2, FS_AddElement, FS_CardinalityType
  <2>4. Cardinality(asked') <= Cardinality(Repo)
    BY <2>2, RepoCount
  <2>5. failed' \in 0..(Cardinality(Repo) + 1) /\ failed' <= Cardinality(asked') + 1
    BY <1>0, <2>1, <2>3, <2>4 DEF TypeOK
  <2>6. mishaps' \in 0..MaxMishaps /\ asks' \in 0..MaxAsks
    BY <1>12, MishapType DEF RepoFailed
  <2> QED  BY <1>12, <2>1, <2>2, <2>5, <2>6 DEF RepoFailed, TypeOK, FailuresCounted
<1>13. ASSUME NEW r \in Repo, BudgetSpent(r) PROVE Typed'
  <2>1. /\ Cardinality(repos) \in Nat /\ toCover \in 0..Cardinality(Repo)
        /\ toCover <= Cardinality(repos) /\ failed' = toCover /\ asked' = repos
    BY <1>13, RepoCount DEF BudgetSpent, FailuresCounted, TypeOK
  <2>2. failed' \in 0..(Cardinality(Repo) + 1) /\ failed' <= Cardinality(asked') + 1
    BY <1>0, <2>1
  <2>3. mishaps' \in 0..MaxMishaps /\ asks' \in 0..MaxAsks
    BY <1>13, MishapType DEF BudgetSpent
  <2> QED  BY <1>13, <2>1, <2>2, <2>3 DEF BudgetSpent, TypeOK, FailuresCounted
<1>14. ASSUME StopShort PROVE Typed'
  <2>1. asked \in SUBSET repos /\ IsFiniteSet(repos) /\ Cardinality(asked) \in Nat
        /\ Cardinality(repos) \in Nat
    BY <1>14, RepoCount DEF StopShort, FailuresCounted, TypeOK
  <2>2. Cardinality(asked) <= Cardinality(repos)
    BY <2>1, FS_Subset
  <2> QED  BY <1>14, <2>1, <2>2 DEF StopShort, TypeOK, FailuresCounted
<1>15. ASSUME NEW savedOk \in BOOLEAN, CloseFamily(savedOk) PROVE Typed'
  <2> DEFINE whole == failed = 0 /\ EveryRepoWritten(at)
             q == IF whole THEN FinishFamily(p, at, repos) ELSE p
  <2>1. at \in Family
    BY <1>15, FamilyUnits DEF CloseFamily, FailuresCounted
  <2>2. q \in Progress
    BY <2>1, FinishFamilyType DEF TypeOK
  <2>3. p' = q /\ Checkpointed(q, st, savedOk)
    BY <1>15 DEF CloseFamily
  <2>4. ck' \in Checkpoint \cup {None}
    BY <2>2, <2>3, CheckpointedType DEF TypeOK
  <2>5. mishaps' \in 0..MaxMishaps /\ asks' \in 0..MaxAsks
    BY <1>15, MishapType DEF CloseFamily
  <2>6. st' \in State
    BY <1>15, <2>1 DEF CloseFamily, TypeOK, State
  <2> HIDE DEF q, whole
  <2> QED
    BY <1>0, <1>15, <2>1, <2>2, <2>3, <2>4, <2>5, <2>6, FamilyUnits
       DEF CloseFamily, TypeOK, FailuresCounted
<1>16. ASSUME NEW savedOk \in BOOLEAN, Finish(savedOk) PROVE Typed'
  <2>1. mishaps' \in 0..MaxMishaps /\ asks' \in 0..MaxAsks
    BY <1>16, MishapType DEF Finish
  <2> QED  BY <1>16, <2>1 DEF Finish, TypeOK, FailuresCounted
<1>17. ASSUME NEW removed \in BOOLEAN, Close(removed) PROVE Typed'
  <2>1. mishaps' \in 0..MaxMishaps /\ asks' \in 0..MaxAsks
    BY <1>17, MishapType DEF Close
  <2> QED  BY <1>17, <2>1 DEF Close, TypeOK, FailuresCounted
<1>18. ASSUME GoBack PROVE Typed'
  <2>1. passes' \in 0..RetryLimit
    BY <1>0, <1>18 DEF GoBack, TypeOK
  <2> QED  BY <1>18, <2>1 DEF GoBack, TypeOK, FailuresCounted
<1>19. ASSUME GiveUp PROVE Typed'
  <2>1. wanted' \in BOOLEAN
    BY <1>19 DEF GiveUp
  <2> QED  BY <1>19, <2>1, IdleType DEF GiveUp, TypeOK, FailuresCounted
<1>20. CASE UNCHANGED vars
  BY <1>20 DEF vars, TypeOK, FailuresCounted
<1> QED
  BY <1>1, <1>2, <1>3, <1>4, <1>5, <1>6, <1>7, <1>8, <1>9, <1>10, <1>11, <1>12, <1>13,
     <1>14, <1>15, <1>16, <1>17, <1>18, <1>19, <1>20 DEF Next, Walk, Operator

\* The variables of every instance keep their types.
THEOREM TypeCorrect == Spec => []TypeOK
<1>1. Spec => []Typed
  BY InitTyped, NextTyped, PTL DEF Spec
<1>2. Typed => TypeOK
  BY DEF Typed
<1> QED  BY <1>1, <1>2, PTL

-----------------------------------------------------------------------------
(* What is recorded is held.                                               *)

\* A running process works for the walk its checkpoint belongs to: Start
\* refuses any other.
OwnScope == pc # "off" => p.scope = scope

RecordInv == Typed /\ OwnScope /\ RecordedIsHeld

\* Held after a step, of a checkpoint named before it.
HeldNext(q) == \A u \in Claims(q), s \in q.scope.sinks : stores'[s][u] >= q.scope.depth

StoresGrow == \A s \in Sink, v \in Unit : stores'[s][v] >= stores[s][v]

\* A checkpoint that claims what another did, and perhaps one unit more that
\* every store took in this step, is held when the other was.
LEMMA HeldGrows ==
    ASSUME TypeOK, TypeOK', StoresGrow,
           NEW q \in Progress, Held(q), NEW q2 \in Progress, q2.scope = q.scope,
           NEW new \in SUBSET Unit, Claims(q2) \subseteq Claims(q) \cup new,
           \A v \in new, s \in q.scope.sinks : stores'[s][v] >= q.scope.depth
    PROVE  HeldNext(q2)
<1> SUFFICES ASSUME NEW u \in Claims(q2), NEW s \in q.scope.sinks
             PROVE  stores'[s][u] >= q.scope.depth
  BY DEF HeldNext
<1>1. q.scope \in Scopes
  BY DEF Progress
<1>2. s \in Sink /\ q.scope.depth \in Nat
  BY <1>1, ScopeFields
<1>3. CASE u \in new
  BY <1>3
<1>4. CASE u \in Claims(q)
  <2>1. u \in Unit
    BY <1>4, ClaimsAreUnits
  <2>2. stores[s][u] >= q.scope.depth
    BY <1>4 DEF Held
  <2>3. stores'[s][u] >= stores[s][u]
    BY <1>2, <2>1 DEF StoresGrow
  <2>4. stores[s][u] \in Nat /\ stores'[s][u] \in Nat
    BY <1>2, <2>1, DepthType DEF TypeOK
  <2> QED  BY <1>2, <2>2, <2>3, <2>4
<1> QED  BY <1>3, <1>4

\* The checkpoint file stays held when it is left alone or becomes a
\* checkpoint that is held.
LEMMA FileStaysHeld ==
    ASSUME TypeOK, TypeOK', RecordedIsHeld, StoresGrow,
           NEW q \in Progress, HeldNext(q),
           \/ ck' = ck
           \/ ck' = None
           \/ ck' # None /\ ck'.progress = q
    PROVE  (ck # None => Held(ck.progress))'
<1> SUFFICES ASSUME ck' # None PROVE HeldNext(ck'.progress)
  BY DEF Held, HeldNext
<1>1. CASE ck' = ck
  <2>1. ck.progress \in Progress /\ Held(ck.progress)
    BY <1>1 DEF TypeOK, Checkpoint, RecordedIsHeld
  <2>2. HeldNext(ck.progress)
    <3> DEFINE new == {}
    <3>1. new \in SUBSET Unit /\ Claims(ck.progress) \subseteq Claims(ck.progress) \cup new
          /\ \A v \in new, s \in ck.progress.scope.sinks : stores'[s][v] >= ck.progress.scope.depth
      OBVIOUS
    <3> HIDE DEF new
    <3> QED  BY <2>1, <3>1, HeldGrows
  <2> QED  BY <1>1, <2>2
<1>2. CASE ck' # ck
  BY <1>2
<1> QED  BY <1>1, <1>2

\* Nothing is written, and the process has gone or works on the same record.
LEMMA QuietStep ==
    ASSUME RecordInv, Typed', UNCHANGED stores,
           ck' = ck \/ ck' = None,
           \/ pc' = "off"
           \/ pc # "off" /\ UNCHANGED <<p, scope>>
    PROVE  RecordInv'
<1>1. TypeOK /\ TypeOK' /\ RecordedIsHeld
  BY DEF RecordInv, Typed
<1>2. StoresGrow
  <2> SUFFICES ASSUME NEW s \in Sink, NEW v \in Unit PROVE stores[s][v] >= stores[s][v]
    BY DEF StoresGrow
  <2>1. stores[s][v] \in Nat
    BY <1>1, DepthType DEF TypeOK
  <2> QED  BY <2>1
<1>3. (ck # None => Held(ck.progress))'
  <2> SUFFICES ASSUME ck' # None PROVE Held(ck.progress)'
    OBVIOUS
  <2>1. ck' = ck /\ Held(ck.progress)
    BY <1>1, RunAssumption DEF RecordedIsHeld
  <2> QED  BY <2>1 DEF Held
<1>4. OwnScope' /\ (pc # "off" => Held(p))'
  BY <1>1 DEF RecordInv, OwnScope, RecordedIsHeld, Held
<1> QED  BY <1>3, <1>4 DEF RecordInv, RecordedIsHeld

\* A step that makes the record q and saves it, or does not.
LEMMA RecordingStep ==
    ASSUME RecordInv, Typed', StoresGrow, pc # "off", UNCHANGED scope,
           NEW q \in Progress, p' = q, q.scope = p.scope,
           NEW new \in SUBSET Unit, Claims(q) \subseteq Claims(p) \cup new,
           \A v \in new, s \in scope.sinks : stores'[s][v] >= scope.depth,
           ck' = ck \/ (ck' # None /\ ck'.progress = q)
    PROVE  RecordInv'
<1>1. TypeOK /\ TypeOK' /\ RecordedIsHeld /\ Held(p) /\ p.scope = scope /\ p \in Progress
  BY DEF RecordInv, Typed, OwnScope, RecordedIsHeld, TypeOK
<1>2. HeldNext(q)
  BY <1>1, HeldGrows
<1>3. (ck # None => Held(ck.progress))'
  BY <1>1, <1>2, FileStaysHeld
<1>4. Held(p)' /\ OwnScope'
  BY <1>1, <1>2 DEF Held, HeldNext, OwnScope
<1> QED  BY <1>3, <1>4 DEF RecordInv, RecordedIsHeld

\* No step records what a store does not hold.
LEMMA NextRecord == RecordInv /\ [Next]_vars => RecordInv'
<1> SUFFICES ASSUME RecordInv, [Next]_vars PROVE RecordInv'
  OBVIOUS
<1>0. Typed /\ Typed' /\ TypeOK /\ TypeOK'
  BY NextTyped DEF RecordInv, Typed
<1> USE DEF disk, process
<1>1. ASSUME NEW sc \in Scopes, Ask(sc) PROVE RecordInv'
  BY <1>0, <1>1, QuietStep DEF Ask
<1>2. ASSUME DeleteRefused PROVE RecordInv'
  BY <1>0, <1>2, QuietStep DEF DeleteRefused
<1>3. ASSUME Start PROVE RecordInv'
  <2>1. UNCHANGED <<stores, ck, scope>>
    BY <1>3 DEF Start
  <2>2. (ck # None => Held(ck.progress))'
    BY <2>1 DEF RecordInv, RecordedIsHeld, Held
  <2>3. Held(p)' /\ p'.scope = scope
    <3>1. CASE ck = None
      <4>1. p' = Fresh(scope)
        BY <1>3, <3>1 DEF Start
      <4>2. Claims(p') = {} /\ p'.scope = scope
        BY <1>0, <4>1, FreshType DEF TypeOK, Fresh
      <4> QED  BY <4>2 DEF Held
    <3>2. CASE ck # None
      <4>1. p' = ck.progress /\ ck.progress.scope = scope
        BY <1>3, <3>2 DEF Start, Differs
      <4> QED  BY <2>1, <2>2, <3>2, <4>1 DEF Held
    <3> QED  BY <3>1, <3>2
  <2> QED  BY <1>0, <2>1, <2>2, <2>3 DEF RecordInv, OwnScope, RecordedIsHeld
<1>4. ASSUME Cancel PROVE RecordInv'
  BY <1>0, <1>4, QuietStep DEF Cancel
<1>5. ASSUME Crash \/ ListingFails \/ Interrupted PROVE RecordInv'
  BY <1>0, <1>5, QuietStep DEF Crash, ListingFails, Interrupted, Idle
<1>6. ASSUME NEW listing \in SUBSET Repo, BeginPass(listing) PROVE RecordInv'
  BY <1>0, <1>6, QuietStep DEF BeginPass
<1>7. ASSUME StepOver PROVE RecordInv'
  BY <1>0, <1>7, QuietStep DEF StepOver
<1>8. ASSUME NEW takers \in SUBSET scope.sinks, NEW savedOk \in BOOLEAN,
             AccountCollected(takers, savedOk)
      PROVE  RecordInv'
  <2> DEFINE q == IF takers = scope.sinks THEN FinishFamily(p, at, {}) ELSE p
             s == [st EXCEPT !.marks = @ \cup {at}]
             new == IF takers = scope.sinks THEN {<<at, NoRepo>>} ELSE {}
  <2>1. at \in Account /\ at \in Family /\ <<at, NoRepo>> \in Unit /\ pc # "off"
        /\ UNCHANGED scope
    BY <1>8, FamilyUnits DEF AccountCollected
  <2>2. q \in Progress /\ s \in State /\ p \in Progress
    BY <1>0, <2>1, FinishFamilyType DEF TypeOK, State
  <2>3. StoresGrow /\ \A t \in scope.sinks : t \in takers =>
                         stores'[t][<<at, NoRepo>>] >= scope.depth
    <3>1. Emit(<<at, NoRepo>>, takers) /\ scope.sinks \subseteq Sink
      BY <1>0, <1>8, ScopeFields DEF AccountCollected, TypeOK
    <3> QED  BY <1>0, <2>1, <3>1, EmitDeepens DEF StoresGrow
  <2>4. p' = q /\ Checkpointed(q, s, savedOk)
    BY <1>8 DEF AccountCollected
  <2>5. ck' = ck \/ (ck' # None /\ ck'.progress = q)
    BY <1>0, <2>2, <2>4, CheckpointedType
  <2>6. q.scope = p.scope /\ Claims(q) \subseteq Claims(p) \cup new
    BY <2>1, <2>2, FinishAccountClaims
  <2>7. new \in SUBSET Unit /\ \A v \in new, t \in scope.sinks : stores'[t][v] >= scope.depth
    BY <2>1, <2>3
  <2> HIDE DEF q, s, new
  <2> QED  BY <1>0, <2>1, <2>2, <2>3, <2>4, <2>5, <2>6, <2>7, RecordingStep
<1>9. ASSUME NEW rows \in BOOLEAN, AccountFailed(rows) PROVE RecordInv'
  BY <1>0, <1>9, QuietStep DEF AccountFailed
<1>10. ASSUME NEW outcome \in {"whole", "partly", "lost"}, NEW takers \in SUBSET scope.sinks,
              Batch(outcome, takers)
       PROVE  RecordInv'
  <2>1. at \in Family /\ <<at, NoRepo>> \in Unit /\ pc # "off" /\ UNCHANGED <<scope, ck, p>>
    BY <1>10, FamilyUnits DEF Batch
  <2>2. StoresGrow
    <3>1. CASE UNCHANGED stores
      <4>1. \A s \in Sink, v \in Unit : stores[s][v] \in Nat
        BY <1>0, DepthType DEF TypeOK
      <4> QED  BY <3>1, <4>1 DEF StoresGrow
    <3>2. CASE Emit(<<at, NoRepo>>, takers)
      BY <1>0, <2>1, <3>2, EmitDeepens DEF StoresGrow
    <3> QED  BY <1>10, <3>1, <3>2 DEF Batch
  <2>3. p \in Progress
    BY <1>0 DEF TypeOK
  <2> DEFINE new == {}
  <2>4. new \in SUBSET Unit /\ Claims(p) \subseteq Claims(p) \cup new
        /\ \A v \in new, s \in scope.sinks : stores'[s][v] >= scope.depth
    OBVIOUS
  <2> HIDE DEF new
  <2> QED  BY <1>0, <2>1, <2>2, <2>3, <2>4, RecordingStep
<1>11. ASSUME NEW r \in Repo, NEW takers \in SUBSET scope.sinks, NEW savedOk \in BOOLEAN,
              RepoCollected(r, takers, savedOk)
       PROVE  RecordInv'
  <2> DEFINE q == IF takers = scope.sinks THEN WroteRepo(p, at, r) ELSE p
             s == IF at \in BatchOnly THEN st ELSE [st EXCEPT !.facts = @ \cup {<<at, r>>}]
             new == IF takers = scope.sinks THEN {<<at, r>>} ELSE {}
  <2>1. at \in PerRepo /\ at \in Family /\ <<at, r>> \in Unit /\ pc # "off" /\ UNCHANGED scope
    BY <1>0, <1>11, FamilyUnits DEF RepoCollected, Typed, FailuresCounted
  <2>2. q \in Progress /\ s \in State /\ p \in Progress
    BY <1>0, <2>1, WroteRepoType DEF TypeOK, State
  <2>3. StoresGrow /\ \A t \in scope.sinks : t \in takers =>
                         stores'[t][<<at, r>>] >= scope.depth
    <3>1. Emit(<<at, r>>, takers) /\ scope.sinks \subseteq Sink
      BY <1>0, <1>11, ScopeFields DEF RepoCollected, TypeOK
    <3> QED  BY <1>0, <2>1, <3>1, EmitDeepens DEF StoresGrow
  <2>4. p' = q /\ Checkpointed(q, s, savedOk)
    BY <1>11 DEF RepoCollected
  <2>5. ck' = ck \/ (ck' # None /\ ck'.progress = q)
    BY <1>0, <2>2, <2>4, CheckpointedType
  <2>6. q.scope = p.scope /\ Claims(q) \subseteq Claims(p) \cup new
    BY <2>1, <2>2, WroteRepoClaims
  <2>7. new \in SUBSET Unit /\ \A v \in new, t \in scope.sinks : stores'[t][v] >= scope.depth
    BY <2>1, <2>3
  <2> HIDE DEF q, s, new
  <2> QED  BY <1>0, <2>1, <2>2, <2>3, <2>4, <2>5, <2>6, <2>7, RecordingStep
<1>12. ASSUME NEW r \in Repo, RepoFailed(r) \/ BudgetSpent(r) PROVE RecordInv'
  BY <1>0, <1>12, QuietStep DEF RepoFailed, BudgetSpent
<1>13. ASSUME StopShort PROVE RecordInv'
  BY <1>0, <1>13, QuietStep DEF StopShort
<1>14. ASSUME NEW savedOk \in BOOLEAN, CloseFamily(savedOk) PROVE RecordInv'
  <2> DEFINE whole == failed = 0 /\ EveryRepoWritten(at)
             q == IF whole THEN FinishFamily(p, at, repos) ELSE p
  <2>1. at \in PerRepo /\ at \in Family /\ pc # "off" /\ UNCHANGED <<stores, scope>>
    BY <1>0, <1>14, FamilyUnits DEF CloseFamily, Typed, FailuresCounted
  <2>2. q \in Progress /\ p \in Progress /\ st \in State /\ repos \in SUBSET Repo
    BY <1>0, <2>1, FinishFamilyType DEF TypeOK
  <2>3. p' = q /\ Checkpointed(q, st, savedOk)
    BY <1>14 DEF CloseFamily
  <2>4. ck' = ck \/ (ck' # None /\ ck'.progress = q)
    BY <1>0, <2>2, <2>3, CheckpointedType
  <2> DEFINE new == {}
  <2>5. q.scope = p.scope /\ Claims(q) \subseteq Claims(p)
    BY <2>1, <2>2, FinishReposClaims DEF EveryRepoWritten
  <2>6. StoresGrow
    <3>1. \A s \in Sink, v \in Unit : stores[s][v] \in Nat
      BY <1>0, DepthType DEF TypeOK
    <3> QED  BY <2>1, <3>1 DEF StoresGrow
  <2>7. new \in SUBSET Unit /\ Claims(q) \subseteq Claims(p) \cup new
        /\ \A v \in new, s \in scope.sinks : stores'[s][v] >= scope.depth
    BY <2>5
  <2> HIDE DEF q, whole, new
  <2> QED  BY <1>0, <2>1, <2>2, <2>3, <2>4, <2>5, <2>6, <2>7, RecordingStep
<1>15. ASSUME NEW savedOk \in BOOLEAN, Finish(savedOk) PROVE RecordInv'
  BY <1>0, <1>15, QuietStep DEF Finish
<1>16. ASSUME NEW removed \in BOOLEAN, Close(removed) PROVE RecordInv'
  BY <1>0, <1>16, QuietStep DEF Close
<1>17. ASSUME GoBack \/ GiveUp PROVE RecordInv'
  BY <1>0, <1>17, QuietStep DEF GoBack, GiveUp, Idle
<1>18. CASE UNCHANGED vars
  <2>1. UNCHANGED <<stores, ck, pc, p, scope>>
    BY <1>18 DEF vars
  <2> QED  BY <1>0, <2>1 DEF RecordInv, OwnScope, RecordedIsHeld, Held
<1> QED
  BY <1>1, <1>2, <1>3, <1>4, <1>5, <1>6, <1>7, <1>8, <1>9, <1>10, <1>11, <1>12, <1>13,
     <1>14, <1>15, <1>16, <1>17, <1>18 DEF Next, Walk, Operator

LEMMA InitRecord == Init => RecordInv
BY InitTyped DEF Init, RecordInv, OwnScope, RecordedIsHeld

\* What the checkpoint records every store of its walk holds, as deep as that
\* walk goes, at every moment of every run.
THEOREM RecordSound == Spec => []RecordedIsHeld
<1>1. Spec => []RecordInv
  BY InitRecord, NextRecord, PTL DEF Spec
<1>2. RecordInv => RecordedIsHeld
  BY DEF RecordInv
<1> QED  BY <1>1, <1>2, PTL

-----------------------------------------------------------------------------
(* What any step does to the record, and what follows from it.             *)

\* The record of a process only ever gains.
Grows == /\ p'.scope = p.scope /\ p.complete \subseteq p'.complete
         /\ Skips(p) \subseteq Skips(p')

\* A step of a process that goes on: the record grows, the file is left, takes
\* the record, or goes with the last family; before is what a pass began with.
GoesOn ==
    /\ pc # "off" /\ pc' # "off" /\ Grows
    /\ IF pc = "pass" THEN pc' = "pass" \/ (pc' = "family" /\ before' = p /\ p' = p)
                      ELSE before' = before
    /\ \/ ck' = ck
       \/ ck' # None /\ ck'.progress = p'
       \/ pc = "close" /\ ~cancelled /\ Unfinished(p) = {}

\* The process has gone, or there is none.
NotRunning == pc = "off" \/ (pc' = "off" /\ ck' = ck)

LEMMA WroteRepoGrows ==
    ASSUME NEW q \in Progress, NEW f \in Family, NEW r \in Repo
    PROVE  LET q2 == WroteRepo(q, f, r)
           IN  /\ q2.scope = q.scope /\ q2.complete = q.complete
               /\ Skips(q) \subseteq Skips(q2)
BY DEF WroteRepo, Progress, Skips

LEMMA FinishFamilyGrows ==
    ASSUME NEW q \in Progress, NEW f \in Family, NEW covered \in SUBSET Repo
    PROVE  LET q2 == FinishFamily(q, f, covered)
           IN  /\ q2.scope = q.scope /\ q2.complete = q.complete \cup {f}
               /\ Skips(q) \subseteq Skips(q2)
BY DEF FinishFamily, Progress, Skips

LEMMA StepGrows ==
    ASSUME Typed, Typed', [Next]_vars PROVE NotRunning \/ GoesOn
<1> USE DEF disk, process
<1>0. TypeOK /\ p \in Progress /\ repos \in SUBSET Repo
  BY DEF Typed, TypeOK
<1>1. ASSUME (\E sc \in Scopes : Ask(sc)) \/ DeleteRefused \/ Start
      PROVE  NotRunning
  BY <1>1 DEF Ask, DeleteRefused, Start, NotRunning
<1>2. ASSUME Crash \/ ListingFails \/ Interrupted \/ GiveUp PROVE NotRunning
  BY <1>2 DEF Crash, ListingFails, Interrupted, GiveUp, Idle, NotRunning
<1>3. ASSUME Cancel \/ StepOver \/ StopShort \/ GoBack PROVE NotRunning \/ GoesOn
  BY <1>3 DEF Cancel, StepOver, StopShort, GoBack, NotRunning, GoesOn, Grows
<1>4. ASSUME NEW listing \in SUBSET Repo, BeginPass(listing) PROVE GoesOn
  BY <1>4 DEF BeginPass, GoesOn, Grows
<1>5. ASSUME NEW takers \in SUBSET scope.sinks, NEW savedOk \in BOOLEAN,
             AccountCollected(takers, savedOk)
      PROVE  GoesOn
  <2> DEFINE q == IF takers = scope.sinks THEN FinishFamily(p, at, {}) ELSE p
             s == [st EXCEPT !.marks = @ \cup {at}]
  <2>1. at \in Family /\ pc = "family" /\ pc' = "family" /\ before' = before
    BY <1>5, FamilyUnits DEF AccountCollected
  <2>2. q \in Progress /\ s \in State
    BY <1>0, <2>1, FinishFamilyType DEF TypeOK, State
  <2>3. p' = q /\ Checkpointed(q, s, savedOk)
    BY <1>5 DEF AccountCollected
  <2>4. ck' = ck \/ (ck' # None /\ ck'.progress = q)
    BY <1>0, <2>2, <2>3, CheckpointedType
  <2>5. q.scope = p.scope /\ p.complete \subseteq q.complete /\ Skips(p) \subseteq Skips(q)
    BY <1>0, <2>1, FinishFamilyGrows
  <2> HIDE DEF q, s
  <2> QED  BY <2>1, <2>3, <2>4, <2>5 DEF GoesOn, Grows
<1>6. ASSUME NEW rows \in BOOLEAN, AccountFailed(rows) PROVE GoesOn
  BY <1>6 DEF AccountFailed, GoesOn, Grows
<1>7. ASSUME NEW outcome \in {"whole", "partly", "lost"}, NEW takers \in SUBSET scope.sinks,
             Batch(outcome, takers)
      PROVE  GoesOn
  BY <1>7 DEF Batch, GoesOn, Grows
<1>8. ASSUME NEW r \in Repo, NEW takers \in SUBSET scope.sinks, NEW savedOk \in BOOLEAN,
             RepoCollected(r, takers, savedOk)
      PROVE  GoesOn
  <2> DEFINE q == IF takers = scope.sinks THEN WroteRepo(p, at, r) ELSE p
             s == IF at \in BatchOnly THEN st ELSE [st EXCEPT !.facts = @ \cup {<<at, r>>}]
  <2>1. at \in Family /\ <<at, r>> \in Unit /\ pc = "repos" /\ pc' = "repos" /\ before' = before
    BY <1>8, FamilyUnits DEF RepoCollected, Typed, FailuresCounted
  <2>2. q \in Progress /\ s \in State
    BY <1>0, <2>1, WroteRepoType DEF TypeOK, State
  <2>3. p' = q /\ Checkpointed(q, s, savedOk)
    BY <1>8 DEF RepoCollected
  <2>4. ck' = ck \/ (ck' # None /\ ck'.progress = q)
    BY <1>0, <2>2, <2>3, CheckpointedType
  <2>5. q.scope = p.scope /\ p.complete \subseteq q.complete /\ Skips(p) \subseteq Skips(q)
    BY <1>0, <2>1, WroteRepoGrows
  <2> HIDE DEF q, s
  <2> QED  BY <2>1, <2>3, <2>4, <2>5 DEF GoesOn, Grows
<1>9. ASSUME NEW r \in Repo, RepoFailed(r) \/ BudgetSpent(r) PROVE GoesOn
  BY <1>9 DEF RepoFailed, BudgetSpent, GoesOn, Grows
<1>10. ASSUME NEW savedOk \in BOOLEAN, CloseFamily(savedOk) PROVE GoesOn
  <2> DEFINE whole == failed = 0 /\ EveryRepoWritten(at)
             q == IF whole THEN FinishFamily(p, at, repos) ELSE p
  <2>1. at \in Family /\ pc = "repos" /\ pc' = "family" /\ before' = before
    BY <1>10, FamilyUnits DEF CloseFamily, Typed, FailuresCounted
  <2>2. q \in Progress /\ st \in State
    BY <1>0, <2>1, FinishFamilyType DEF TypeOK
  <2>3. p' = q /\ Checkpointed(q, st, savedOk)
    BY <1>10 DEF CloseFamily
  <2>4. ck' = ck \/ (ck' # None /\ ck'.progress = q)
    BY <1>0, <2>2, <2>3, CheckpointedType
  <2>5. q.scope = p.scope /\ p.complete \subseteq q.complete /\ Skips(p) \subseteq Skips(q)
    BY <1>0, <2>1, FinishFamilyGrows
  <2> HIDE DEF q, whole
  <2> QED  BY <2>1, <2>3, <2>4, <2>5 DEF GoesOn, Grows
<1>11. ASSUME NEW savedOk \in BOOLEAN, Finish(savedOk) PROVE GoesOn
  BY <1>11 DEF Finish, GoesOn, Grows
<1>12. ASSUME NEW removed \in BOOLEAN, Close(removed) PROVE GoesOn
  BY <1>12 DEF Close, GoesOn, Grows
<1>13. CASE UNCHANGED vars
  BY <1>13 DEF vars, NotRunning, GoesOn, Grows
<1> QED
  BY <1>1, <1>2, <1>3, <1>4, <1>5, <1>6, <1>7, <1>8, <1>9, <1>10, <1>11, <1>12, <1>13
     DEF Next, Walk, Operator

-----------------------------------------------------------------------------
(* What the file records is not work again.                                *)

\* The record in memory is of the file's walk and says what the file says.
FileBehind == pc # "off" /\ ck # None =>
                 /\ ck.progress.scope = p.scope
                 /\ Skips(ck.progress) \subseteq Skips(p)

BehindInv == RecordInv /\ FileBehind

LEMMA NextBehind == BehindInv /\ [Next]_vars => BehindInv'
<1> SUFFICES ASSUME BehindInv, [Next]_vars PROVE FileBehind'
  BY NextRecord DEF BehindInv
<1>1. RecordInv' /\ Typed /\ Typed'
  BY NextRecord DEF BehindInv, RecordInv
<1>2. CASE pc' = "off"
  BY <1>2 DEF FileBehind
<1>3. CASE pc = "off" /\ pc' # "off"
  <2>1. Start \/ UNCHANGED vars
    BY <1>3 DEF Next, Walk, Operator, Ask, DeleteRefused, Cancel, Crash, BeginPass,
       ListingFails, StepOver, AccountCollected, AccountFailed, Batch, RepoCollected,
       RepoFailed, BudgetSpent, StopShort, Interrupted, CloseFamily, Finish, Close,
       GoBack, GiveUp, SteppedOver, process
  <2>2. Start
    BY <1>3, <2>1 DEF vars
  <2> QED  BY <2>2 DEF Start, FileBehind, disk
<1>4. CASE GoesOn
  <2> SUFFICES ASSUME ck' # None
               PROVE  ck'.progress.scope = p'.scope /\ Skips(ck'.progress) \subseteq Skips(p')
    BY DEF FileBehind, Skips
  <2>1. CASE ck' = ck
    BY <1>4, <2>1 DEF BehindInv, FileBehind, GoesOn, Grows
  <2>2. CASE ck'.progress = p'
    BY <2>2
  <2>3. CASE ck' # ck /\ ck'.progress # p'
    <3>1. pc = "close"
      BY <1>4, <2>3 DEF GoesOn
    <3>2. ck' = None \/ ck' = ck
      BY <3>1, <2>3 DEF Next, Walk, Operator, Ask, DeleteRefused, Start, Cancel, Crash, BeginPass,
         ListingFails, StepOver, AccountCollected, AccountFailed, Batch, RepoCollected,
         RepoFailed, BudgetSpent, StopShort, Interrupted, CloseFamily, Finish, Close,
         GoBack, GiveUp, vars, disk
    <3> QED  BY <2>3, <3>2
  <2> QED  BY <2>1, <2>2, <2>3
<1> QED  BY <1>1, <1>2, <1>3, <1>4, StepGrows DEF NotRunning

LEMMA InitBehind == Init => BehindInv
BY InitRecord DEF Init, BehindInv, FileBehind

LEMMA KeptStep ==
    BehindInv /\ [Next]_vars =>
        (ck # None =>
           \/ ck' # None /\ Skips(ck.progress) \subseteq Skips(ck'.progress)
           \/ pc = "off"
           \/ /\ pc = "close" /\ ~cancelled
              /\ ck.progress.scope.families \subseteq p.complete)
<1> SUFFICES ASSUME BehindInv, [Next]_vars, ck # None, pc # "off"
             PROVE  \/ ck' # None /\ Skips(ck.progress) \subseteq Skips(ck'.progress)
                    \/ /\ pc = "close" /\ ~cancelled
                       /\ ck.progress.scope.families \subseteq p.complete
  OBVIOUS
<1>1. ck.progress.scope = p.scope /\ Skips(ck.progress) \subseteq Skips(p)
  BY DEF BehindInv, FileBehind
<1>2. CASE ck' = ck
  BY <1>2
<1>3. CASE ck' # ck
  <2>1. GoesOn
    BY <1>3, NextRecord, StepGrows DEF BehindInv, RecordInv, NotRunning
  <2>2. CASE ck' # None /\ ck'.progress = p'
    BY <1>1, <2>1, <2>2 DEF GoesOn, Grows
  <2>3. CASE pc = "close" /\ ~cancelled /\ Unfinished(p) = {}
    BY <1>1, <2>3 DEF Unfinished
  <2> QED  BY <1>3, <2>1, <2>2, <2>3 DEF GoesOn
<1> QED  BY <1>2, <1>3

\* Whatever the checkpoint file records stays recorded until the operator
\* deletes it or a walk nobody stopped has left no family.
THEOREM RecordStays == Spec => RecordKept
<1>1. Spec => []BehindInv
  BY InitBehind, NextBehind, PTL DEF Spec
<1> QED  BY <1>1, KeptStep, PTL DEF Spec, RecordKept

-----------------------------------------------------------------------------
(* A family that completed is marked as run.                               *)

Passing == {"family", "repos", "close", "after"}

\* Between passes a resumed record may be ahead of the state read from disk:
\* the next pass begins by copying it over.
AheadOnlyResumed == pc = "pass" /\ ~resumed => p.complete \subseteq st.marks

MarkedInv == Typed /\ CompleteIsMarked /\ AheadOnlyResumed

LEMMA NextMarked == MarkedInv /\ [Next]_vars => MarkedInv'
<1> SUFFICES ASSUME MarkedInv, [Next]_vars
             PROVE  CompleteIsMarked' /\ AheadOnlyResumed'
  BY NextTyped DEF MarkedInv
<1> USE DEF CompleteIsMarked, AheadOnlyResumed, disk, process
<1>0. Typed /\ TypeOK /\ p \in Progress /\ st \in State /\ repos \in SUBSET Repo
  BY DEF MarkedInv, Typed, TypeOK
<1>1. ASSUME (\E sc \in Scopes : Ask(sc)) \/ DeleteRefused \/ Crash \/ ListingFails
             \/ Interrupted \/ GiveUp
      PROVE  CompleteIsMarked' /\ AheadOnlyResumed'
  BY <1>1 DEF MarkedInv, Ask, DeleteRefused, Crash, ListingFails, Interrupted, GiveUp, Idle
<1>2. ASSUME Start PROVE CompleteIsMarked' /\ AheadOnlyResumed'
  BY <1>2 DEF Start, Fresh
<1>3. ASSUME (\E r \in Repo : RepoFailed(r) \/ BudgetSpent(r)) \/ Cancel \/ StepOver
             \/ StopShort \/ GoBack
             \/ (\E ok \in BOOLEAN : Finish(ok) \/ Close(ok))
             \/ (\E outcome \in {"whole", "partly", "lost"}, takers \in SUBSET scope.sinks :
                    Batch(outcome, takers))
      PROVE  CompleteIsMarked' /\ AheadOnlyResumed'
  <2>1. UNCHANGED <<p, st, resumed>>
    BY <1>3 DEF RepoFailed, BudgetSpent, Cancel, StepOver, StopShort, GoBack, Finish, Close, Batch
  <2>2. \/ pc' = pc
        \/ pc \in Passing
    BY <1>3 DEF RepoFailed, BudgetSpent, Cancel, StepOver, StopShort, GoBack, Finish, Close,
       Batch, Passing
  <2> QED  BY <2>1, <2>2 DEF MarkedInv, Passing
<1>4. ASSUME NEW listing \in SUBSET Repo, BeginPass(listing)
      PROVE  CompleteIsMarked' /\ AheadOnlyResumed'
  <2>1. p.complete \subseteq OpenedState.marks
    BY <1>4 DEF MarkedInv, BeginPass, OpenedState, Restore
  <2> QED  BY <1>4, <2>1 DEF BeginPass
<1>5. ASSUME NEW takers \in SUBSET scope.sinks, NEW savedOk \in BOOLEAN,
             AccountCollected(takers, savedOk)
      PROVE  CompleteIsMarked' /\ AheadOnlyResumed'
  <2>1. /\ pc = "family" /\ pc' = "family" /\ at \in Family
        /\ p' = IF takers = scope.sinks THEN FinishFamily(p, at, {}) ELSE p
        /\ st' = [st EXCEPT !.marks = @ \cup {at}]
    BY <1>5, FamilyUnits DEF AccountCollected
  <2>2. st'.marks = st.marks \cup {at}
    BY <1>0, <2>1 DEF State
  <2>3. p'.complete \subseteq p.complete \cup {at}
    BY <1>0, <2>1, FinishFamilyGrows
  <2> QED  BY <2>1, <2>2, <2>3 DEF MarkedInv
<1>6. ASSUME NEW rows \in BOOLEAN, AccountFailed(rows)
      PROVE  CompleteIsMarked' /\ AheadOnlyResumed'
  <2>1. st.marks \subseteq st'.marks
    BY <1>0, <1>6 DEF AccountFailed, State
  <2> QED  BY <1>6, <2>1 DEF MarkedInv, AccountFailed
<1>7. ASSUME NEW r \in Repo, NEW takers \in SUBSET scope.sinks, NEW savedOk \in BOOLEAN,
             RepoCollected(r, takers, savedOk)
      PROVE  CompleteIsMarked' /\ AheadOnlyResumed'
  <2>1. /\ pc = "repos" /\ pc' = "repos" /\ at \in Family
        /\ p' = IF takers = scope.sinks THEN WroteRepo(p, at, r) ELSE p
        /\ st' = IF at \in BatchOnly THEN st ELSE [st EXCEPT !.facts = @ \cup {<<at, r>>}]
    BY <1>0, <1>7, FamilyUnits DEF RepoCollected, Typed, FailuresCounted
  <2>2. st'.marks = st.marks /\ p'.complete = p.complete
    BY <1>0, <2>1, WroteRepoGrows DEF State
  <2> QED  BY <2>1, <2>2 DEF MarkedInv
<1>8. ASSUME NEW savedOk \in BOOLEAN, CloseFamily(savedOk)
      PROVE  CompleteIsMarked' /\ AheadOnlyResumed'
  <2>1. /\ pc = "repos" /\ pc' = "family" /\ at \in Family
        /\ p' = IF failed = 0 /\ EveryRepoWritten(at) THEN FinishFamily(p, at, repos) ELSE p
        /\ st' = IF failed > 0 /\ failed = toCover
                 THEN st ELSE [st EXCEPT !.marks = @ \cup {at}]
    BY <1>0, <1>8, FamilyUnits DEF CloseFamily, Typed, FailuresCounted
  <2>2. CASE failed = 0
    <3>1. st'.marks = st.marks \cup {at}
      BY <1>0, <2>1, <2>2 DEF State
    <3>2. p'.complete \subseteq p.complete \cup {at}
      BY <1>0, <2>1, FinishFamilyGrows
    <3> QED  BY <2>1, <3>1, <3>2 DEF MarkedInv
  <2>3. CASE failed # 0
    <3>1. p' = p /\ st.marks \subseteq st'.marks
      BY <1>0, <2>1, <2>3 DEF State
    <3> QED  BY <2>1, <3>1 DEF MarkedInv
  <2> QED  BY <2>2, <2>3
<1>9. CASE UNCHANGED vars
  BY <1>9 DEF MarkedInv, vars
<1> QED
  BY <1>1, <1>2, <1>3, <1>4, <1>5, <1>6, <1>7, <1>8, <1>9 DEF Next, Walk, Operator

LEMMA InitMarked == Init => MarkedInv
BY InitTyped DEF Init, MarkedInv, CompleteIsMarked, AheadOnlyResumed

\* A family that completed in this process, or in the one it resumes, is one
\* the saved state says has run.
THEOREM CompleteMarked == Spec => []CompleteIsMarked
<1>1. Spec => []MarkedInv
  BY InitMarked, NextMarked, PTL DEF Spec
<1>2. MarkedInv => CompleteIsMarked
  BY DEF MarkedInv
<1> QED  BY <1>1, <1>2, PTL

-----------------------------------------------------------------------------
(* A pass that recorded something is seen to have.                         *)

\* A pass only adds to the record it began with.
Gaining == pc \in Passing => /\ before.complete \subseteq p.complete
                             /\ Skips(before) \subseteq Skips(p)

GainInv == Typed /\ Gaining

LEMMA NextGain == GainInv /\ [Next]_vars => GainInv'
<1> SUFFICES ASSUME GainInv, [Next]_vars PROVE Gaining'
  BY NextTyped DEF GainInv
<1>1. Typed /\ Typed' /\ Gaining
  BY NextTyped DEF GainInv
<1>2. CASE pc' = "off"
  BY <1>2 DEF Gaining, Passing
<1>3. CASE pc = "off"
  <2>1. pc' \in {"off", "pass"}
    BY <1>3 DEF Next, Walk, Operator, Ask, DeleteRefused, Start, Cancel, Crash, BeginPass,
       ListingFails, StepOver, AccountCollected, AccountFailed, Batch, RepoCollected,
       RepoFailed, BudgetSpent, StopShort, Interrupted, CloseFamily, Finish, Close,
       GoBack, GiveUp, SteppedOver, process, vars, Idle
  <2> QED  BY <2>1 DEF Gaining, Passing
<1>4. CASE GoesOn
  <2>1. CASE pc = "pass"
    BY <1>4, <2>1 DEF GoesOn, Gaining, Passing, Skips
  <2>2. CASE pc # "pass"
    <3>1. pc \in Passing /\ before' = before
      BY <1>1, <1>4, <2>2 DEF GoesOn, Passing, Typed, TypeOK
    <3>2. /\ before.complete \subseteq p.complete /\ Skips(before) \subseteq Skips(p)
          /\ p.complete \subseteq p'.complete /\ Skips(p) \subseteq Skips(p')
      BY <1>1, <1>4, <3>1 DEF GoesOn, Grows, Gaining
    <3> QED  BY <3>1, <3>2 DEF Gaining, Skips
  <2> QED  BY <2>1, <2>2
<1> QED  BY <1>1, <1>2, <1>3, <1>4, StepGrows DEF NotRunning

LEMMA UnitsFinite == IsFiniteSet(Family) /\ IsFiniteSet(Unit)
<1>1. IsFiniteSet(Family)
  BY FS_Interval, FamiliesAssumption DEF Family
<1>2. IsFiniteSet(Repo \cup {NoRepo})
  BY FS_AddElement, FamiliesAssumption
<1> QED  BY <1>1, <1>2, FS_Product DEF Unit

\* Where a record only gained and counts the same, nothing was recorded.
LEMMA SameCountSameRecord ==
    ASSUME NEW q \in Progress, NEW q2 \in Progress,
           q.complete \subseteq q2.complete, Skips(q) \subseteq Skips(q2),
           Recorded(q2) = Recorded(q)
    PROVE  Skips(q2) = Skips(q)
<1> DEFINE open  == {u \in q.written : u[1] \notin q.complete}
           open2 == {u \in q2.written : u[1] \notin q2.complete}
<1>0. q.complete \subseteq Family /\ q2.complete \subseteq Family
      /\ q.written \subseteq Unit /\ q2.written \subseteq Unit
  BY DEF Progress
<1>1. Cardinality(q2.complete) = Cardinality(q.complete)
      /\ Cardinality(open2) = Cardinality(open)
  BY DEF Recorded
<1>2. IsFiniteSet(q2.complete) /\ IsFiniteSet(open2)
  <2>1. q2.complete \in SUBSET Family /\ open2 \in SUBSET Unit
    BY <1>0
  <2> QED  BY <2>1, UnitsFinite, FS_Subset
<1>3. q2.complete = q.complete
  BY <1>1, <1>2, FS_Subset
<1>4. open \subseteq open2
  BY <1>0, <1>3 DEF Skips
<1>5. open2 = open
  BY <1>1, <1>2, <1>4, FS_Subset
<1>6. \A u \in Unit : u \in Skips(q2) => u \in Skips(q)
  BY <1>3, <1>5 DEF Skips
<1> QED  BY <1>6 DEF Skips

\* A step from the end of a pass to no process, in which nothing went wrong,
\* is the verdict.
LEMMA StuckStep ==
    GainInv /\ [Next]_vars =>
        (pc = "after" /\ pc' = "off" /\ mishaps' = mishaps /\ ~cancelled
         /\ Unfinished(p) # {} /\ Retry /\ passes < RetryLimit
         => Skips(p) = Skips(before))
<1> SUFFICES ASSUME GainInv, [Next]_vars, pc = "after", pc' = "off", mishaps' = mishaps,
                    ~cancelled, Unfinished(p) # {}, Retry, passes < RetryLimit
             PROVE  Skips(p) = Skips(before)
  OBVIOUS
<1>1. /\ p \in Progress /\ before \in Progress
      /\ mishaps \in Nat /\ passes \in Nat /\ RetryLimit \in Nat
      /\ before.complete \subseteq p.complete /\ Skips(before) \subseteq Skips(p)
  BY RunAssumption DEF GainInv, Typed, TypeOK, Gaining, Passing
<1>2. ~Crash /\ ~Cancel
  BY <1>1 DEF Crash, Cancel, Mishap
<1>3. GiveUp
  BY <1>2 DEF Next, Walk, Operator, Ask, DeleteRefused, Start, BeginPass,
     ListingFails, StepOver, AccountCollected, AccountFailed, Batch, RepoCollected,
     RepoFailed, BudgetSpent, StopShort, Interrupted, CloseFamily, Finish, Close,
     GoBack, vars
<1>4. ~Gained
  BY <1>1, <1>3 DEF GiveUp
<1> QED  BY <1>1, <1>4, SameCountSameRecord DEF Gained

LEMMA InitGain == Init => GainInv
BY InitTyped DEF Init, GainInv, Gaining, Passing

\* A walk to be retried never gives up early after a pass that recorded
\* anything: families complete and repositories written are counted apart.
THEOREM GivesUpOnlyStuck == Spec => GaveUpOnlyIfStuck
<1>1. Spec => []GainInv
  BY InitGain, NextGain, PTL DEF Spec
<1> QED  BY <1>1, StuckStep, PTL DEF Spec, GaveUpOnlyIfStuck

-----------------------------------------------------------------------------
(* A walk the operator sees end covered it all.                            *)

\* Every repository all passes of the walk listed is among those a complete
\* family covered.
Covered(q) == \A f \in q.complete \cap PerRepo : throughout \subseteq q.covers[f]

CoveredNext(q) == \A f \in q.complete \cap PerRepo : throughout' \subseteq q.covers[f]

\* So it is on disk and in memory, and the listing at hand has them too.
WholeListing ==
    /\ ck # None => Covered(ck.progress)
    /\ pc # "off" => Covered(p)
    /\ pc \in {"family", "repos"} => throughout \subseteq repos

CoverInv == RecordInv /\ WholeListing

\* A step that leaves the record, or saves it, and may shorten throughout.
LEMMA ShorterStaysCovered ==
    ASSUME NEW q, Covered(q), throughout' \subseteq throughout
    PROVE  CoveredNext(q)
BY DEF Covered, CoveredNext

LEMMA NextCover == CoverInv /\ [Next]_vars => CoverInv'
<1> SUFFICES ASSUME CoverInv, [Next]_vars PROVE WholeListing'
  BY NextRecord DEF CoverInv
<1> USE DEF disk, process
<1>0. Typed /\ TypeOK /\ p \in Progress /\ repos \in SUBSET Repo /\ throughout \in SUBSET Repo
  BY DEF CoverInv, RecordInv, Typed, TypeOK
<1>1. SUFFICES /\ ck' # None => CoveredNext(ck'.progress)
               /\ pc' # "off" => CoveredNext(p')
               /\ pc' \in {"family", "repos"} => throughout' \subseteq repos'
  BY DEF WholeListing, Covered, CoveredNext
<1>2. ASSUME (\E sc \in Scopes : Ask(sc)) \/ DeleteRefused \/ Crash \/ ListingFails
             \/ Interrupted \/ GiveUp
      PROVE  /\ ck' # None => CoveredNext(ck'.progress)
             /\ pc' = "off"
  BY <1>2 DEF CoverInv, WholeListing, Ask, DeleteRefused, Crash, ListingFails, Interrupted,
     GiveUp, Idle, Covered, CoveredNext
<1>3. ASSUME Start
      PROVE  /\ ck' # None => CoveredNext(ck'.progress)
             /\ CoveredNext(p') /\ pc' = "pass"
  <2>1. CASE ck = None
    BY <1>3, <2>1 DEF Start, Fresh, CoveredNext
  <2>2. CASE ck # None
    BY <1>3, <2>2, ShorterStaysCovered DEF Start, CoverInv, WholeListing
  <2> QED  BY <2>1, <2>2
<1>4. ASSUME \/ \E r \in Repo : RepoFailed(r) \/ BudgetSpent(r)
             \/ Cancel \/ StepOver \/ StopShort \/ GoBack
             \/ \E ok \in BOOLEAN : Finish(ok) \/ Close(ok)
             \/ \E outcome \in {"whole", "partly", "lost"}, takers \in SUBSET scope.sinks :
                   Batch(outcome, takers)
             \/ \E rows \in BOOLEAN : AccountFailed(rows)
      PROVE  /\ ck' # None => CoveredNext(ck'.progress)
             /\ pc' # "off" => CoveredNext(p')
             /\ pc' \in {"family", "repos"} => throughout' \subseteq repos'
  <2>1. /\ UNCHANGED <<p, repos, throughout>> /\ pc # "off"
        /\ ck' = ck \/ ck' = None
        /\ pc' \in {"family", "repos"} => pc \in {"family", "repos"}
    BY <1>4 DEF RepoFailed, BudgetSpent, Cancel, StepOver, StopShort, GoBack, Finish, Close,
       Batch, AccountFailed
  <2> QED  BY <2>1 DEF CoverInv, WholeListing, Covered, CoveredNext
<1>5. ASSUME NEW listing \in SUBSET Repo, BeginPass(listing)
      PROVE  /\ ck' # None => CoveredNext(ck'.progress)
             /\ CoveredNext(p') /\ throughout' \subseteq repos'
  <2>1. throughout' \subseteq throughout /\ repos' = listing /\ throughout' \subseteq listing
        /\ UNCHANGED <<ck, p>> /\ pc # "off"
    BY <1>5 DEF BeginPass
  <2> QED  BY <2>1, ShorterStaysCovered DEF CoverInv, WholeListing
<1>6. ASSUME NEW q \in Progress, NEW s \in State, NEW ok \in BOOLEAN,
             Checkpointed(q, s, ok), p' = q, CoveredNext(q), UNCHANGED throughout
      PROVE  /\ ck' # None => CoveredNext(ck'.progress)
             /\ CoveredNext(p')
  <2>1. ck' = ck \/ (ck' # None /\ ck'.progress = q)
    BY <1>0, <1>6, CheckpointedType
  <2> QED  BY <1>6, <2>1 DEF CoverInv, WholeListing, Covered, CoveredNext
<1>7. ASSUME NEW takers \in SUBSET scope.sinks, NEW savedOk \in BOOLEAN,
             AccountCollected(takers, savedOk)
      PROVE  /\ ck' # None => CoveredNext(ck'.progress)
             /\ CoveredNext(p') /\ throughout' \subseteq repos'
  <2> DEFINE q == IF takers = scope.sinks THEN FinishFamily(p, at, {}) ELSE p
             s == [st EXCEPT !.marks = @ \cup {at}]
  <2>1. /\ at \in Account /\ at \in Family /\ at \notin PerRepo /\ pc = "family"
        /\ UNCHANGED <<repos, throughout>>
    BY <1>7, FamilyUnits DEF AccountCollected, PerRepo
  <2>2. q \in Progress /\ s \in State
    BY <1>0, <2>1, FinishFamilyType DEF TypeOK, State
  <2>3. p' = q /\ Checkpointed(q, s, savedOk)
    BY <1>7 DEF AccountCollected
  <2>4. Covered(p) /\ throughout \subseteq repos
    BY <2>1 DEF CoverInv, WholeListing
  <2>5. CoveredNext(q)
    BY <1>0, <2>1, <2>4 DEF FinishFamily, Progress, Covered, CoveredNext, PerRepo
  <2> HIDE DEF q, s
  <2> QED  BY <1>6, <2>1, <2>2, <2>3, <2>4, <2>5
<1>8. ASSUME NEW r \in Repo, NEW takers \in SUBSET scope.sinks, NEW savedOk \in BOOLEAN,
             RepoCollected(r, takers, savedOk)
      PROVE  /\ ck' # None => CoveredNext(ck'.progress)
             /\ CoveredNext(p') /\ throughout' \subseteq repos'
  <2> DEFINE q == IF takers = scope.sinks THEN WroteRepo(p, at, r) ELSE p
             s == IF at \in BatchOnly THEN st ELSE [st EXCEPT !.facts = @ \cup {<<at, r>>}]
  <2>1. /\ at \in Family /\ <<at, r>> \in Unit /\ pc = "repos"
        /\ UNCHANGED <<repos, throughout>>
    BY <1>0, <1>8, FamilyUnits DEF RepoCollected, Typed, FailuresCounted
  <2>2. q \in Progress /\ s \in State
    BY <1>0, <2>1, WroteRepoType DEF TypeOK, State
  <2>3. p' = q /\ Checkpointed(q, s, savedOk)
    BY <1>8 DEF RepoCollected
  <2>4. Covered(p) /\ throughout \subseteq repos
    BY <2>1 DEF CoverInv, WholeListing
  <2>5. CoveredNext(q)
    BY <1>0, <2>1, <2>4 DEF WroteRepo, Progress, Covered, CoveredNext
  <2> HIDE DEF q, s
  <2> QED  BY <1>6, <2>1, <2>2, <2>3, <2>4, <2>5
<1>9. ASSUME NEW savedOk \in BOOLEAN, CloseFamily(savedOk)
      PROVE  /\ ck' # None => CoveredNext(ck'.progress)
             /\ CoveredNext(p') /\ throughout' \subseteq repos'
  <2> DEFINE whole == failed = 0 /\ EveryRepoWritten(at)
             q == IF whole THEN FinishFamily(p, at, repos) ELSE p
  <2>1. /\ at \in Family /\ at \in PerRepo /\ pc = "repos"
        /\ UNCHANGED <<repos, throughout>>
    BY <1>0, <1>9, FamilyUnits DEF CloseFamily, Typed, FailuresCounted
  <2>2. q \in Progress /\ st \in State
    BY <1>0, <2>1, FinishFamilyType DEF TypeOK
  <2>3. p' = q /\ Checkpointed(q, st, savedOk)
    BY <1>9 DEF CloseFamily
  <2>4. Covered(p) /\ throughout \subseteq repos
    BY <2>1 DEF CoverInv, WholeListing
  <2>5. CoveredNext(q)
    BY <1>0, <2>1, <2>4 DEF FinishFamily, Progress, Covered, CoveredNext
  <2> HIDE DEF q, whole
  <2> QED  BY <1>6, <2>1, <2>2, <2>3, <2>4, <2>5
<1>10. CASE UNCHANGED vars
  BY <1>10 DEF CoverInv, WholeListing, vars, Covered, CoveredNext
<1> QED
  BY <1>2, <1>3, <1>4, <1>5, <1>7, <1>8, <1>9, <1>10 DEF Next, Walk, Operator

LEMMA InitCover == Init => CoverInv
BY InitRecord DEF Init, CoverInv, WholeListing

\* What an operator no longer wants is what every store holds, but for the
\* rows of batched queries.
LEMMA EndStep ==
    CoverInv /\ [Next]_vars =>
        (wanted /\ ~wanted' =>
           \A s \in scope.sinks, f \in scope.families :
              \A r \in IF f \in Account THEN {NoRepo} ELSE throughout :
                 stores[s][<<f, r>>] >= scope.depth)
<1> SUFFICES ASSUME CoverInv, [Next]_vars, wanted, ~wanted',
                    NEW s \in scope.sinks, NEW f \in scope.families,
                    NEW r \in IF f \in Account THEN {NoRepo} ELSE throughout
             PROVE  stores[s][<<f, r>>] >= scope.depth
  OBVIOUS
<1>1. GiveUp
  BY DEF Next, Walk, Operator, Ask, DeleteRefused, Start, Cancel, Crash, BeginPass,
     ListingFails, StepOver, AccountCollected, AccountFailed, Batch, RepoCollected,
     RepoFailed, BudgetSpent, StopShort, Interrupted, CloseFamily, Finish, Close,
     GoBack, vars
<1>2. pc # "off" /\ Unfinished(p) = {}
  BY <1>1 DEF GiveUp
<1>3. /\ p \in Progress /\ p.scope = scope /\ Held(p) /\ Covered(p)
      /\ scope.families \subseteq Family
  BY <1>2, ScopeFields
     DEF CoverInv, RecordInv, Typed, TypeOK, OwnScope, RecordedIsHeld, WholeListing
<1>4. f \in p.complete /\ f \in Family
  BY <1>2, <1>3 DEF Unfinished
<1>5. <<f, r>> \in Claims(p)
  <2>1. CASE f \in Account
    BY <1>4, <2>1 DEF Claims
  <2>2. CASE f \notin Account
    <3>1. f \in p.complete \cap PerRepo /\ r \in p.covers[f]
      BY <1>3, <1>4, <2>2 DEF Covered, PerRepo
    <3> QED  BY <3>1 DEF Claims
  <2> QED  BY <2>1, <2>2
<1> QED  BY <1>3, <1>5 DEF Held

\* A walk that ends for the operator is one every store of it holds: every
\* account-wide family, and what each other family reads of one repository, for
\* each the listings never left out.  The rows of batched queries, which emit
\* may lose at runner.go:733 while the family completes, are not among them.
THEOREM FinishedIsHeld == Spec => FinishedWalkIsHeld
<1>1. Spec => []CoverInv
  BY InitCover, NextCover, PTL DEF Spec
<1> QED  BY <1>1, EndStep, PTL DEF Spec, FinishedWalkIsHeld

=============================================================================
