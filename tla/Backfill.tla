------------------------------ MODULE Backfill ------------------------------
(***************************************************************************)
(* The resumable backfill of ghchronicle: cmd/ghchronicle/main.go runs     *)
(* passes (walkUntilDoneOrStuck) of internal/run/runner.go's Once over the *)
(* enabled families, and internal/run/progress.go keeps a checkpoint on    *)
(* disk naming what every sink already holds, which a later process skips. *)
(*                                                                         *)
(* A UNIT is what one collector call reads whole: <<f, r>> for repository  *)
(* r of a per-repository family f, <<f, NoRepo>> for an account-wide       *)
(* family and for the batched query a per-repository family begins with.   *)
(* A store holds a unit to a DEPTH, how far back the date bound reached;   *)
(* the rows of a collection that failed half way are kept by the code and  *)
(* leave the unit not held here, and a unit with no rows is held by every  *)
(* store the moment it was read.                                           *)
(***************************************************************************)
EXTENDS Naturals, FiniteSets

CONSTANTS
    Sink,         \* the stores a configuration may name
    Repo,         \* the repositories GitHub may list
    NoRepo,       \* the repository of a unit that is not one repository's
    NumFamilies,  \* families in the order a sweep works through them
    NumAccount,   \* the first NumAccount of them are account-wide
    Batched,      \* per-repository families that begin with a batched query
    BatchOnly,    \* those of them with no per-repository part at all
    Scopes,       \* the walks an operator may ask for
    HasUser,      \* whether the configuration sets targets.user
    Retry,        \* whether -backfill-retry was given
    RetryLimit,   \* retryLimit: passes of one process
    MaxMishaps,   \* bound: failures, refusals and stops
    MaxAsks,      \* bound: the times the operator asks for another walk
    None          \* no checkpoint file

Family     == 1..NumFamilies
Account    == 1..NumAccount
PerRepo    == Family \ Account
Unit       == Family \X (Repo \cup {NoRepo})
Depth      == UNION {0..sc.depth : sc \in Scopes}

Progress   == [scope : Scopes, complete : SUBSET Family,
               covers : [Family -> SUBSET Repo], written : SUBSET Unit]
State      == [marks : SUBSET Family, facts : SUBSET Unit]
Checkpoint == [progress : Progress, learned : State]

ASSUME FamiliesAssumption ==
    /\ NumFamilies \in Nat /\ NumAccount \in Nat /\ NumAccount <= NumFamilies
    /\ BatchOnly \subseteq Batched /\ Batched \subseteq PerRepo
    /\ NoRepo \notin Repo /\ IsFiniteSet(Repo)
ASSUME ScopesAssumption ==
    /\ Scopes # {}
    /\ \A sc \in Scopes : /\ sc.sinks \subseteq Sink
                          /\ sc.depth \in Nat \ {0}
                          /\ sc.families \subseteq Family
ASSUME RunAssumption ==
    /\ HasUser \in BOOLEAN /\ Retry \in BOOLEAN
    /\ RetryLimit \in Nat \ {0} /\ MaxMishaps \in Nat /\ MaxAsks \in Nat
    /\ None \notin Checkpoint

VARIABLES
    \* What outlives the process.
    stores,     \* how deep each store holds each unit
    ck,         \* the checkpoint file
    saved,      \* the state file
    \* What the operator wants.
    scope,      \* the walk the configuration and the flags describe
    wanted,     \* whether a backfill is still to be run to its end
    \* The process.
    pc,         \* where Once and the loop around it are
    p,          \* the checkpoint in memory
    resumed,    \* the checkpoint was read back from disk
    st,         \* the sweep's state in memory
    passes,     \* passes of this process
    before,     \* the checkpoint when the pass began, for Recorded
    repos,      \* the repository listing
    at,         \* the family being worked on
    asked,      \* the repositories this family's pass is done with
    toCover,    \* familyPass.covered
    failed,     \* familyPass.failed
    cancelled,  \* the context: a signal asked the run to end
    \* Bookkeeping of the model.
    throughout, \* repositories every pass of this walk listed
    mishaps,    \* how many things went wrong, for MaxMishaps
    asks        \* how many other walks were asked for, for MaxAsks

disk    == <<stores, ck, saved>>
process == <<p, resumed, st, passes, before, repos, at, asked, toCover, failed, cancelled>>
vars    == <<disk, scope, wanted, pc, process, throughout, mishaps, asks>>

-----------------------------------------------------------------------------
(* The checkpoint in memory.                                               *)

NoState  == [marks |-> {}, facts |-> {}]
Fresh(sc) == [scope |-> sc, complete |-> {}, covers |-> [f \in Family |-> {}], written |-> {}]

\* Scope.Differs: the first way two walks are not the same walk.
Differs(was, now) == was # now

RepoDone(q, f, r) == <<f, r>> \in q.written

WroteRepo(q, f, r) == [q EXCEPT !.written = @ \cup {<<f, r>>}]

\* The repositories a family listed go when it is complete: what stays is
\* how many there were, kept here as which.
FinishFamily(q, f, covered) ==
    [q EXCEPT !.complete = @ \cup {f}, !.covers[f] = covered,
              !.written = {u \in @ : u[1] # f}]

\* A fault to find: every family there is, instead of those the walk is of.
UnfinishedMutant(q) == Family \ q.complete

Unfinished(q) == q.scope.families \ q.complete

\* A fault to find: one number, in which a family that completes takes its
\* repositories back out.
RecordedMutant(q) == Cardinality(q.complete) + Cardinality(q.written)

\* Families complete, and the repositories written of families that are not.
Recorded(q) == <<Cardinality(q.complete),
                 Cardinality({u \in q.written : u[1] \notin q.complete})>>

\* What a checkpoint claims every sink of its scope holds.
Claims(q) == q.written
             \cup {<<f, NoRepo>> : f \in q.complete \cap Account}
             \cup UNION {{<<f, r>> : r \in q.covers[f]} : f \in q.complete \cap PerRepo}

\* Restore, and Learn before it: the checkpoint is pointed at the running
\* state first, so what Restore copies back is that same state, and only the
\* marks of the complete families come from the file.
Learn(s) == s
\* A fault to find: the learned copy alone.
RestoreMutant(s, learned, q) == [marks |-> s.marks \cup learned.marks,
                                 facts |-> s.facts \cup learned.facts]
Restore(s, learned, q) == [marks |-> s.marks \cup learned.marks \cup q.complete,
                           facts |-> s.facts \cup learned.facts]
OpenedState == IF resumed THEN Restore(st, Learn(st), p) ELSE st

-----------------------------------------------------------------------------
(* What the actions are made of.                                           *)

\* A step in which something went wrong, counted so that the model is finite.
Mishap(bad) == /\ bad => mishaps < MaxMishaps
               /\ mishaps' = IF bad THEN mishaps + 1 ELSE mishaps
              /\ UNCHANGED asks

\* emit: the sinks that took the whole unit hold it as deep as the walk goes.
Emit(u, takers) ==
    stores' = [s \in Sink |->
                 IF s \in takers /\ stores[s][u] < scope.depth
                 THEN [stores[s] EXCEPT ![u] = scope.depth] ELSE stores[s]]

\* noteCheckpoint: a save that fails is a warning, and memory goes on with
\* what the file does not say.
Save(q, s, ok) == ck' = IF ok THEN [progress |-> q, learned |-> s] ELSE ck

\* A record that gained nothing is not saved.
Checkpointed(q, s, ok) == IF q # p THEN Save(q, s, ok) ELSE ok /\ UNCHANGED ck

\* What the operator finds once the process has gone, however it went.
Idle == /\ pc' = "off" /\ p' = Fresh(scope) /\ resumed' = FALSE /\ st' = NoState
        /\ passes' = 0 /\ before' = Fresh(scope) /\ repos' = {} /\ at' = 1
        /\ asked' = {} /\ toCover' = 0 /\ failed' = 0 /\ cancelled' = FALSE

\* Families the walk steps over: not asked for, account-wide with no login
\* to ask about, or complete in the checkpoint.
SteppedOver(f) == \/ f \notin scope.families
                  \/ f \in Account /\ ~HasUser
                  \/ f \in p.complete

\* The repositories this family's pass has still to ask.
Left(f) == {r \in repos \ asked : ~RepoDone(p, f, r)}

\* reposToCover: settled before the pass.
ReposToCover(f) == Cardinality({r \in repos : ~RepoDone(p, f, r)})

\* everyRepoWritten: asked of the checkpoint and not counted off the pass.
\* The fault to find is the count.
EveryRepoWrittenMutant(f) == asked \cup {r \in repos : RepoDone(p, f, r)} = repos
EveryRepoWritten(f) == \A r \in repos : RepoDone(p, f, r)

\* batchFailures over batched: a lost batch takes every repository with it
\* where it is the whole family, none where the per-repository part reads the
\* same again, and counts as one failure when part of it answered.
BatchFailures(f, outcome) ==
    CASE outcome = "whole"  -> 0
      [] outcome = "partly" -> 1
      [] outcome = "lost"   -> IF f \in BatchOnly THEN Cardinality(repos) ELSE 0

-----------------------------------------------------------------------------
(* The operator.                                                           *)

\* Another backfill, or the same one under other settings.
Ask(sc) ==
    /\ pc = "off" /\ asks < MaxAsks /\ asks' = asks + 1
    /\ scope' = sc /\ wanted' = TRUE
    /\ p' = Fresh(sc) /\ before' = Fresh(sc)
    /\ UNCHANGED <<disk, pc, resumed, st, passes, repos, at, asked, toCover,
                   failed, cancelled, throughout, mishaps>>

\* A checkpoint of another walk is refused and left where it is; deleting it
\* is how the operator starts the walk again.
DeleteRefused ==
    /\ pc = "off" /\ wanted /\ ck # None
    /\ Differs(ck.progress.scope, scope)
    /\ ck' = None
    /\ UNCHANGED <<stores, saved, scope, wanted, pc, process, throughout, mishaps, asks>>

\* OpenProgress: nothing there is a walk that has not started, a checkpoint
\* of this scope is one to carry on, anything else is refused.
Start ==
    /\ pc = "off" /\ wanted
    /\ ck # None => ~Differs(ck.progress.scope, scope)
    /\ pc' = "pass" /\ passes' = 1
    /\ p' = IF ck = None THEN Fresh(scope) ELSE ck.progress
    /\ resumed' = (ck # None)
    /\ st' = saved
    /\ throughout' = IF ck = None THEN Repo ELSE throughout
    /\ UNCHANGED <<disk, scope, wanted, before, repos, at, asked, toCover, failed,
                   cancelled, mishaps, asks>>

Cancel ==
    /\ pc # "off" /\ ~cancelled /\ Mishap(TRUE)
    /\ cancelled' = TRUE
    /\ UNCHANGED <<disk, scope, wanted, pc, p, resumed, st, passes, before, repos, at,
                   asked, toCover, failed, throughout>>

Crash ==
    /\ pc # "off" /\ Mishap(TRUE)
    /\ Idle
    /\ UNCHANGED <<disk, scope, wanted, throughout>>

-----------------------------------------------------------------------------
(* One pass: Once, sweep, accountFamilies and repoFamilies.                *)

\* The listing answers, and the families begin.
BeginPass(listing) ==
    /\ pc = "pass" /\ ~cancelled
    /\ pc' = "family" /\ at' = 1
    /\ st' = OpenedState
    /\ before' = p
    /\ repos' = listing
    /\ throughout' = throughout \cap listing
    /\ UNCHANGED <<disk, scope, wanted, p, resumed, passes, asked, toCover, failed,
                   cancelled, mishaps, asks>>

\* A listing that fails ends the process with nothing saved; so does a signal
\* before the listing, or while the loop waits to go back.
ListingFails ==
    /\ pc = "pass" /\ Mishap(~cancelled)
    /\ Idle
    /\ UNCHANGED <<disk, scope, wanted, throughout>>

StepOver ==
    /\ pc = "family" /\ at \in Family
    \* A canceled wait for budget skips the family, and a canceled account
    \* family comes back with an error and no rows.
    /\ SteppedOver(at) \/ cancelled
    /\ at' = at + 1
    /\ UNCHANGED <<disk, scope, wanted, pc, p, resumed, st, passes, before, repos, asked,
                   toCover, failed, cancelled, throughout, mishaps, asks>>

\* family: an account-wide family is one unit. It is marked as run unless it
\* failed with nothing at all, and recorded only when it did not fail and
\* every sink took it.
AccountCollected(takers, savedOk) ==
    LET q == IF takers = scope.sinks THEN FinishFamily(p, at, {}) ELSE p
        s == [st EXCEPT !.marks = @ \cup {at}]
    IN  /\ pc = "family" /\ at \in Account /\ ~SteppedOver(at) /\ ~cancelled
        /\ Mishap(takers # scope.sinks \/ ~savedOk)
        /\ Emit(<<at, NoRepo>>, takers)
        /\ p' = q /\ st' = s
        /\ Checkpointed(q, s, savedOk)
        /\ at' = at + 1
        /\ UNCHANGED <<saved, scope, wanted, pc, resumed, passes, before, repos, asked,
                       toCover, failed, cancelled, throughout>>

AccountFailed(rows) ==
    /\ pc = "family" /\ at \in Account /\ ~SteppedOver(at) /\ ~cancelled
    /\ Mishap(TRUE)
    /\ st' = IF rows THEN [st EXCEPT !.marks = @ \cup {at}] ELSE st
    /\ at' = at + 1
    /\ UNCHANGED <<disk, scope, wanted, pc, p, resumed, passes, before, repos, asked,
                   toCover, failed, cancelled, throughout>>

\* collectFamily, up to the loop over the repositories. The batched query
\* answers whole, for some repositories or for none; what it answered is sent
\* at once, and whether the sinks took it is not asked.
Batch(outcome, takers) ==
    /\ pc = "family" /\ at \in PerRepo /\ ~SteppedOver(at)
    /\ ~cancelled \/ repos = {}
    /\ at \notin Batched \/ repos = {} => outcome = "whole"
    /\ at \notin Batched \/ outcome # "whole" => takers = scope.sinks
    /\ outcome = "partly" => Cardinality(repos) > 1
    /\ Mishap(outcome # "whole" \/ takers # scope.sinks)
    /\ IF at \in Batched /\ outcome = "whole" THEN Emit(<<at, NoRepo>>, takers)
                                              ELSE UNCHANGED stores
    /\ toCover' = ReposToCover(at)
    /\ failed' = BatchFailures(at, outcome)
    /\ asked' = {} /\ pc' = "repos"
    /\ UNCHANGED <<ck, saved, scope, wanted, p, resumed, st, passes, before, repos, at,
                   cancelled, throughout>>

\* A fault to find: the answer of emit is not asked.
RepoCollectedMutant(r, takers, savedOk) ==
    LET q == WroteRepo(p, at, r)
    IN  /\ pc = "repos" /\ r \in Left(at) /\ ~cancelled
        /\ Mishap(takers # scope.sinks \/ ~savedOk)
        /\ Emit(<<at, r>>, takers)
        /\ p' = q /\ Checkpointed(q, st, savedOk)
        /\ asked' = asked \cup {r}
        /\ UNCHANGED <<saved, scope, wanted, pc, resumed, st, passes, before, repos, at,
                       toCover, failed, cancelled, throughout>>

\* One repository: recorded only when its collector did not fail and every
\* sink took its rows. What its collector learned stays learned whether or
\* not they did. A batch-only family has nothing to ask and nothing to send.
RepoCollected(r, takers, savedOk) ==
    LET q == IF takers = scope.sinks THEN WroteRepo(p, at, r) ELSE p
        s == IF at \in BatchOnly THEN st ELSE [st EXCEPT !.facts = @ \cup {<<at, r>>}]
    IN  /\ pc = "repos" /\ r \in Left(at) /\ ~cancelled
        /\ at \in BatchOnly => takers = scope.sinks
        /\ Mishap(takers # scope.sinks \/ ~savedOk)
        /\ Emit(<<at, r>>, takers)
        /\ p' = q /\ st' = s
        /\ Checkpointed(q, s, savedOk)
        /\ asked' = asked \cup {r}
        /\ UNCHANGED <<saved, scope, wanted, pc, resumed, passes, before, repos, at,
                       toCover, failed, cancelled, throughout>>

RepoFailed(r) ==
    /\ pc = "repos" /\ r \in Left(at) /\ at \notin BatchOnly /\ ~cancelled
    /\ Mishap(TRUE)
    /\ asked' = asked \cup {r} /\ failed' = failed + 1
    /\ UNCHANGED <<disk, scope, wanted, pc, p, resumed, st, passes, before, repos, at,
                   toCover, cancelled, throughout>>

\* A spent budget fails the whole pass and leaves the rest unasked.
BudgetSpent(r) ==
    /\ pc = "repos" /\ r \in Left(at) /\ at \notin BatchOnly /\ ~cancelled
    /\ Mishap(TRUE)
    /\ asked' = repos /\ failed' = toCover
    /\ UNCHANGED <<disk, scope, wanted, pc, p, resumed, st, passes, before, repos, at,
                   toCover, cancelled, throughout>>

\* A signal during the wait for budget after a repository breaks out of the
\* loop as if it had reached the end.
StopShort ==
    /\ pc = "repos" /\ cancelled /\ asked # {} /\ asked # repos
    /\ asked' = repos
    /\ UNCHANGED <<disk, scope, wanted, pc, p, resumed, st, passes, before, repos, at,
                   toCover, failed, cancelled, throughout, mishaps, asks>>

\* A signal met at the top of the loop ends the sweep with an error: the
\* checkpoint stays and nothing else is saved.
Interrupted ==
    /\ cancelled
    /\ \/ pc = "repos" /\ asked # repos
       \/ pc = "family" /\ at \in PerRepo /\ ~SteppedOver(at) /\ repos # {}
    /\ Idle
    /\ UNCHANGED <<disk, scope, wanted, throughout, mishaps, asks>>

\* The end of a family's pass: not marked when every repository failed, and
\* recorded complete when nothing failed and every repository is recorded.
CloseFamily(savedOk) ==
    LET whole == failed = 0 /\ EveryRepoWritten(at)
        q == IF whole THEN FinishFamily(p, at, repos) ELSE p
    IN  /\ pc = "repos" /\ Left(at) = {}
        /\ Mishap(~savedOk)
        /\ p' = q
        /\ Checkpointed(q, st, savedOk)
        /\ st' = IF failed > 0 /\ failed = toCover
                 THEN st ELSE [st EXCEPT !.marks = @ \cup {at}]
        /\ at' = at + 1 /\ pc' = "family"
        /\ asked' = {} /\ toCover' = 0 /\ failed' = 0
        /\ UNCHANGED <<stores, saved, scope, wanted, resumed, passes, before, repos,
                       cancelled, throughout>>

-----------------------------------------------------------------------------
(* The end of a pass.                                                      *)

\* finish: the state file, whose failure is a warning.
Finish(savedOk) ==
    /\ pc = "family" /\ at \notin Family
    /\ Mishap(~savedOk)
    /\ saved' = IF savedOk THEN st ELSE saved
    /\ pc' = "close"
    /\ UNCHANGED <<stores, ck, scope, wanted, process, throughout>>

\* A fault to find: a pass that came to its end is taken for a walk that did.
CloseMutant(removed) ==
    /\ pc = "close" /\ pc' = "after"
    /\ Mishap(~removed)
    /\ IF ~cancelled THEN ck' = IF removed THEN None ELSE ck
                     ELSE removed /\ UNCHANGED ck
    /\ UNCHANGED <<stores, saved, scope, wanted, process, throughout>>

\* closeProgress: the checkpoint goes only when nobody stopped the walk and
\* no family is left.
Close(removed) ==
    /\ pc = "close"
    /\ Mishap(~removed)
    /\ IF ~cancelled /\ Unfinished(p) = {}
       THEN ck' = IF removed THEN None ELSE ck
       ELSE removed /\ UNCHANGED ck
    /\ pc' = "after"
    /\ UNCHANGED <<stores, saved, scope, wanted, process, throughout>>

Gained == Recorded(p) # Recorded(before)

\* A fault to find: the limit counts the passes after the first.
GoBackMutant ==
    /\ pc = "after"
    /\ ~cancelled /\ Unfinished(p) # {} /\ Retry /\ Gained /\ passes <= RetryLimit
    /\ pc' = "pass" /\ passes' = passes + 1
    /\ UNCHANGED <<disk, scope, wanted, p, resumed, st, before, repos, at, asked, toCover,
                   failed, cancelled, throughout, mishaps, asks>>

\* afterPass: go back only when asked to, for something, after a gain, and
\* within the limit.
GoBack ==
    /\ pc = "after"
    /\ ~cancelled /\ Unfinished(p) # {} /\ Retry /\ Gained /\ passes < RetryLimit
    /\ pc' = "pass" /\ passes' = passes + 1
    /\ UNCHANGED <<disk, scope, wanted, p, resumed, st, before, repos, at, asked, toCover,
                   failed, cancelled, throughout, mishaps, asks>>

\* The other verdicts: the process ends, and the operator is done when the
\* walk covered everything.
GiveUp ==
    /\ pc = "after"
    /\ cancelled \/ Unfinished(p) = {} \/ ~Retry \/ ~Gained \/ passes >= RetryLimit
    /\ wanted' = (cancelled \/ Unfinished(p) # {})
    /\ Idle
    /\ UNCHANGED <<disk, scope, throughout, mishaps, asks>>

-----------------------------------------------------------------------------

Walk ==
    \/ \E listing \in SUBSET Repo : BeginPass(listing)
    \/ ListingFails
    \/ StepOver
    \/ \E takers \in SUBSET scope.sinks, savedOk \in BOOLEAN :
          AccountCollected(takers, savedOk)
    \/ \E rows \in BOOLEAN : AccountFailed(rows)
    \/ \E outcome \in {"whole", "partly", "lost"}, takers \in SUBSET scope.sinks :
          Batch(outcome, takers)
    \/ \E r \in Repo, takers \in SUBSET scope.sinks, savedOk \in BOOLEAN :
          RepoCollected(r, takers, savedOk)
    \/ \E r \in Repo : RepoFailed(r)
    \/ \E r \in Repo : BudgetSpent(r)
    \/ StopShort
    \/ Interrupted
    \/ \E savedOk \in BOOLEAN : CloseFamily(savedOk)
    \/ \E savedOk \in BOOLEAN : Finish(savedOk)
    \/ \E removed \in BOOLEAN : Close(removed)
    \/ GoBack
    \/ GiveUp

Operator == Start \/ DeleteRefused

Next == \/ Walk
        \/ Operator
        \/ Cancel
        \/ Crash
        \/ \E sc \in Scopes : Ask(sc)

Init ==
    /\ stores = [s \in Sink |-> [u \in Unit |-> 0]]
    /\ ck = None /\ saved = NoState
    /\ scope \in Scopes /\ wanted = TRUE
    /\ pc = "off" /\ p = Fresh(scope) /\ resumed = FALSE /\ st = NoState
    /\ passes = 0 /\ before = Fresh(scope) /\ repos = {} /\ at = 1
    /\ asked = {} /\ toCover = 0 /\ failed = 0 /\ cancelled = FALSE
    /\ throughout = Repo /\ mishaps = 0 /\ asks = 0

Spec == Init /\ [][Next]_vars

\* The process runs on by itself, and the operator does what a stopped walk's
\* last line says: run the same command again.
FairSpec == Spec /\ WF_vars(Walk) /\ WF_vars(Operator)

-----------------------------------------------------------------------------
(* Properties.                                                             *)

\* Every variable has its type. failed may pass toCover by the one failure
\* a partly answered batch counts as.
TypeOK ==
    /\ stores \in [Sink -> [Unit -> Depth]]
    /\ ck \in Checkpoint \cup {None}
    /\ saved \in State /\ st \in State
    /\ scope \in Scopes /\ wanted \in BOOLEAN
    /\ pc \in {"off", "pass", "family", "repos", "close", "after"}
    /\ p \in Progress /\ before \in Progress /\ resumed \in BOOLEAN
    /\ passes \in 0..RetryLimit
    /\ repos \in SUBSET Repo /\ asked \in SUBSET Repo /\ throughout \in SUBSET Repo
    /\ at \in 1..(NumFamilies + 1)
    /\ toCover \in 0..Cardinality(Repo) /\ failed \in 0..(Cardinality(Repo) + 1)
    /\ cancelled \in BOOLEAN /\ mishaps \in 0..MaxMishaps /\ asks \in 0..MaxAsks

\* Every store of the walk holds everything q claims, as deep as the walk.
Held(q) == \A u \in Claims(q), s \in q.scope.sinks : stores[s][u] >= q.scope.depth

\* What the checkpoint records, on disk or in memory, every sink of the walk
\* it was written for holds as far back as that walk goes: whatever sink
\* refused rows, whatever save was lost, whenever the process went, and
\* whatever other walk was asked for in between (emit, checkpointRepo,
\* checkpointFamily, OpenProgress).
RecordedIsHeld ==
    /\ ck # None => Held(ck.progress)
    /\ pc # "off" => Held(p)

\* What a resume of q steps over.
Skips(q) == {u \in Unit : u[1] \in q.complete \/ u \in q.written}

\* Work the checkpoint file records is never work again: no save of a later
\* process takes anything out of it, and the file goes only by the operator's
\* hand, the process being gone, or at the end of a walk nobody stopped and
\* that left no family (save, closeProgress).
RecordKept ==
    [][ck # None =>
         \/ ck' # None /\ Skips(ck.progress) \subseteq Skips(ck'.progress)
         \/ pc = "off"
         \/ /\ pc = "close" /\ ~cancelled
            /\ ck.progress.scope.families \subseteq p.complete]_vars

\* A walk the operator sees end has covered, in every store, every account-wide
\* family and, of every repository the listing never left out, what each family
\* reads of it alone (afterPass, Unfinished, everyRepoWritten).  It says nothing
\* of the rows a batched query brings, whose refusal nobody asks about: they may
\* be in no store when the walk ends, see BatchRecordedIsHeld.
FinishedWalkIsHeld ==
    [][wanted /\ ~wanted' =>
         \A s \in scope.sinks, f \in scope.families :
            \A r \in IF f \in Account THEN {NoRepo} ELSE throughout :
               stores[s][<<f, r>>] >= scope.depth]_vars

\* Where a family completed, in this process or the one it resumes, the state
\* the sweep saves says the family ran (Restore, markRun).
CompleteIsMarked ==
    pc \in {"family", "repos", "close", "after"} => p.complete \subseteq st.marks

\* A walk that was to be retried gives up before its limit only after a pass
\* that recorded nothing whatever: no family, and no repository of a family
\* left unfinished (Recorded, afterPass).
GaveUpOnlyIfStuck ==
    [][pc = "after" /\ pc' = "off" /\ mishaps' = mishaps /\ ~cancelled
       /\ Unfinished(p) # {} /\ Retry /\ passes < RetryLimit
       => Skips(p) = Skips(before)]_vars

\* What docs and comments say of the walk, and the code does not do; README.md
\* has the counterexamples.

\* A family recorded complete is one whose batched rows every sink took too
\* (Progress.Complete: "every family whose whole pass reached every sink").
BatchRecordedIsHeld ==
    pc # "off" => \A f \in p.complete \cap Batched, s \in scope.sinks :
                     stores[s][<<f, NoRepo>>] >= scope.depth

\* What a recorded repository's collector learned stays in the checkpoint for
\* the resume that will not ask that repository again (Progress.Learned,
\* Restore: "the same state behind as one that was never stopped").
LearnedKept ==
    ck # None => \A u \in ck.progress.written :
                    u[1] \in BatchOnly \/ u \in ck.learned.facts

\* A family that failed for as many repositories as its pass covered, or for
\* more, is not marked as run (repoFamilies, batchFailures: "leaves it
\* unmarked, which is what stops an outage hiding").
OutageNotMarked ==
    [][pc = "repos" /\ pc' = "family" /\ failed > 0 /\ failed >= toCover
       => st'.marks = st.marks]_vars

\* A backfill the operator keeps running ends.
WalkEnds == wanted ~> ~wanted

=============================================================================
