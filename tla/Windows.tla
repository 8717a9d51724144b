------------------------------- MODULE Windows -------------------------------
(***************************************************************************)
(* What a sweep reads of issues, pull requests and their events            *)
(* (internal/run/runner.go: repoFamilies, collectFamily, sinceWindow,      *)
(* pulls, stayedPut; internal/run/feeds.go, issueEvents;                   *)
(* internal/collect/moved.go): only what moved since a window, and nothing *)
(* of a repository that one query of the sweep says has not moved in it.   *)
(* Nothing asks for what a window left out but issues' read of the day.    *)
(*                                                                         *)
(* A move is a repository and a time: an update of an item, or an event.   *)
(* Each has an item of its own, since an update replaces what was there.   *)
(* The sweep is the one of a run with a state file and no checkpoint; of a *)
(* backfill there is what it gives out and what it leaves marked.          *)
(***************************************************************************)
EXTENDS Integers, FiniteSets

CONSTANTS
    Repos,
    Cadence,     \* the cadence of both families
    HalfTick,     \* half a tick
    UTCDay,       \* a UTC day
    MaxClock,   \* bound: the clock
    MaxMoves,  \* bound: moves
    MaxFailures, \* bound: reads that fail, budgets spent, stops, saves that fail
    Never      \* no time

ASSUME WindowsAssumption ==
    /\ IsFiniteSet(Repos)
    /\ Cadence \in Nat \ {0} /\ HalfTick \in 0 .. Cadence - 1
    /\ UTCDay \in Nat \ {0}
    /\ MaxClock \in Nat /\ MaxMoves \in Nat /\ MaxFailures \in Nat
    /\ Never \notin Int

VARIABLES
    clock,
    moves,     \* pairs of a repository and a time
    ran,       \* State.LastRun of each family
    dayRead,   \* State.LastFull of issues in each repository
    ranSaved, dayReadSaved,
    swept,     \* when this process began a sweep last, Never if it has not
    sweep,     \* the sweep under way, or NoSweep
    \* Bookkeeping of the model.
    given,     \* the moves of each family every store was given to take
    missed,    \* the repositories a pass was marked without, since one answered
    missedSaved, \* the same of the marks in the state file
    promised,  \* the moves a pass that answered came after
    excused,   \* those first come after by one that had no mark to read from,
               \* or stepped over by the mark of a backfill
    failures

onDisk  == <<ranSaved, dayReadSaved, missedSaved>>
history == <<given, missed, promised, excused>>
windows == <<clock, moves, ran, dayRead, onDisk, swept, sweep, history, failures>>

Families == {"issues", "issueevents"}

\* Three families ask in this order; commits, the third, is left out, since it
\* promises a page of two cadences whatever was read before.
After(f) == IF f = "issues" THEN "issueevents" ELSE "over"

-----------------------------------------------------------------------------
(* Windows.                                                                *)

Earlier(s, t) == IF s < t THEN s ELSE t

\* due, to within half a tick.
FamilyDue(f, at) == IF ran[f] = Never THEN TRUE ELSE at - ran[f] >= Cadence - HalfTick

\* dayReadDue: once per UTC day.
DayReadDue(r, at) ==
    IF dayRead[r] = Never THEN TRUE ELSE dayRead[r] \div UTCDay # at \div UTCDay

\* A first read goes back a month, which is before anything here.
MonthBack == 0

\* dayReadFrom
DayReadFrom(r) == IF dayRead[r] = Never THEN MonthBack ELSE dayRead[r] - Cadence

\* A fault to find: a window that knows nothing of a sweep that came late.
Since2Cadences(f, at) == at - 2 * Cadence

\* Two cadences, and a cadence before the last run where that is earlier.
SinceLastRun(f, at) ==
    LET last == IF ran[f] = Never THEN at ELSE ran[f]
    IN  IF last < at - 2 * Cadence THEN last - Cadence ELSE at - 2 * Cadence

\* pulls for issues, issueEvents for the other.
Since(f, r, at) ==
    IF f = "issues"
    THEN IF DayReadDue(r, at) THEN Earlier(SinceLastRun(f, at), DayReadFrom(r))
                              ELSE SinceLastRun(f, at)
    ELSE IF ran[f] = Never THEN MonthBack ELSE SinceLastRun(f, at)

MovesOf(r)  == {m \in moves : m[1] = r}
InWindow(r, since) == {m \in MovesOf(r) : m[2] >= since}

-----------------------------------------------------------------------------
(* A sweep.                                                                *)

\* movements: one query a sweep, of the repositories as they are then; a batch
\* that fails answers for none of its own.
Movements == {[r \in answered |-> MovesOf(r)] : answered \in SUBSET Repos}

\* What a sweep holds: Runner.moved, the answer to its one query, and the
\* familyPass of the family it is at.
SweepOf(family, at, prime, seen) ==
    [family |-> family, at |-> at, prime |-> prime, seen |-> seen, open |-> FALSE,
     todo |-> {}, failed |-> {}, answered |-> {}, found |-> {}, spent |-> FALSE]

NoSweep == SweepOf("none", 0, FALSE, [r \in {} |-> {}])

\* Once, up to the families.  The first sweep of a service runs them all; one
\* with nothing due is left out.
StartSweep(prime, seen) ==
    /\ sweep = NoSweep /\ swept # clock
    /\ prime \/ \E f \in Families : FamilyDue(f, clock)
    /\ sweep' = SweepOf("issues", clock, prime, seen)
    /\ swept' = clock
    /\ IF DOMAIN seen = Repos THEN UNCHANGED failures
       ELSE failures < MaxFailures /\ failures' = failures + 1
    /\ UNCHANGED <<clock, moves, ran, dayRead, onDisk, history>>

\* A fault to find: what an earlier sweep was told of a movement is believed.
BeginSweepBelieving ==
    \E prime \in {FALSE, swept = Never}, t \in 0 .. clock :
        StartSweep(prime, [r \in Repos |-> {m \in MovesOf(r) : m[2] < t}])

BeginSweep ==
    \E prime \in {FALSE, swept = Never}, seen \in Movements : StartSweep(prime, seen)

InFamily(f) == sweep.family = f /\ f \in Families

\* repoFamilies passes over a family that is not due, or that the budget has
\* no room for.
PassOver ==
    \E f \in Families :
        /\ InFamily(f) /\ ~sweep.open
        /\ \/ ~sweep.prime /\ ~FamilyDue(f, sweep.at) /\ UNCHANGED failures
           \/ failures < MaxFailures /\ failures' = failures + 1
        /\ sweep' = [sweep EXCEPT !.family = After(f)]
        /\ UNCHANGED <<clock, moves, ran, dayRead, onDisk, swept, history>>

OpenFamily ==
    \E f \in Families :
        /\ InFamily(f) /\ ~sweep.open
        /\ sweep.prime \/ FamilyDue(f, sweep.at)
        /\ sweep' = [sweep EXCEPT !.open = TRUE, !.todo = Repos]
        /\ UNCHANGED <<clock, moves, ran, dayRead, onDisk, swept, history, failures>>

\* stayedPut
StayedPut(r, since) ==
    /\ r \in DOMAIN sweep.seen
    /\ \A m \in sweep.seen[r] : m[2] < since

\* What a read may bring: one that answered, all of its window but what moved
\* under it; one that failed, some of it.
MayBring(r, since, ok) ==
    {brought \in SUBSET InWindow(r, since) :
        ok => {m \in InWindow(r, since) : m[2] < sweep.at} \subseteq brought}

\* sinceWindow: what moved, unless nothing did; the day's read is recorded when
\* it and the read of the open items answered.
ReadRepo(r) ==
    LET f     == sweep.family
        since == Since(f, r, sweep.at)
        asDay == f = "issues" /\ DayReadDue(r, sweep.at)
    IN  \E openRead, ok \in BOOLEAN :
        \E brought \in IF StayedPut(r, since) THEN {{}} ELSE MayBring(r, since, ok) :
            /\ ~asDay => openRead
            /\ StayedPut(r, since) => ok
            /\ IF openRead /\ ok THEN UNCHANGED failures
               ELSE failures < MaxFailures /\ failures' = failures + 1
            /\ dayRead' = IF asDay /\ openRead /\ ok
                          THEN [dayRead EXCEPT ![r] = sweep.at] ELSE dayRead
            /\ sweep' = [sweep EXCEPT
                  !.todo = @ \ {r}, !.found = @ \cup brought,
                  !.failed = IF openRead /\ ok THEN @ ELSE @ \cup {r},
                  !.answered = IF ok THEN @ \cup {r} ELSE @]
            /\ UNCHANGED <<clock, moves, ran, onDisk, swept, history>>

ReadNext == /\ sweep.open
            /\ \E r \in sweep.todo : ReadRepo(r)

\* The budget ends the family here: GitHub refuses the read of a repository,
\* and all of them count as failed, or the reserve is reached after one.
BudgetEnds ==
    /\ sweep.open /\ sweep.todo # {}
    /\ failures < MaxFailures /\ failures' = failures + 1
    /\ \E refused \in {TRUE, sweep.answered = {}} :
          sweep' = [sweep EXCEPT !.todo = {}, !.spent = refused]
    /\ UNCHANGED <<clock, moves, ran, dayRead, onDisk, swept, history>>

\* The rest of repoFamilies: the rows are given out, and the family is marked
\* unless it failed everywhere, or ran to fill an exporter before its time.
Marks(f) ==
    /\ ~sweep.spent
    /\ sweep.failed = {} \/ sweep.failed # Repos
    /\ ~sweep.prime \/ FamilyDue(f, sweep.at)

Before(rs, t) == {m \in moves : m[1] \in rs /\ m[2] < t}

\* What no mark says of: a repository the last marks were made without, and,
\* for issues, which read two cadences then, any while there is no mark.
Unmarked(f) == IF f = "issues" /\ ran[f] = Never THEN Repos ELSE missed[f]

CloseFamily ==
    \E f \in Families :
        /\ InFamily(f) /\ sweep.open /\ sweep.todo = {}
        /\ ran' = IF Marks(f) THEN [ran EXCEPT ![f] = sweep.at] ELSE ran
        /\ given' = [given EXCEPT ![f] = @ \cup sweep.found]
        /\ missed' = [missed EXCEPT ![f] =
                         (IF Marks(f) THEN Repos ELSE @) \ sweep.answered]
        /\ excused' = [excused EXCEPT ![f] = @ \cup
                (Before(sweep.answered \cap Unmarked(f), sweep.at) \ (given'[f] \cup promised[f]))]
        /\ promised' = [promised EXCEPT ![f] = @ \cup (Before(sweep.answered, sweep.at) \ excused'[f])]
        /\ sweep' = [sweep EXCEPT !.family = After(f), !.open = FALSE, !.found = {},
                                  !.failed = {}, !.answered = {}, !.spent = FALSE]
        /\ UNCHANGED <<clock, moves, dayRead, onDisk, swept, failures>>

\* finish
EndSweep ==
    /\ sweep.family = "over" /\ sweep' = NoSweep
    /\ \/ ranSaved' = ran /\ dayReadSaved' = dayRead /\ missedSaved' = missed
          /\ UNCHANGED failures
       \/ failures < MaxFailures /\ failures' = failures + 1 /\ UNCHANGED onDisk
    /\ UNCHANGED <<clock, moves, ran, dayRead, swept, history>>

-----------------------------------------------------------------------------
(* Everything else.                                                        *)

\* A kill, or a stop: collectFamily returns with what it read in hand, and a
\* sweep that was canceled saves nothing.  The next process reads the file.
ProcessEnds ==
    /\ failures < MaxFailures /\ failures' = failures + 1
    /\ sweep' = NoSweep /\ swept' = Never
    /\ ran' = ranSaved /\ dayRead' = dayReadSaved /\ missed' = missedSaved
    /\ UNCHANGED <<clock, moves, onDisk, given, promised, excused>>

\* A backfill between two services, of one family: back to its date, from its
\* read of each repository that answered, which a walk it resumes had read in a
\* run before it.  It may mark the family as of its own start all the same, and
\* takes no read of the day.
Backfilled ==
    /\ swept = Never /\ sweep = NoSweep /\ failures < MaxFailures /\ failures' = failures + 1
    /\ \E f \in Families, answered \in SUBSET Repos \ {{}},
          backTo \in 0 .. clock, marks \in BOOLEAN :
       \E readAt \in [answered -> 0 .. clock] :
          /\ given' = [given EXCEPT ![f] = @ \cup
                {m \in Before(answered, clock) : backTo <= m[2] /\ m[2] < readAt[m[1]]}]
          /\ IF marks
             THEN /\ ran' = [ran EXCEPT ![f] = clock]
                  /\ missed' = [missed EXCEPT ![f] = Repos \ answered]
                  /\ excused' = [excused EXCEPT ![f] = @ \cup
                        (Before(answered, clock) \ (given'[f] \cup promised[f]))]
                  /\ promised' = [promised EXCEPT ![f] = @ \cup
                        (Before(answered, clock) \ excused'[f])]
             ELSE UNCHANGED <<ran, missed, excused, promised>>
    /\ ranSaved' = ran' /\ missedSaved' = missed'
    /\ UNCHANGED <<clock, moves, dayRead, dayReadSaved, swept, sweep>>

Moved == /\ Cardinality(moves) < MaxMoves
         /\ \E r \in Repos : <<r, clock>> \notin moves /\ moves' = moves \cup {<<r, clock>>}
         /\ UNCHANGED <<clock, ran, dayRead, onDisk, swept, sweep, history, failures>>

\* A sweep takes less than a unit of time: what moves under it moves at its
\* time.
TimePasses == /\ sweep = NoSweep /\ clock < MaxClock /\ clock' = clock + 1
              /\ UNCHANGED <<moves, ran, dayRead, onDisk, swept, sweep, history, failures>>

WindowsInit ==
    /\ clock = 0 /\ moves = {} /\ failures = 0 /\ swept = Never /\ sweep = NoSweep
    /\ ran = [f \in Families |-> Never] /\ ranSaved = ran
    /\ dayRead = [r \in Repos |-> Never] /\ dayReadSaved = dayRead
    /\ given = [f \in Families |-> {}]
    /\ missed = given /\ missedSaved = given /\ promised = given /\ excused = given

WindowsNext ==
    \/ BeginSweep \/ PassOver \/ OpenFamily \/ ReadNext \/ BudgetEnds
    \/ CloseFamily \/ EndSweep
    \/ ProcessEnds \/ Backfilled \/ Moved \/ TimePasses

WindowsSpec == WindowsInit /\ [][WindowsNext]_windows

-----------------------------------------------------------------------------
(* Properties.                                                             *)

\* Once the day's read of a repository is on record in the state file, every
\* move before it was given to every store, whatever reads failed, sweeps the
\* budget cut, marks moved on or processes stopped in between (pulls: "this is
\* what reads it, a day later at most").
DayReadCatchesUp ==
    \A m \in moves :
        m \in given["issues"] \/
        IF dayReadSaved[m[1]] = Never THEN TRUE ELSE m[2] >= dayReadSaved[m[1]]

\* Two passes in a row that answered for a repository join up, however far
\* apart they were and whatever was lost between them: a move before the later
\* one was given out by then, unless a pass between them was marked and did
\* not answer for it, no pass of issues has been marked yet, or a backfill was
\* marked past it that its date kept from it or that resumed a walk which had
\* read the repository before (issueEvents: "the hours a stopped process missed
\* are read by its first sweep").
PassesJoin == \A f \in Families : promised[f] \subseteq given[f]

=============================================================================
