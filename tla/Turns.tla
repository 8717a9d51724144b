-------------------------------- MODULE Turns --------------------------------
(***************************************************************************)
(* When a family runs: the tick of the loop, which families are due on it, *)
(* and how the slow ones that are due together take turns                  *)
(* (internal/run/turns.go; Serve, due, tick and markRun in runner.go).     *)
(*                                                                         *)
(* A sweep is one step: one goroutine does it, and a stop inside it loses  *)
(* what it marked, as a save that fails does.  Time is a natural number.   *)
(* Which of two families due since one instant starts first is left open;  *)
(* the code takes the one the configuration lists first.  Configurations   *)
(* without an account only leave families out, see runsHere.               *)
(***************************************************************************)
EXTENDS Integers, FiniteSets

CONSTANTS
    Family,       \* the families the configuration enables and can run
    Every,        \* the cadence of each
    SlowCadence,  \* from this cadence up a family takes turns
    Heartbeat,    \* the tick the configuration forces, 0 for none
    Minute, Hour, \* the limits of a tick taken from the cadences
    Totals,       \* the families that size the page of another
    Flaky,        \* bound: the families whose passes may fail
    Prime,        \* a service runs every family in its first sweep
    Begin,        \* the time of the first start
    MaxLate,      \* bound: how late after its tick a sweep reads the clock
    MaxTime,      \* bound: no sweep starts later
    MaxStarts,    \* bound: services started
    MaxOthers,    \* bound: runs of -once or -backfill
    MaxMishaps    \* bound: listings and saves that fail

ASSUME TurnsAssumption ==
    /\ IsFiniteSet(Family) /\ Family # {}
    /\ Every \in [Family -> Nat \ {0}] /\ SlowCadence \in Nat \ {0}
    /\ Heartbeat \in Nat /\ Minute \in Nat \ {0} /\ Hour \in Nat /\ Minute <= Hour
    /\ Totals \subseteq Family /\ Flaky \subseteq Family /\ Prime \in BOOLEAN
    /\ Begin \in Nat \ {0} /\ \A f \in Family : Every[f] <= Begin
    /\ MaxLate \in Nat /\ MaxTime \in Nat
    /\ MaxStarts \in Nat /\ MaxOthers \in Nat /\ MaxMishaps \in Nat

VARIABLES
    now,      \* the clock the last sweep dated itself by
    next,     \* when the ticker fires next
    up,       \* a service runs
    first,    \* it has not begun its first sweep
    last,     \* State.LastRun, 0 for never
    saved,    \* the same in the state file
    started,  \* when this process last let each slow family start, 0 for never
    \* Bookkeeping of the model.
    waits,    \* the sweeps in a row each slow family was due and held back in
    passed,   \* the families that started in those
    ticks,    \* the ticks of this service
    at,       \* the tick each family was last marked on, 0 for none of them
    starts, others, mishaps

memory == <<last, started, waits, passed, at>>
bounds == <<starts, others, mishaps>>
vars   == <<now, next, up, first, memory, saved, ticks, bounds>>

-----------------------------------------------------------------------------
(* What the configuration fixes.                                           *)

Least(S) == CHOOSE n \in S : \A m \in S : n <= m
Most(a, b) == IF a >= b THEN a ELSE b

\* shortestInterval and tick.
ShortestInterval == Most(Minute, Least({Hour} \cup {Every[f] : f \in Family}))
Tick == IF Heartbeat > 0 THEN Heartbeat ELSE ShortestInterval

\* The loop is late by less than half a tick, so its clock never turns back.
ASSUME LateAssumption == 2 * MaxLate < Tick

\* How early a sweep may find an interval elapsed.
Slack == Tick \div 2

Slow == {f \in Family : Every[f] >= SlowCadence}

\* How many slow families one sweep may start, so that each of them starts
\* within the shortest of their cadences.
TurnsPerSweep(slow, shortest) ==
    LET inIt == shortest \div Tick
    IN  IF inIt < 1 THEN slow ELSE Most(1, (slow + inIt - 1) \div inIt)

Turns == TurnsPerSweep(Cardinality(Slow), Least({Every[f] : f \in Slow}))

-----------------------------------------------------------------------------
(* Who is due, and whose turn it is.                                       *)

\* A fault to find: due to the instant, without the slack.
DueExactly(f, t) == last[f] = 0 \/ t - last[f] >= Every[f]

Due(f, t) == last[f] = 0 \/ t - last[f] >= Every[f] - Slack

\* A fault to find: by the last run only.
OverdueByRun(f) == last[f] + Every[f]

\* When f came due, from the later of its last run and its last turn.
OverdueSince(f) == Most(last[f], started[f]) + Every[f]

\* The slow families of due that may start: as many as there are turns for,
\* and none before one overdue for longer.
TakeTurns(due) ==
    {s \in SUBSET due :
        /\ Cardinality(s) = IF Cardinality(due) < Turns THEN Cardinality(due) ELSE Turns
        /\ \A f \in s, g \in due \ s : OverdueSince(f) <= OverdueSince(g)}

\* A fault to find: every family a primed sweep ran.
MarkedAll(done, due, sizing, primed) == done

\* Of the families a pass brought something of, the ones recorded as run.
Marked(done, due, sizing, primed) == IF primed THEN done \cap (due \cup sizing) ELSE done

-----------------------------------------------------------------------------

Mishap == mishaps < MaxMishaps /\ mishaps' = mishaps + 1

\* A fault to find: the file holds when each family is due again.
SavedNextDue(marks) == saved' = [f \in Family |-> marks[f] + Every[f]] /\ UNCHANGED mishaps

\* The state file takes what the sweep marked, or the save fails or is never
\* reached.
Saved(marks) == \/ saved' = marks /\ UNCHANGED mishaps
                \/ UNCHANGED saved /\ Mishap

\* A sweep at time t that runs the families ran, some of which fail or are
\* skipped for want of budget, and holds back the families held.
Run(t, due, ran, held, start, sizing) ==
    \E failed \in SUBSET (ran \cap Flaky) :
        LET marks == Marked(ran \ failed, due, sizing, first /\ Prime)
            \* What f was due by before was a run, not a turn that failed.
            waiting(f) == f \in held \ marks /\ started[f] <= last[f]
        IN  /\ last'   = [f \in Family |-> IF f \in marks THEN t ELSE last[f]]
            /\ started' = [f \in Family |-> IF f \in start THEN t ELSE started[f]]
            /\ waits'  = [f \in Family |-> IF waiting(f) THEN waits[f] + 1 ELSE 0]
            /\ passed' = [f \in Family |-> IF waiting(f) THEN passed[f] \cup start ELSE {}]
            /\ at'     = [f \in Family |-> IF f \in marks THEN ticks' ELSE at[f]]
            /\ Saved(last')

\* sweep, after the listing answered.
Collect(t) ==
    LET due     == {f \in Family : Due(f, t)}
        slowDue == due \cap Slow
    IN  IF first /\ Prime
        THEN \* Every family, and nobody takes a turn.
             \E sizing \in {{}, Totals} : Run(t, due, Family, {}, {}, sizing)
        ELSE \E sizing \in IF first THEN {{}, Totals} ELSE {{}}, start \in TakeTurns(slowDue) :
                 Run(t, due, (due \ (slowDue \ start)) \cup sizing, slowDue \ start, start, sizing)

\* A sweep whose listing failed runs nothing and spends nobody's turn.
NotListed == Mishap /\ UNCHANGED <<memory, saved>>

FirstSweep ==
    /\ up /\ first /\ now <= MaxTime
    /\ UNCHANGED <<now, up, starts, others, ticks>>
    /\ first' = FALSE
    /\ \E length \in 0..MaxLate : next' = now + length + Tick
    /\ Collect(now) \/ NotListed

Sweep ==
    /\ up /\ ~first /\ next <= MaxTime
    /\ \E late \in 0..MaxLate : now' = next + late
    /\ next' = next + Tick /\ ticks' = ticks + 1
    /\ Collect(now') \/ NotListed
    /\ UNCHANGED <<up, first, starts, others>>

\* LoadState, in a process that has let nobody start.
Start ==
    /\ ~up /\ starts < MaxStarts /\ starts' = starts + 1
    /\ up' = TRUE /\ first' = TRUE
    /\ \E away \in {1, Tick} : now' = now + away
    /\ last' = saved /\ ticks' = 0
    /\ started' = [f \in Family |-> 0] /\ at' = [f \in Family |-> 0]
    /\ waits' = [f \in Family |-> 0] /\ passed' = [f \in Family |-> {}]
    /\ UNCHANGED <<next, saved, others, mishaps>>

Stop == up /\ up' = FALSE /\ UNCHANGED <<now, next, first, memory, saved, ticks, bounds>>

\* -once runs what is due, -backfill everything, and either marks it all at
\* one instant; neither takes turns.
OtherRun ==
    /\ ~up /\ others < MaxOthers /\ others' = others + 1
    /\ now' = now + 1
    /\ \E all \in BOOLEAN :
           saved' = [f \in Family |-> IF \/ all \/ saved[f] = 0
                                         \/ now' - saved[f] >= Every[f] - Slack
                                      THEN now' ELSE saved[f]]
    /\ UNCHANGED <<next, up, first, memory, ticks, starts, mishaps>>

Init ==
    /\ now = Begin /\ next = Begin /\ up = FALSE /\ first = FALSE
    /\ last = [f \in Family |-> 0] /\ saved = [f \in Family |-> 0]
    /\ started = [f \in Family |-> 0]
    /\ waits = [f \in Family |-> 0] /\ passed = [f \in Family |-> {}]
    /\ ticks = 0 /\ at = [f \in Family |-> 0]
    /\ starts = 0 /\ others = 0 /\ mishaps = 0

Next == FirstSweep \/ Sweep \/ Start \/ Stop \/ OtherRun

Spec == Init /\ [][Next]_vars

-----------------------------------------------------------------------------

\* The shape of every variable; no mark is of a time to come.
TypeOK ==
    /\ now \in Nat /\ next \in Nat /\ up \in BOOLEAN /\ first \in BOOLEAN
    /\ last \in [Family -> 0..now] /\ saved \in [Family -> 0..now]
    /\ started \in [Family -> 0..now]
    /\ waits \in [Family -> Nat] /\ passed \in [Family -> SUBSET Slow]
    /\ ticks \in Nat /\ at \in [Family -> 0..ticks]
    /\ starts \in 0..MaxStarts /\ others \in 0..MaxOthers /\ mishaps \in 0..MaxMishaps

\* A slow family that is due waits for each of the others at most once,
\* however many of them fail whenever they run: n families and k turns a sweep
\* make (n-1)/k sweeps (turns.go).  It is so of a family whose last turn was a
\* run: one that failed itself is due by a last run and waits by a last turn.
WaitBounded == \A f \in Slow : waits[f] * Turns <= Cardinality(Slow) - 1

\* A family whose cadence is a whole number of ticks and that was marked on a
\* tick is due again exactly on the tick the cadence comes to, whatever moment
\* of them the sweeps read the clock at: never a tick late, which was the bug
\* the slack mended, and never a tick early (runner.go, due).
OnItsTick ==
    [][ticks' = ticks + 1 =>
           \A f \in Family : at[f] # 0 /\ Every[f] % Tick = 0 =>
               (Due(f, now') <=> (ticks' - at[f]) * Tick >= Every[f])]_vars

\* Slow families that were marked in different sweeps are not marked in one
\* again, where one turn a sweep is enough, unless the first sweep of a service
\* finds each due or sizes a page by it: a restart that finds them due brings
\* them together, one that runs them before their time does not (runner.go,
\* markRun).
StayApart ==
    [][\A f, g \in Slow :
           /\ up /\ Turns = 1 /\ last[f] # last[g] /\ last'[f] = last'[g] /\ up'
           => first /\ \A h \in {f, g} : Due(h, now) \/ h \in Totals]_vars

=============================================================================
