----------------------------- MODULE TurnsProofs -----------------------------
(***************************************************************************)
(* Proofs about Turns, for every set of families, cadences and tick and    *)
(* every bound: its variables keep their types, no slow family waits for   *)
(* another more than once, and only a first sweep that finds families due  *)
(* marks them together.                                                    *)
(***************************************************************************)
EXTENDS Turns, TLAPS, FiniteSetTheorems, WellFoundedInduction

-----------------------------------------------------------------------------
(* What the configuration fixes.                                           *)

\* The least of some naturals is one of them, and none is less.
LEMMA LeastIsLeast ==
    ASSUME NEW S \in SUBSET Nat, S # {}
    PROVE  Least(S) \in S /\ \A m \in S : Least(S) <= m
<1> DEFINE R == OpToRel(<, Nat)
<1>1. \A x, y \in Nat : <<x, y>> \in R <=> x < y
  BY DEF OpToRel
<1> HIDE DEF R
<1>2. IsWellFoundedOn(R, Nat)
  BY NatLessThanWellFounded DEF R
<1>3. PICK x \in S : \A y \in S : ~ (<<y, x>> \in R)
  BY <1>2, WFMin
<1>4. ASSUME NEW y \in S PROVE x <= y
  <2>1. x \in Nat /\ y \in Nat /\ ~ (<<y, x>> \in R)
    BY <1>3
  <2>2. ~ (y < x)
    BY <1>1, <2>1, Zenon
  <2> QED  BY <2>1, <2>2
<1> QED  BY <1>4 DEF Least

\* A tick takes time, a family is found due before it is overdue by it.
LEMMA TickType == Tick \in Nat \ {0} /\ Slack \in Nat /\ 2 * Slack <= Tick
<1> DEFINE S == {Hour} \cup {Every[f] : f \in Family}
<1>1. S \in SUBSET Nat /\ S # {}
  BY TurnsAssumption
<1>2. Least(S) \in Nat
  <2> HIDE DEF S
  <2> QED  BY <1>1, LeastIsLeast
<1>3. ShortestInterval \in Nat \ {0}
  <2>1. ShortestInterval = Most(Minute, Least(S))
    BY DEF ShortestInterval
  <2> HIDE DEF S
  <2> QED  BY <1>2, <2>1, TurnsAssumption DEF Most
<1>4. Tick \in Nat \ {0}
  BY <1>3, TurnsAssumption DEF Tick
<1> QED  BY <1>4 DEF Slack

\* A cadence under a tick has no whole tick in it.
LEMMA UnderATick ==
    ASSUME NEW s \in Nat, NEW t \in Nat \ {0}
    PROVE  s \div t \in Nat /\ (s < t => s \div t < 1)
OBVIOUS

\* Where not every slow family may start, a slow cadence has room for a tick.
LEMMA TurnsType ==
    ASSUME Slow # {}
    PROVE  /\ Turns \in Nat
           /\ Turns < Cardinality(Slow) => \A f \in Slow : Slack < Every[f]
<1> DEFINE S == {Every[f] : f \in Slow}
           n == Cardinality(Slow)
           shortest == Least(S)
           inIt == shortest \div Tick
<1>1. S \in SUBSET Nat /\ S # {} /\ \A f \in Slow : Every[f] \in S /\ Every[f] \in Nat \ {0}
  BY TurnsAssumption DEF Slow
<1>2. shortest \in Nat /\ \A f \in Slow : shortest <= Every[f]
  <2> HIDE DEF S
  <2> QED  BY <1>1, LeastIsLeast
<1>3. n \in Nat
  BY TurnsAssumption, FS_Subset, FS_CardinalityType DEF Slow
<1>4. Turns = IF inIt < 1 THEN n ELSE Most(1, (n + inIt - 1) \div inIt)
  BY DEF Turns, TurnsPerSweep
<1> HIDE DEF S, n, shortest
<1>5. inIt \in Nat /\ (shortest < Tick => inIt < 1)
  BY <1>2, TickType, UnderATick
<1> HIDE DEF inIt
<1>6. Turns \in Nat
  <2>1. CASE inIt < 1
    BY <1>3, <1>4, <2>1
  <2>2. CASE ~ (inIt < 1)
    <3>1. (n + inIt - 1) \in Nat /\ inIt \in Nat \ {0}
      BY <1>3, <1>5, <2>2
    <3>2. (n + inIt - 1) \div inIt \in Nat
      BY <3>1, UnderATick
    <3> QED  BY <1>4, <2>2, <3>2 DEF Most
  <2> QED  BY <2>1, <2>2
<1>7. ASSUME Turns < n, NEW f \in Slow PROVE Slack < Every[f]
  <2>1. ~ (shortest < Tick)
    BY <1>3, <1>4, <1>5, <1>7
  <2>2. Tick <= Every[f]
    BY <1>1, <1>2, <2>1, TickType
  <2> QED  BY <1>1, <2>2, TickType
<1> QED  BY <1>6, <1>7 DEF n

-----------------------------------------------------------------------------
(* The invariant.                                                          *)

\* What the clock and the ticker are to each other: the next tick is to come,
\* and no mark is of a time to come.
Clock ==
    /\ now \in Nat /\ now >= Begin /\ next \in Nat
    /\ up /\ ~first => next >= now

\* Those that started while f waited are others, as many as the turns there
\* were, and each came to be due later than f did: none of them is ahead of
\* it again.
Queue ==
    \A f \in Family :
        /\ passed[f] \subseteq Slow \ {f}
        /\ waits[f] > 0 => waits[f] * Turns <= Cardinality(passed[f])
        /\ waits[f] = 0 => passed[f] = {}
        /\ waits[f] > 0 => f \in Slow /\ started[f] <= last[f]
        /\ \A g \in passed[f] : OverdueSince(f) < OverdueSince(g)

-----------------------------------------------------------------------------
(* Type correctness.                                                       *)

\* A sweep marks families at its time and no other.
LEMMA RunType ==
    ASSUME TypeOK, NEW t \in Nat, t >= now, now' = t, ticks' \in Nat, ticks' >= ticks,
           NEW due \in SUBSET Family, NEW ran \in SUBSET Family, NEW held \in SUBSET Family,
           NEW start \in SUBSET Slow, NEW sizing \in SUBSET Family,
           Run(t, due, ran, held, start, sizing)
    PROVE  /\ last' \in [Family -> 0..now'] /\ saved' \in [Family -> 0..now']
           /\ started' \in [Family -> 0..now']
           /\ waits' \in [Family -> Nat] /\ passed' \in [Family -> SUBSET Slow]
           /\ at' \in [Family -> 0..ticks'] /\ mishaps' \in 0..MaxMishaps
           /\ \A f \in Family : last[f] <= last'[f] /\ started[f] <= started'[f]
<1> USE DEF TypeOK
<1>1. PICK failed \in SUBSET (ran \cap Flaky) :
        LET marks == Marked(ran \ failed, due, sizing, first /\ Prime)
            waiting(f) == f \in held \ marks /\ started[f] <= last[f]
        IN  /\ last'   = [f \in Family |-> IF f \in marks THEN t ELSE last[f]]
            /\ started' = [f \in Family |-> IF f \in start THEN t ELSE started[f]]
            /\ waits'  = [f \in Family |-> IF waiting(f) THEN waits[f] + 1 ELSE 0]
            /\ passed' = [f \in Family |-> IF waiting(f) THEN passed[f] \cup start ELSE {}]
            /\ at'     = [f \in Family |-> IF f \in marks THEN ticks' ELSE at[f]]
            /\ Saved(last')
  BY DEF Run
<1> DEFINE marks == Marked(ran \ failed, due, sizing, first /\ Prime)
           waiting(f) == f \in held \ marks /\ started[f] <= last[f]
<1>2. /\ last'   = [f \in Family |-> IF f \in marks THEN t ELSE last[f]]
      /\ started' = [f \in Family |-> IF f \in start THEN t ELSE started[f]]
      /\ waits'  = [f \in Family |-> IF waiting(f) THEN waits[f] + 1 ELSE 0]
      /\ passed' = [f \in Family |-> IF waiting(f) THEN passed[f] \cup start ELSE {}]
      /\ at'     = [f \in Family |-> IF f \in marks THEN ticks' ELSE at[f]]
      /\ Saved(last')
  BY <1>1
<1> HIDE DEF marks, waiting
<1>3. last' \in [Family -> 0..now'] /\ \A f \in Family : last[f] <= last'[f]
  BY <1>2
<1>4. started' \in [Family -> 0..now'] /\ \A f \in Family : started[f] <= started'[f]
  BY <1>2
<1>5. waits' \in [Family -> Nat]
  BY <1>2
<1>6. passed' \in [Family -> SUBSET Slow]
  BY <1>2
<1>7. at' \in [Family -> 0..ticks']
  BY <1>2
<1>8. saved' \in [Family -> 0..now'] /\ mishaps' \in 0..MaxMishaps
  <2>1. CASE saved' = last' /\ UNCHANGED mishaps
    BY <1>3, <2>1
  <2>2. CASE UNCHANGED saved /\ Mishap
    BY <2>2, TurnsAssumption DEF Mishap
  <2> QED  BY <1>2, <2>1, <2>2 DEF Saved
<1> QED  BY <1>3, <1>4, <1>5, <1>6, <1>7, <1>8

\* A sweep that collects is a run of families, one way of the two.
LEMMA CollectRuns ==
    ASSUME NEW t, Collect(t)
    PROVE  LET slowDue == {f \in Slow : Due(f, t)} IN
           \E sizing \in SUBSET Totals, ran \in SUBSET Family,
              held \in SUBSET slowDue, start \in SUBSET slowDue :
               /\ Run(t, {f \in Family : Due(f, t)}, ran, held, start, sizing)
               /\ sizing = {} \/ first
               /\ \/ first /\ Prime /\ held = {} /\ start = {}
                  \/ /\ ~ (first /\ Prime) /\ start \in TakeTurns(slowDue)
                     /\ held = slowDue \ start
                     /\ ran = ({f \in Family : Due(f, t)} \ held) \cup sizing
<1> DEFINE due == {f \in Family : Due(f, t)}
           slowDue == {f \in Slow : Due(f, t)}
<1>1. slowDue = due \cap Slow
  BY DEF Slow
<1>2. CASE first /\ Prime
  <2>1. PICK sizing \in {{}, Totals} : Run(t, due, Family, {}, {}, sizing)
    BY <1>2 DEF Collect
  <2> QED  BY <1>2, <2>1
<1>3. CASE ~ (first /\ Prime)
  <2>1. PICK sizing \in IF first THEN {{}, Totals} ELSE {{}}, start \in TakeTurns(slowDue) :
            Run(t, due, (due \ (slowDue \ start)) \cup sizing, slowDue \ start, start, sizing)
    BY <1>1, <1>3 DEF Collect
  <2>2. start \in SUBSET slowDue
    BY DEF TakeTurns
  <2>3. (due \ (slowDue \ start)) \cup sizing \in SUBSET Family
    BY TurnsAssumption
  <2> QED  BY <1>3, <2>1, <2>2, <2>3
<1> QED  BY <1>2, <1>3

\* A sweep, whatever of it fails, keeps the types and turns no mark back.
LEMMA SweptType ==
    ASSUME TypeOK, now' \in Nat, now' >= now, ticks' \in Nat, ticks' >= ticks,
           Collect(now') \/ NotListed
    PROVE  /\ last' \in [Family -> 0..now'] /\ saved' \in [Family -> 0..now']
           /\ started' \in [Family -> 0..now']
           /\ waits' \in [Family -> Nat] /\ passed' \in [Family -> SUBSET Slow]
           /\ at' \in [Family -> 0..ticks'] /\ mishaps' \in 0..MaxMishaps
           /\ \A f \in Family : last[f] <= last'[f] /\ started[f] <= started'[f]
<1>1. CASE Collect(now')
  <2> DEFINE slowDue == {f \in Slow : Due(f, now')}
  <2>1. PICK sizing \in SUBSET Totals, ran \in SUBSET Family,
             held \in SUBSET slowDue, start \in SUBSET slowDue :
               Run(now', {f \in Family : Due(f, now')}, ran, held, start, sizing)
    BY <1>1, CollectRuns, Zenon
  <2>2. /\ sizing \in SUBSET Family /\ held \in SUBSET Family /\ start \in SUBSET Slow
        /\ {f \in Family : Due(f, now')} \in SUBSET Family
    BY TurnsAssumption DEF Slow
  <2> QED  BY <2>1, <2>2, RunType
<1>2. CASE NotListed
  BY <1>2, TurnsAssumption DEF NotListed, Mishap, memory, TypeOK
<1> QED  BY <1>1, <1>2

\* Typed begins and stays.
LEMMA InitType == Init => TypeOK /\ Clock
<1> SUFFICES ASSUME Init PROVE TypeOK /\ Clock
  OBVIOUS
<1>1. now \in Nat /\ now >= Begin /\ next \in Nat /\ ticks = 0 /\ ticks \in Nat
  BY TurnsAssumption DEF Init
<1>2. 0 \in 0..now /\ 0 \in 0..ticks
  BY <1>1
<1>3. /\ last \in [Family -> 0..now] /\ saved \in [Family -> 0..now]
      /\ started \in [Family -> 0..now] /\ at \in [Family -> 0..ticks]
  BY <1>2 DEF Init
<1>4. waits \in [Family -> Nat] /\ passed \in [Family -> SUBSET Slow]
  BY DEF Init
<1>5. starts \in 0..MaxStarts /\ others \in 0..MaxOthers /\ mishaps \in 0..MaxMishaps
  BY TurnsAssumption DEF Init
<1> QED  BY <1>1, <1>3, <1>4, <1>5 DEF Init, TypeOK, Clock

LEMMA NextType == TypeOK /\ Clock /\ [Next]_vars => TypeOK' /\ Clock'
<1> SUFFICES ASSUME TypeOK, Clock, [Next]_vars PROVE TypeOK' /\ Clock'
  OBVIOUS
<1>0. Tick \in Nat \ {0} /\ MaxLate \in Nat /\ MaxLate < Tick
  BY TickType, LateAssumption, TurnsAssumption
<1>1. CASE FirstSweep
  <2>1. now' = now /\ ticks' = ticks /\ now \in Nat /\ ticks \in Nat
    BY <1>1 DEF FirstSweep, TypeOK
  <2>2. Collect(now') \/ NotListed
    BY <1>1, <2>1 DEF FirstSweep
  <2>3. TypeOK'
    <3>0. PICK length \in 0..MaxLate : next' = now + length + Tick
      BY <1>1 DEF FirstSweep
    <3>1. next' \in Nat /\ first' \in BOOLEAN /\ up' \in BOOLEAN
      <4>1. next' \in Nat
        BY <1>0, <2>1, <3>0
      <4> QED  BY <1>1, <4>1 DEF FirstSweep, TypeOK
    <3>2. starts' \in 0..MaxStarts /\ others' \in 0..MaxOthers
      BY <1>1 DEF FirstSweep, TypeOK
    <3> QED  BY <2>1, <2>2, <3>1, <3>2, SweptType DEF TypeOK
  <2>4. Clock'
    <3>1. PICK length \in 0..MaxLate : next' = now + length + Tick
      BY <1>1 DEF FirstSweep
    <3>2. next' \in Nat /\ next' >= now'
      BY <1>0, <2>1, <3>1
    <3> QED  BY <2>1, <3>2 DEF Clock
  <2> QED  BY <2>3, <2>4
<1>2. CASE Sweep
  <2>1. PICK late \in 0..MaxLate : now' = next + late
    BY <1>2 DEF Sweep
  <2>2. now' \in Nat /\ now' >= now /\ ticks' \in Nat /\ ticks' >= ticks
    BY <1>0, <1>2, <2>1 DEF Sweep, TypeOK, Clock
  <2>3. TypeOK'
    <3>1. next' \in Nat /\ first' \in BOOLEAN /\ up' \in BOOLEAN
      BY <1>0, <1>2 DEF Sweep, TypeOK
    <3>2. starts' \in 0..MaxStarts /\ others' \in 0..MaxOthers
      BY <1>2 DEF Sweep, TypeOK
    <3>3. Collect(now') \/ NotListed
      BY <1>2 DEF Sweep
    <3> QED  BY <2>2, <3>1, <3>2, <3>3, SweptType DEF TypeOK
  <2>4. Clock'
    BY <1>0, <1>2, <2>1, <2>2, TurnsAssumption DEF Sweep, Clock
  <2> QED  BY <2>3, <2>4
<1>3. CASE Start
  <2>1. PICK away \in {1, Tick} : now' = now + away
    BY <1>3 DEF Start
  <2>2. now' \in Nat /\ now' >= now
    BY <1>0, <2>1 DEF Clock
  <2> QED  BY <1>3, <2>2, TurnsAssumption DEF Start, TypeOK, Clock
<1>4. CASE Stop
  BY <1>4 DEF Stop, TypeOK, Clock, memory, bounds
<1>5. CASE OtherRun
  <2>1. now' = now + 1 /\ now' \in Nat
    BY <1>5 DEF OtherRun, Clock
  <2>2. saved' \in [Family -> 0..now']
    BY <1>5, <2>1 DEF OtherRun, TypeOK
  <2>3. others' \in 0..MaxOthers
    BY <1>5, TurnsAssumption DEF OtherRun, TypeOK
  <2>4. last' \in [Family -> 0..now'] /\ started' \in [Family -> 0..now']
    BY <1>5, <2>1 DEF OtherRun, TypeOK, memory
  <2> QED  BY <1>5, <2>1, <2>2, <2>3, <2>4, TurnsAssumption DEF OtherRun, TypeOK, Clock, memory
<1>6. CASE UNCHANGED vars
  BY <1>6 DEF vars, memory, bounds, TypeOK, Clock
<1> QED  BY <1>1, <1>2, <1>3, <1>4, <1>5, <1>6 DEF Next

\* The variables keep their types, and no mark is of a time to come.
THEOREM TypeCorrect == Spec => []TypeOK
<1>1. Init => TypeOK /\ Clock
  BY InitType
<1>2. TypeOK /\ Clock /\ [Next]_vars => (TypeOK /\ Clock)'
  BY NextType
<1> QED  BY <1>1, <1>2, PTL DEF Spec

-----------------------------------------------------------------------------
(* Nobody waits for another twice.                                         *)

\* A family that has to wait came to be due before any that starts will
\* again, and waits because every turn is taken.
LEMMA TurnsTaken ==
    ASSUME TypeOK, Clock, NEW t \in Nat, t >= now,
           NEW slowDue, slowDue = {f \in Slow : Due(f, t)},
           NEW start \in TakeTurns(slowDue), NEW f \in slowDue \ start, started[f] <= last[f]
    PROVE  /\ IsFiniteSet(start) /\ Cardinality(start) = Turns /\ Turns \in Nat
           /\ \A g \in start : OverdueSince(g) <= OverdueSince(f)
           /\ \A g \in Slow : OverdueSince(f) < t + Every[g]
<1>0. f \in Slow /\ Slow # {} /\ IsFiniteSet(Slow) /\ slowDue \in SUBSET Slow /\ start \in SUBSET slowDue
  BY TurnsAssumption, FS_Subset DEF Slow, TakeTurns
<1>1. IsFiniteSet(slowDue) /\ IsFiniteSet(start) /\ Cardinality(slowDue) \in Nat /\ Cardinality(Slow) \in Nat
  BY <1>0, FS_Subset, FS_CardinalityType
<1>2. Cardinality(start) # Cardinality(slowDue)
  BY <1>0, <1>1, FS_Subset
<1>3. Turns \in Nat
  BY <1>0, TurnsType
<1>4. Cardinality(start) = IF Cardinality(slowDue) < Turns THEN Cardinality(slowDue) ELSE Turns
  BY DEF TakeTurns
<1>5. Cardinality(start) = Turns
  BY <1>1, <1>2, <1>4
<1>6. \A g \in start : OverdueSince(g) <= OverdueSince(f)
  BY DEF TakeTurns
<1>7. Turns < Cardinality(Slow)
  <2>1. Cardinality(slowDue) <= Cardinality(Slow)
    BY <1>0, <1>1, FS_Subset
  <2>2. ~ (Cardinality(slowDue) < Turns)
    BY <1>2, <1>4
  <2>3. Turns # Cardinality(slowDue)
    BY <1>2, <1>5
  <2> QED  BY <1>1, <1>3, <2>1, <2>2, <2>3
<1>8. ASSUME NEW g \in Slow PROVE OverdueSince(f) < t + Every[g]
  <2>1. Slack < Every[g] /\ Slack < Every[f] /\ Slack \in Nat
    BY <1>0, <1>7, TurnsType, TickType
  <2>2. /\ Every[g] \in Nat /\ Every[f] \in Nat /\ Every[f] <= Begin /\ Begin \in Nat
        /\ last[f] \in Nat /\ started[f] \in Nat /\ now \in Nat /\ now >= Begin
    BY <1>0, TurnsAssumption DEF Slow, TypeOK, Clock
  <2>3. OverdueSince(f) = last[f] + Every[f]
    BY <2>2 DEF OverdueSince, Most
  <2>4. last[f] = 0 \/ t - last[f] >= Every[f] - Slack
    BY DEF Due
  <2>5. CASE last[f] = 0
    BY <2>1, <2>2, <2>3, <2>5
  <2>6. CASE t - last[f] >= Every[f] - Slack
    BY <2>1, <2>2, <2>3, <2>6
  <2> QED  BY <2>4, <2>5, <2>6
<1> QED  BY <1>1, <1>3, <1>5, <1>6, <1>8

\* A sweep keeps the queue in order.
LEMMA QueueRun ==
    ASSUME TypeOK, Clock, Queue, NEW t \in Nat, t >= now,
           NEW due, NEW ran, NEW held, NEW start, NEW sizing,
           Run(t, due, ran, held, start, sizing),
           start \in SUBSET Slow, held \in SUBSET Slow,
           \A f \in held : started[f] <= last[f] =>
               /\ f \notin start
               /\ IsFiniteSet(start) /\ Cardinality(start) = Turns /\ Turns \in Nat
               /\ \A g \in start : OverdueSince(g) <= OverdueSince(f)
               /\ \A g \in Slow : OverdueSince(f) < t + Every[g]
    PROVE  Queue'
<1>1. PICK failed \in SUBSET (ran \cap Flaky) :
        LET marks == Marked(ran \ failed, due, sizing, first /\ Prime)
            waiting(f) == f \in held \ marks /\ started[f] <= last[f]
        IN  /\ last'   = [f \in Family |-> IF f \in marks THEN t ELSE last[f]]
            /\ started' = [f \in Family |-> IF f \in start THEN t ELSE started[f]]
            /\ waits'  = [f \in Family |-> IF waiting(f) THEN waits[f] + 1 ELSE 0]
            /\ passed' = [f \in Family |-> IF waiting(f) THEN passed[f] \cup start ELSE {}]
            /\ at'     = [f \in Family |-> IF f \in marks THEN ticks' ELSE at[f]]
            /\ Saved(last')
  BY DEF Run
<1> DEFINE marks == Marked(ran \ failed, due, sizing, first /\ Prime)
<1>2. /\ last'   = [f \in Family |-> IF f \in marks THEN t ELSE last[f]]
      /\ started' = [f \in Family |-> IF f \in start THEN t ELSE started[f]]
      /\ waits'  = [f \in Family |-> IF f \in held \ marks /\ started[f] <= last[f]
                                     THEN waits[f] + 1 ELSE 0]
      /\ passed' = [f \in Family |-> IF f \in held \ marks /\ started[f] <= last[f]
                                     THEN passed[f] \cup start ELSE {}]
  BY <1>1
<1> HIDE DEF marks
<1>3. SUFFICES ASSUME NEW f \in Family
      PROVE  /\ passed'[f] \subseteq Slow \ {f}
             /\ waits'[f] > 0 => waits'[f] * Turns <= Cardinality(passed'[f])
             /\ waits'[f] = 0 => passed'[f] = {}
             /\ waits'[f] > 0 => f \in Slow /\ started'[f] <= last'[f]
             /\ \A g \in passed'[f] : OverdueSince(f)' < OverdueSince(g)'
  BY DEF Queue
<1>4. CASE ~ (f \in held \ marks /\ started[f] <= last[f])
  <2>1. waits'[f] = 0 /\ passed'[f] = {}
    BY <1>2, <1>4
  <2> QED  BY <2>1
<1>5. CASE f \in held \ marks /\ started[f] <= last[f]
  <2>1. /\ last'[f] = last[f] /\ started'[f] = started[f]
        /\ waits'[f] = waits[f] + 1 /\ passed'[f] = passed[f] \cup start
        /\ f \in Slow /\ f \notin start
    BY <1>2, <1>5
  <2>2. /\ passed[f] \subseteq Slow \ {f}
        /\ waits[f] > 0 => waits[f] * Turns <= Cardinality(passed[f])
        /\ waits[f] = 0 => passed[f] = {}
        /\ \A g \in passed[f] : OverdueSince(f) < OverdueSince(g)
    BY DEF Queue
  <2>3. /\ IsFiniteSet(start) /\ Cardinality(start) = Turns /\ Turns \in Nat
        /\ \A g \in start : OverdueSince(g) <= OverdueSince(f)
        /\ \A g \in Slow : OverdueSince(f) < t + Every[g]
    BY <1>5
  <2>4. waits[f] \in Nat /\ waits'[f] > 0
    BY <2>1 DEF TypeOK
  <2>5. \A g \in Slow : /\ OverdueSince(g) \in Nat /\ last[g] \in Nat /\ started[g] \in Nat
                        /\ Every[g] \in Nat /\ last[g] <= t /\ started[g] <= t
    BY TurnsAssumption DEF Slow, TypeOK, Clock, OverdueSince, Most
  <2>6. start \cap passed[f] = {}
    BY <2>1, <2>2, <2>3, <2>5
  <2>7. (waits[f] + 1) * Turns <= Cardinality(passed[f] \cup start)
    <3>1. IsFiniteSet(passed[f]) /\ Cardinality(passed[f]) \in Nat
      BY <2>2, TurnsAssumption, FS_Subset, FS_CardinalityType DEF Slow
    <3>2. Cardinality(passed[f] \cup start) = Cardinality(passed[f]) + Turns
      <4> DEFINE P == passed[f]
      <4>1. P \cap start = {} /\ IsFiniteSet(P) /\ Cardinality(P) \in Nat
        BY <2>6, <3>1
      <4> HIDE DEF P
      <4>2. Cardinality(P \cup start) = Cardinality(P) + Cardinality(start) - Cardinality(P \cap start)
        BY <2>3, <4>1, FS_Union
      <4>3. Cardinality(P \cap start) = 0
        BY <4>1, FS_EmptySet
      <4>4. Cardinality(P \cup start) = Cardinality(P) + Turns
        BY <2>3, <4>1, <4>2, <4>3
      <4> QED  BY <4>4 DEF P
    <3>3. (waits[f] + 1) * Turns = waits[f] * Turns + Turns
      BY <2>3, <2>4
    <3>4. waits[f] * Turns <= Cardinality(passed[f])
      <4>1. CASE waits[f] = 0
        BY <2>3, <3>1, <4>1
      <4> QED  BY <2>2, <2>4, <4>1
    <3> HIDE DEF Turns
    <3>5. waits[f] * Turns \in Nat
      BY <2>3, <2>4
    <3> QED  BY <2>3, <3>1, <3>2, <3>3, <3>4, <3>5
  <2>8. ASSUME NEW g \in passed'[f] PROVE OverdueSince(f)' < OverdueSince(g)'
    <3>1. g \in Slow /\ g \in Family
      BY <2>1, <2>2, <2>8 DEF Slow
    <3>2. OverdueSince(f)' = OverdueSince(f)
      BY <2>1 DEF OverdueSince
    <3>3. last'[g] = (IF g \in marks THEN t ELSE last[g]) /\ started'[g] = (IF g \in start THEN t ELSE started[g])
      BY <1>2, <3>1
    <3>4. OverdueSince(g)' = Most(last'[g], started'[g]) + Every[g]
      BY DEF OverdueSince
    <3>5. CASE g \in start
      <4>1. OverdueSince(g)' = t + Every[g]
        BY <2>5, <3>1, <3>3, <3>4, <3>5 DEF Most
      <4> QED  BY <2>3, <3>1, <3>2, <4>1
    <3>6. CASE g \in passed[f]
      <4>1. OverdueSince(g) = Most(last[g], started[g]) + Every[g]
        BY DEF OverdueSince
      <4>2. OverdueSince(g)' >= OverdueSince(g) /\ OverdueSince(g)' \in Nat
        BY <2>5, <3>1, <3>3, <3>4, <4>1 DEF Most
      <4>3. OverdueSince(f) \in Nat
        BY <2>1, <2>5
      <4> QED  BY <2>2, <2>5, <3>1, <3>2, <3>6, <4>2, <4>3
    <3> QED  BY <2>1, <2>8, <3>5, <3>6
  <2>9. passed'[f] \subseteq Slow \ {f}
    BY <2>1, <2>2
  <2> QED  BY <1>5, <2>1, <2>4, <2>7, <2>8, <2>9
<1> QED  BY <1>4, <1>5

\* Every step keeps the queue in order.
LEMMA NextQueue == TypeOK /\ Clock /\ Queue /\ [Next]_vars => Queue'
<1> SUFFICES ASSUME TypeOK, Clock, Queue, [Next]_vars PROVE Queue'
  OBVIOUS
<1>1. ASSUME Collect(now'), now' \in Nat, now' >= now PROVE Queue'
  <2> DEFINE slowDue == {f \in Slow : Due(f, now')}
             due == {f \in Family : Due(f, now')}
  <2>1. PICK sizing \in SUBSET Totals, ran \in SUBSET Family,
             held \in SUBSET slowDue, start \in SUBSET slowDue :
               /\ Run(now', due, ran, held, start, sizing)
               /\ \/ held = {}
                  \/ start \in TakeTurns(slowDue) /\ held = slowDue \ start
    <3>1. \E sizing \in SUBSET Totals, ran \in SUBSET Family,
             held \in SUBSET slowDue, start \in SUBSET slowDue :
               /\ Run(now', due, ran, held, start, sizing)
               /\ sizing = {} \/ first
               /\ \/ first /\ Prime /\ held = {} /\ start = {}
                  \/ /\ ~ (first /\ Prime) /\ start \in TakeTurns(slowDue)
                     /\ held = slowDue \ start
                     /\ ran = (due \ held) \cup sizing
      BY <1>1, CollectRuns, Zenon
    <3> HIDE DEF slowDue, due
    <3> QED  BY <3>1, Zenon
  <2>2. start \in SUBSET Slow /\ held \in SUBSET Slow
    OBVIOUS
  <2>3. ASSUME NEW f \in held, started[f] <= last[f]
        PROVE  /\ f \notin start
               /\ IsFiniteSet(start) /\ Cardinality(start) = Turns /\ Turns \in Nat
               /\ \A g \in start : OverdueSince(g) <= OverdueSince(f)
               /\ \A g \in Slow : OverdueSince(f) < now' + Every[g]
    <3>1. start \in TakeTurns(slowDue) /\ f \in slowDue \ start
      BY <2>1, <2>3
    <3> QED  BY <1>1, <2>3, <3>1, TurnsTaken
  <2> HIDE DEF slowDue, due
  <2> QED  BY <1>1, <2>1, <2>2, <2>3, QueueRun
<1>2. ASSUME UNCHANGED <<last, started, waits, passed>> PROVE Queue'
  BY <1>2 DEF Queue, OverdueSince
<1>3. Tick \in Nat \ {0} /\ MaxLate \in Nat
  BY TickType, TurnsAssumption
<1>4. CASE FirstSweep
  BY <1>1, <1>2, <1>4 DEF FirstSweep, NotListed, memory, TypeOK
<1>5. CASE Sweep
  <2>1. PICK late \in 0..MaxLate : now' = next + late
    BY <1>5 DEF Sweep
  <2>2. now' \in Nat /\ now' >= now
    BY <1>3, <1>5, <2>1 DEF Sweep, Clock
  <2> QED  BY <1>1, <1>2, <1>5, <2>2 DEF Sweep, NotListed, memory
<1>6. CASE Start
  <2>1. waits' = [f \in Family |-> 0] /\ passed' = [f \in Family |-> {}]
    BY <1>6 DEF Start
  <2> QED  BY <2>1 DEF Queue
<1>7. CASE Stop \/ OtherRun \/ UNCHANGED vars
  BY <1>2, <1>7 DEF Stop, OtherRun, vars, memory
<1> QED  BY <1>4, <1>5, <1>6, <1>7 DEF Next

\* The queue says how long it is.
LEMMA QueueBounds == TypeOK /\ Queue => WaitBounded
<1> SUFFICES ASSUME TypeOK, Queue, NEW f \in Slow
             PROVE  waits[f] * Turns <= Cardinality(Slow) - 1
  BY DEF WaitBounded
<1>1. f \in Family /\ IsFiniteSet(Slow) /\ Slow # {}
  BY TurnsAssumption, FS_Subset DEF Slow
<1>2. Turns \in Nat /\ Cardinality(Slow) \in Nat
  BY <1>1, TurnsType, FS_CardinalityType
<1>3. IsFiniteSet(Slow \ {f}) /\ Cardinality(Slow \ {f}) = Cardinality(Slow) - 1
  BY <1>1, FS_RemoveElement
<1>4. Cardinality(Slow \ {f}) \in Nat
  BY <1>3, FS_CardinalityType
<1>5. CASE waits[f] = 0
  BY <1>2, <1>3, <1>4, <1>5
<1>6. CASE waits[f] > 0
  <2>1. passed[f] \subseteq Slow \ {f} /\ waits[f] * Turns <= Cardinality(passed[f])
    BY <1>1, <1>6 DEF Queue
  <2>2. Cardinality(passed[f]) <= Cardinality(Slow \ {f}) /\ Cardinality(passed[f]) \in Nat
    BY <1>3, <2>1, FS_Subset, FS_CardinalityType
  <2>3. waits[f] * Turns \in Nat
    BY <1>1, <1>2 DEF TypeOK
  <2> QED  BY <1>2, <1>3, <1>4, <2>1, <2>2, <2>3
<1> QED  BY <1>1, <1>5, <1>6 DEF TypeOK

\* However many slow families there are, whatever their cadences and whichever
\* of them fail whenever they run, one that ran when it was last let start
\* waits for each of the others at most once.
THEOREM WaitIsBounded == Spec => []WaitBounded
<1>1. Init => TypeOK /\ Clock /\ Queue
  <2>1. Init => TypeOK /\ Clock
    BY InitType
  <2>2. Init => Queue
    BY DEF Init, Queue
  <2> QED  BY <2>1, <2>2
<1>2. TypeOK /\ Clock /\ Queue /\ [Next]_vars => (TypeOK /\ Clock /\ Queue)'
  BY NextType, NextQueue
<1>3. TypeOK /\ Clock /\ Queue => WaitBounded
  BY QueueBounds
<1> QED  BY <1>1, <1>2, <1>3, PTL DEF Spec

-----------------------------------------------------------------------------
(* A service forms no group.                                               *)

\* No sweep is at the instant of an earlier mark.
Later == /\ up /\ first => \A f \in Family : last[f] < now
         /\ up /\ ~first => next > now

LEMMA NextLater == TypeOK /\ Clock /\ Later /\ [Next]_vars => Later'
<1> SUFFICES ASSUME TypeOK, Clock, Later, [Next]_vars PROVE Later'
  OBVIOUS
<1>0. Tick \in Nat \ {0} /\ MaxLate \in Nat /\ MaxLate < Tick
  BY TickType, LateAssumption, TurnsAssumption
<1>1. CASE FirstSweep
  <2>1. PICK length \in 0..MaxLate : next' = now + length + Tick
    BY <1>1 DEF FirstSweep
  <2>2. next' > now' /\ first' = FALSE
    BY <1>0, <1>1, <2>1 DEF FirstSweep, Clock
  <2> QED  BY <2>2 DEF Later
<1>2. CASE Sweep
  <2>1. PICK late \in 0..MaxLate : now' = next + late
    BY <1>2 DEF Sweep
  <2>2. next' > now' /\ first' = FALSE
    BY <1>0, <1>2, <2>1 DEF Sweep, Clock
  <2> QED  BY <2>2 DEF Later
<1>3. CASE Start
  <2>1. PICK away \in {1, Tick} : now' = now + away
    BY <1>3 DEF Start
  <2>2. \A f \in Family : last'[f] < now'
    BY <1>0, <1>3, <2>1 DEF Start, TypeOK
  <2>3. first' = TRUE
    BY <1>3 DEF Start
  <2> QED  BY <2>2, <2>3 DEF Later
<1>4. CASE Stop \/ OtherRun
  BY <1>4 DEF Stop, OtherRun, Later
<1>5. CASE UNCHANGED vars
  BY <1>5 DEF vars, memory, Later
<1> QED  BY <1>1, <1>2, <1>3, <1>4, <1>5 DEF Next

\* Two slow families a sweep marks together are two it finds due first of all,
\* or sizes a page by: later a sweep starts one.
LEMMA MarkedTogether ==
    ASSUME TypeOK, NEW t \in Nat, Collect(t), Turns = 1, NEW f \in Slow, NEW g \in Slow, f # g,
           last'[f] = last'[g], last[f] # last[g], last[f] < t, last[g] < t
    PROVE  first /\ \A h \in {f, g} : Due(h, t) \/ h \in Totals
<1> DEFINE slowDue == {h \in Slow : Due(h, t)}
           due == {h \in Family : Due(h, t)}
<1>1. PICK sizing \in SUBSET Totals, ran \in SUBSET Family,
           held \in SUBSET slowDue, start \in SUBSET slowDue :
               /\ Run(t, due, ran, held, start, sizing)
               /\ sizing = {} \/ first
               /\ \/ first /\ Prime /\ held = {} /\ start = {}
                  \/ /\ ~ (first /\ Prime) /\ start \in TakeTurns(slowDue)
                     /\ held = slowDue \ start
                     /\ ran = (due \ held) \cup sizing
  BY CollectRuns, Zenon
<1>2. PICK failed \in SUBSET (ran \cap Flaky) :
        last' = [h \in Family |-> IF h \in Marked(ran \ failed, due, sizing, first /\ Prime)
                                 THEN t ELSE last[h]]
  BY <1>1 DEF Run
<1>3. f \in Family /\ g \in Family /\ f \in Slow /\ g \in Slow
  BY DEF Slow
<1>4. \A h \in {f, g} : h \in Marked(ran \ failed, due, sizing, first /\ Prime)
  BY <1>2, <1>3 DEF TypeOK
<1>5. CASE first /\ Prime
  <2>1. \A h \in {f, g} : h \in due \cup sizing
    BY <1>4, <1>5 DEF Marked
  <2> QED  BY <1>1, <1>5, <2>1
<1>6. CASE ~ (first /\ Prime)
  <2>1. \A h \in {f, g} : h \in (due \ held) \cup sizing
    BY <1>1, <1>4, <1>6 DEF Marked
  <2>2. CASE first
    BY <1>1, <2>1, <2>2
  <2>3. CASE ~first
    <3>1. f \in start /\ g \in start /\ start \in TakeTurns(slowDue)
      BY <1>1, <1>3, <2>1, <2>3
    <3>2. IsFiniteSet(slowDue) /\ Cardinality(slowDue) \in Nat /\ IsFiniteSet(start)
      BY <1>1, TurnsAssumption, FS_Subset, FS_CardinalityType DEF Slow
    <3>3. Cardinality(start) = IF Cardinality(slowDue) < Turns THEN Cardinality(slowDue) ELSE Turns
      BY <3>1 DEF TakeTurns
    <3>4. Cardinality(start) = 0 \/ Cardinality(start) = 1
      BY <3>2, <3>3
    <3>5. start = {} \/ \E x : start = {x}
      BY <3>2, <3>4, FS_EmptySet, FS_Singleton
    <3> QED  BY <3>1, <3>5
  <2> QED  BY <2>2, <2>3
<1> QED  BY <1>5, <1>6

\* With one turn a sweep, two slow families a service had marked in different
\* sweeps are marked in one again only by the first sweep after a start, and
\* there only if each was due in it or sizes a page: what the first sweep runs
\* before its time it does not mark, and later ones take turns.  A restart that
\* finds both due does bring them together.
THEOREM GroupsDoNotForm == Spec => StayApart
<1>1. Init => TypeOK /\ Clock /\ Later
  <2>1. Init => Later
    BY DEF Init, Later
  <2> QED  BY <2>1, InitType
<1>2. TypeOK /\ Clock /\ Later /\ [Next]_vars => (TypeOK /\ Clock /\ Later)'
  BY NextType, NextLater
<1>3. ASSUME TypeOK, Clock, Later, [Next]_vars
      PROVE  [\A f, g \in Slow :
                 /\ up /\ Turns = 1 /\ last[f] # last[g] /\ last'[f] = last'[g] /\ up'
                 => first /\ \A h \in {f, g} : Due(h, now) \/ h \in Totals]_vars
  <2> SUFFICES ASSUME NEW f \in Slow, NEW g \in Slow,
                      up, Turns = 1, last[f] # last[g], last'[f] = last'[g], up'
               PROVE  first /\ \A h \in {f, g} : Due(h, now) \/ h \in Totals
    OBVIOUS
  <2>0. f \in Family /\ g \in Family /\ f # g
    BY DEF Slow
  <2>1. CASE FirstSweep
    <3>1. Collect(now)
      BY <2>1 DEF FirstSweep, NotListed, memory
    <3>2. last[f] < now /\ last[g] < now /\ now \in Nat
      BY <1>3, <2>0, <2>1 DEF Later, FirstSweep, Clock
    <3> QED  BY <1>3, <2>0, <3>1, <3>2, MarkedTogether
  <2>2. CASE Sweep
    <3>1. Collect(now')
      BY <2>2 DEF Sweep, NotListed, memory
    <3>2. PICK late \in 0..MaxLate : now' = next + late
      BY <2>2 DEF Sweep
    <3>3. now' \in Nat /\ now' > now /\ ~first
      BY <1>3, <2>2, <3>2, TurnsAssumption DEF Later, Sweep, Clock
    <3>4. last[f] < now' /\ last[g] < now'
      BY <1>3, <2>0, <3>3 DEF TypeOK
    <3>5. first
      BY <1>3, <2>0, <3>1, <3>3, <3>4, MarkedTogether
    <3> QED  BY <3>3, <3>5
  <2>3. CASE Start \/ Stop \/ OtherRun
    BY <2>3 DEF Start, Stop, OtherRun
  <2>4. CASE UNCHANGED vars
    BY <2>4 DEF vars, memory
  <2> QED  BY <1>3, <2>1, <2>2, <2>3, <2>4 DEF Next
<1> QED  BY <1>1, <1>2, <1>3, PTL DEF Spec, StayApart

-----------------------------------------------------------------------------
(* On its tick.                                                            *)

\* A mark of a tick was made no later after it than a sweep reads its clock.
Phase ==
    /\ up /\ first => ticks = 0
    /\ up => \A f \in Family : at[f] # 0 =>
           /\ ~first /\ last[f] > 0
           /\ next - (ticks - at[f] + 1) * Tick <= last[f]
           /\ last[f] <= next - (ticks - at[f] + 1) * Tick + MaxLate

\* A whole number of ticks is no less than a larger number of them.
LEMMA MoreTicks ==
    ASSUME NEW a \in Int, NEW b \in Int, NEW t \in Nat, a <= b
    PROVE  a * t <= b * t /\ a * t \in Int /\ b * t \in Int
<1>1. (b - a) \in Nat /\ (b - a) * t \in Nat
  OBVIOUS
<1>2. b * t = a * t + (b - a) * t
  OBVIOUS
<1> QED  BY <1>1, <1>2

LEMMA OneMoreTick ==
    ASSUME NEW a \in Int, NEW t \in Nat
    PROVE  (a + 1) * t = a * t + t /\ a * t \in Int
OBVIOUS

\* Half a tick is more than the sweeps differ by, and leaves half a tick.
LEMMA DueOnTick ==
    ASSUME NEW k \in Int, NEW every \in Nat, NEW apart \in Int, every % Tick = 0,
           k * Tick - MaxLate <= apart, apart <= k * Tick + MaxLate
    PROVE  apart >= every - Slack <=> k * Tick >= every
<1> DEFINE q == every \div Tick
<1>0. Tick \in Nat \ {0} /\ Slack = Tick \div 2 /\ MaxLate \in Nat /\ 2 * MaxLate < Tick
  BY TickType, LateAssumption, TurnsAssumption DEF Slack
<1>1. Slack \in Nat /\ MaxLate <= Slack /\ MaxLate < Tick - Slack
  BY <1>0
<1>2. q \in Int /\ every = q * Tick
  <2> DEFINE T == Tick
  <2>1. T \in Nat \ {0} /\ every % T = 0
    BY <1>0
  <2> HIDE DEF T
  <2>2. every \div T \in Int /\ every = (every \div T) * T
    BY <2>1
  <2> QED  BY <2>2 DEF T
<1> HIDE DEF q
<1>3. k * Tick \in Int
  BY <1>0
<1>4. CASE k >= q
  <2>1. q * Tick <= k * Tick
    BY <1>0, <1>2, <1>4, MoreTicks
  <2> QED  BY <1>0, <1>1, <1>2, <1>3, <2>1
<1>5. CASE k < q
  <2>1. (k + 1) * Tick <= q * Tick /\ (k + 1) * Tick = k * Tick + Tick
    BY <1>0, <1>2, <1>5, MoreTicks, OneMoreTick
  <2> QED  BY <1>0, <1>1, <1>2, <1>3, <2>1
<1> QED  BY <1>2, <1>4, <1>5

\* What a sweep marks it marks at its time and on its tick.
LEMMA SweptMarks ==
    ASSUME TypeOK, Collect(now') \/ NotListed, NEW f \in Family
    PROVE  \/ last'[f] = now' /\ at'[f] = ticks'
           \/ last'[f] = last[f] /\ at'[f] = at[f]
<1>1. CASE NotListed
  BY <1>1 DEF NotListed, memory
<1>2. CASE Collect(now')
  <2>1. PICK sizing \in SUBSET Totals, ran \in SUBSET Family,
             held \in SUBSET {h \in Slow : Due(h, now')}, start \in SUBSET {h \in Slow : Due(h, now')} :
               Run(now', {h \in Family : Due(h, now')}, ran, held, start, sizing)
    BY <1>2, CollectRuns, Zenon
  <2>2. \E marks : /\ last' = [h \in Family |-> IF h \in marks THEN now' ELSE last[h]]
                   /\ at'   = [h \in Family |-> IF h \in marks THEN ticks' ELSE at[h]]
    BY <2>1 DEF Run
  <2> QED  BY <2>2
<1> QED  BY <1>1, <1>2

LEMMA NextPhase == TypeOK /\ Clock /\ Later /\ Phase /\ [Next]_vars => Phase'
<1> SUFFICES ASSUME TypeOK, Clock, Later, Phase, [Next]_vars PROVE Phase'
  OBVIOUS
<1>0. Tick \in Nat \ {0} /\ MaxLate \in Nat
  BY TickType, TurnsAssumption
<1>1. CASE FirstSweep
  <2>2. ASSUME NEW f \in Family PROVE at'[f] = 0
    <3>1. ticks' = ticks /\ now' = now /\ at[f] = 0 /\ ticks = 0
      BY <1>1 DEF FirstSweep, Phase
    <3>2. Collect(now') \/ NotListed
      BY <1>1, <3>1 DEF FirstSweep
    <3> QED  BY <3>1, <3>2, SweptMarks
  <2> QED  BY <1>1, <2>2 DEF Phase, FirstSweep
<1>2. CASE Sweep
  <2>1. PICK late \in 0..MaxLate : now' = next + late
    BY <1>2 DEF Sweep
  <2>2. /\ next' = next + Tick /\ ticks' = ticks + 1 /\ up /\ up' /\ ~first /\ ~first'
        /\ Collect(now') \/ NotListed
    BY <1>2 DEF Sweep
  <2>3. now' \in Nat /\ now' > 0 /\ next \in Nat /\ ticks \in Nat
    BY <2>1, <2>2, TurnsAssumption DEF Clock, Later, TypeOK
  <2>4. ASSUME NEW f \in Family, at'[f] # 0
        PROVE  /\ last'[f] > 0
               /\ next' - (ticks' - at'[f] + 1) * Tick <= last'[f]
               /\ last'[f] <= next' - (ticks' - at'[f] + 1) * Tick + MaxLate
    <3>1. CASE last'[f] = now' /\ at'[f] = ticks'
      <4>1. ticks' - at'[f] + 1 = 1
        BY <2>2, <2>3, <3>1
      <4>2. next' - (ticks' - at'[f] + 1) * Tick = next
        BY <1>0, <2>2, <2>3, <4>1
      <4> QED  BY <1>0, <2>1, <2>3, <3>1, <4>2
    <3>2. CASE last'[f] = last[f] /\ at'[f] = at[f]
      <4> DEFINE a == ticks - at[f] + 1
      <4>1. a \in Int /\ ticks' - at'[f] + 1 = a + 1 /\ last[f] \in Nat
        BY <2>2, <2>3, <3>2 DEF TypeOK
      <4>2. last[f] > 0 /\ next - a * Tick <= last[f] /\ last[f] <= next - a * Tick + MaxLate
        BY <2>2, <2>4, <3>2 DEF Phase
      <4> HIDE DEF a
      <4>3. (a + 1) * Tick = a * Tick + Tick /\ a * Tick \in Int
        BY <1>0, <4>1, OneMoreTick
      <4>4. next' - (ticks' - at'[f] + 1) * Tick = next - a * Tick
        BY <1>0, <2>2, <2>3, <4>1, <4>3
      <4> QED  BY <3>2, <4>2, <4>4
    <3> QED  BY <2>2, <3>1, <3>2, SweptMarks
  <2> QED  BY <2>2, <2>4 DEF Phase
<1>3. CASE Start
  BY <1>3 DEF Start, Phase
<1>4. CASE Stop \/ OtherRun
  BY <1>4 DEF Stop, OtherRun, Phase
<1>5. CASE UNCHANGED vars
  BY <1>5 DEF vars, memory, Phase
<1> QED  BY <1>1, <1>2, <1>3, <1>4, <1>5 DEF Next

\* A family whose cadence is a whole number of ticks runs on the tick it comes
\* to, however late after its tick each sweep reads the clock.
THEOREM DueOnItsTick == Spec => OnItsTick
<1>1. Init => TypeOK /\ Clock /\ Later /\ Phase
  <2>1. Init => Later /\ Phase
    BY DEF Init, Later, Phase
  <2> QED  BY <2>1, InitType
<1>2. TypeOK /\ Clock /\ Later /\ Phase /\ [Next]_vars => (TypeOK /\ Clock /\ Later /\ Phase)'
  BY NextType, NextLater, NextPhase
<1>3. ASSUME TypeOK, Clock, Later, Phase, [Next]_vars
      PROVE  [ticks' = ticks + 1 =>
                 \A f \in Family : at[f] # 0 /\ Every[f] % Tick = 0 =>
                     (Due(f, now') <=> (ticks' - at[f]) * Tick >= Every[f])]_vars
  <2> SUFFICES ASSUME ticks' = ticks + 1, NEW f \in Family, at[f] # 0, Every[f] % Tick = 0
               PROVE  Due(f, now') <=> (ticks' - at[f]) * Tick >= Every[f]
    OBVIOUS
  <2>0. ticks \in Nat /\ Tick \in Nat \ {0} /\ MaxLate \in Nat
    BY <1>3, TickType, TurnsAssumption DEF TypeOK
  <2>1. Sweep
    BY <1>3, <2>0 DEF Next, FirstSweep, Start, Stop, OtherRun, vars, memory
  <2>2. PICK late \in 0..MaxLate : now' = next + late
    BY <2>1 DEF Sweep
  <2> DEFINE k == ticks' - at[f]
  <2>3. k = ticks - at[f] + 1 /\ k \in Int /\ last[f] \in Nat /\ next \in Nat
    BY <1>3, <2>0 DEF TypeOK
  <2>4. last[f] > 0 /\ next - k * Tick <= last[f] /\ last[f] <= next - k * Tick + MaxLate
    BY <1>3, <2>1, <2>3 DEF Phase, Sweep
  <2> HIDE DEF k
  <2>5. k * Tick \in Int
    BY <2>0, <2>3
  <2>6. /\ now' - last[f] \in Int
        /\ k * Tick - MaxLate <= now' - last[f] /\ now' - last[f] <= k * Tick + MaxLate
    BY <2>0, <2>2, <2>3, <2>4, <2>5
  <2>7. Every[f] \in Nat
    BY TurnsAssumption
  <2>8. now' - last[f] >= Every[f] - Slack <=> k * Tick >= Every[f]
    BY <2>3, <2>6, <2>7, DueOnTick
  <2> QED  BY <2>3, <2>4, <2>8 DEF Due, k
<1> QED  BY <1>1, <1>2, <1>3, PTL DEF Spec, OnItsTick

\* The least slow cadence, and the whole ticks of it.
Shortest == Least({Every[f] : f \in Slow})

\* As many turns a sweep as n families take in i sweeps is n turns in i.
LEMMA EnoughTurns ==
    ASSUME NEW n \in Nat, NEW i \in Nat \ {0}
    PROVE  ((n + i - 1) \div i) \in Nat /\ ((n + i - 1) \div i) * i >= n
<1> DEFINE m == n + i - 1
           q == m \div i
<1>1. m \in Nat
  OBVIOUS
<1>2. q \in Nat /\ m < q * i + i /\ q * i \in Nat
  <2> HIDE DEF m
  <2> QED  BY <1>1
<1>3. q * i >= n
  <2> HIDE DEF q
  <2> QED  BY <1>2
<1> QED  BY <1>2, <1>3

\* Fewer turns than n families take end before the i sweeps do.
LEMMA EndsBefore ==
    ASSUME NEW w \in Nat, NEW i \in Nat, NEW k \in Nat, NEW n \in Nat, w * k < n, n <= k * i
    PROVE  w < i
<1> SUFFICES ASSUME i <= w PROVE FALSE
  OBVIOUS
<1>1. i * k <= w * k
  BY MoreTicks
<1>2. i * k = k * i /\ i * k \in Int /\ w * k \in Int
  OBVIOUS
<1> QED  BY <1>1, <1>2

\* However the families and the tick are configured, a wait is shorter than
\* the shortest of the slow cadences: turnsPerSweep starts enough of them in
\* each sweep (turns.go, the comment of turnsPerSweep).
THEOREM WaitUnderCadence == Spec => [](\A f \in Slow : waits[f] * Tick < Shortest)
<1>1. ASSUME TypeOK, WaitBounded, NEW f \in Slow PROVE waits[f] * Tick < Shortest
  <2> DEFINE n == Cardinality(Slow)
             i == Shortest \div Tick
             w == waits[f]
  <2>1. f \in Family /\ Slow # {} /\ IsFiniteSet(Slow) /\ w \in Nat
    BY <1>1, TurnsAssumption, FS_Subset DEF Slow, TypeOK
  <2>2. n \in Nat /\ Turns \in Nat /\ Tick \in Nat \ {0}
    BY <2>1, FS_CardinalityType, TurnsType, TickType
  <2>3. w * Turns <= n - 1
    BY <1>1 DEF WaitBounded
  <2>4. Shortest \in Nat \ {0}
    <3> DEFINE S == {Every[g] : g \in Slow}
    <3>1. S \in SUBSET (Nat \ {0}) /\ S # {} /\ S \in SUBSET Nat
      BY <2>1, TurnsAssumption DEF Slow
    <3>2. Shortest = Least(S)
      BY DEF Shortest
    <3> HIDE DEF S
    <3> QED  BY <3>1, <3>2, LeastIsLeast
  <2>5. Turns = IF i < 1 THEN n ELSE Most(1, (n + i - 1) \div i)
    BY DEF Turns, TurnsPerSweep, Shortest
  <2>6. i \in Nat /\ i * Tick <= Shortest
    <3> DEFINE s == Shortest
               t == Tick
    <3>1. s \in Nat /\ t \in Nat \ {0}
      BY <2>2, <2>4
    <3> HIDE DEF s, t
    <3>2. (s \div t) \in Nat /\ (s \div t) * t <= s
      BY <3>1
    <3> QED  BY <3>2 DEF s, t
  <2> HIDE DEF n, i, w
  <2>7. CASE i < 1
    <3>1. Turns = n
      BY <2>5, <2>7
    <3>2. w * n <= n - 1 /\ w * n \in Int
      BY <2>1, <2>2, <2>3, <3>1
    <3>3. w * n < n /\ n <= n * 1
      BY <2>2, <3>2
    <3>4. w < 1
      BY <2>1, <2>2, <3>3, EndsBefore
    <3>5. w = 0 /\ 0 * Tick = 0
      BY <2>1, <2>2, <3>4
    <3> QED  BY <2>4, <3>5 DEF w
  <2>8. CASE ~ (i < 1)
    <3>1. i \in Nat \ {0}
      BY <2>6, <2>8
    <3>2. ((n + i - 1) \div i) \in Nat /\ ((n + i - 1) \div i) * i >= n
      BY <2>2, <3>1, EnoughTurns
    <3> DEFINE q == (n + i - 1) \div i
    <3>3. q \in Nat /\ q * i >= n /\ Turns = Most(1, q)
      BY <2>5, <2>8, <3>2
    <3> HIDE DEF q
    <3>4. q <= Turns
      BY <2>2, <3>3 DEF Most
    <3>5. q * i <= Turns * i /\ Turns * i \in Int /\ q * i \in Int
      BY <2>2, <3>1, <3>3, <3>4, MoreTicks
    <3>6. n <= Turns * i /\ w * Turns < n
      <4>1. w * Turns \in Int
        BY <2>1, <2>2
      <4> QED  BY <2>2, <2>3, <3>3, <3>5, <4>1
    <3>7. w < i
      BY <2>1, <2>2, <2>6, <3>6, EndsBefore
    <3>8. (w + 1) * Tick <= i * Tick /\ (w + 1) * Tick = w * Tick + Tick /\ w * Tick \in Int /\ i * Tick \in Int
      BY <2>1, <2>2, <2>6, <3>7, MoreTicks, OneMoreTick
    <3> QED  BY <2>2, <2>4, <2>6, <3>8 DEF w
  <2> QED  BY <2>7, <2>8
<1>2. TypeOK /\ WaitBounded => \A f \in Slow : waits[f] * Tick < Shortest
  BY <1>1
<1> QED  BY <1>2, TypeCorrect, WaitIsBounded, PTL

=============================================================================
