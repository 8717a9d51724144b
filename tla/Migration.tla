----------------------------- MODULE Migration ------------------------------
(***************************************************************************)
(* Bringing the stores along after an upgrade: internal/migrate/apply.go   *)
(* and refill.go, run by a start (a service or a one-shot run) and by      *)
(* -migrate -yes (cmd/ghchronicle/migrate.go), on one state file that a    *)
(* lock (internal/run/lock.go) and a merge (StoreRecords) guard.           *)
(*                                                                         *)
(* The history of migration m's measurement in the store at a PLACE, a     *)
(* sink and where it points, is kept per repository as how far back its    *)
(* rows go, Today when there are none of them; GitHub serves all of it.  A *)
(* refill reads it back repository by repository and keeps a checkpoint of *)
(* its own (the walk itself is module Backfill).  Rows of other accounts,  *)
(* measurements whose history cannot be read again and stores that do not  *)
(* answer wait for another start and are left out; so are the write ledger *)
(* and its salts (module Ledger).                                          *)
(***************************************************************************)
EXTENDS StoreRecords, FiniteSets, TLC

CONSTANTS
    Service,     \* the processes that serve, each holding the lock for life
    Migrate,     \* the runs of -migrate -yes
    OneShot,     \* the runs of -once and -backfill
    Store,       \* the sinks of the configuration
    Asked,       \* those that can be asked which shape they hold
    Purgers,     \* those whose copies ghchronicle purges, not the store itself
    Secret,      \* those whose destination is a credential: Postgres, by its DSN
    Repo,        \* the repositories the history is of
    Oldest,      \* the day of the oldest row the account has, per migration
    Nobody,      \* the lock is free
    MaxStarts,   \* bound: processes started
    MaxMishaps,  \* bound: stops, saves and requests that failed
    MaxMoves     \* bound: times the configuration points a sink elsewhere

Process == Service \cup Migrate \cup OneShot
Starts  == Service \cup OneShot           \* runs that bring along only what is safe
Place   == Store \X Dest
Unit    == Migration \X Repo
Item    == [store : Store, mig : Migration, since : Day]
\* Scope, narrowed: the bound, what is written to which sink, and the settings
\* of those sinks that are no credential.
Walk    == [since : Day, keep : [Store -> SUBSET Migration], to : [Store -> Dest \cup {None}]]
\* The checkpoint of a walk; at is bookkeeping, where its runs have written.
Ck      == [walk : Walk, done : SUBSET Unit, at : [Store -> SUBSET Dest]]

ASSUME ProcessAssumption ==
    /\ Service \cap Migrate = {} /\ Service \cap OneShot = {} /\ Migrate \cap OneShot = {}
    /\ Nobody \notin Process /\ Asked \subseteq Store /\ Secret \subseteq Store
    /\ Purgers \subseteq Asked /\ IsFiniteSet(Migration)
    /\ Oldest \in [Migration -> 1..(Today - 1)]
    /\ MaxStarts \in Nat /\ MaxMishaps \in Nat /\ MaxMoves \in Nat
    /\ None \notin Former /\ None \notin Record /\ None \notin Ck /\ None \notin Dest /\ Repo # {}

VARIABLES
    \* What outlives every process.
    disk,     \* the stores part of the state file
    back,     \* how far back each place holds a unit
    old,      \* the migrations whose old shape a place still holds
    copies,   \* the copies ever set aside in a place
    letGo,    \* those let go of: purged, or due and the store's own to keep
    ck,       \* the checkpoint of the refill
    points,   \* where the configuration points each sink
    lock,     \* who holds the state file
    \* Each process.
    pc,       \* where main is
    st,       \* State.Stores in memory
    loaded,   \* State.loaded: the stores as last read from or saved to disk
    chosen,   \* the items still to apply
    item,     \* the item being applied
    ours,     \* rec, taken before a save, is still the record State.Stores holds
    before,   \* owedBefore
    answer,   \* what the store answered, and the copy it named
    \* Bookkeeping of the model.
    paid,     \* the items each process read back to the end
    ended,    \* the debts that ended since their store was last cleared
    gaps,     \* clears whose refill the code is known to lose, see MissingIsOwed
    starts, mishaps, moves

stores  == <<back, old, copies, letGo>>
lasting == <<disk, stores, ck, points>>
inside  == <<st, loaded, chosen, item, ours, before, answer>>
bounds  == <<starts, mishaps, moves>>
marks   == <<paid, ended, gaps>>
vars    == <<lasting, lock, pc, inside, marks, bounds>>

Answers == [said : {"done", "untouched", "unknown"}, copy : Copy \cup {None}]
NoAnswer == [said |-> "unknown", copy |-> None]
NoRecords == [s \in Store |-> None]

Mishap == mishaps < MaxMishaps /\ mishaps' = mishaps + 1
Fine   == UNCHANGED mishaps

-----------------------------------------------------------------------------
(* The state file.                                                         *)

Merged(p, mine) == [s \in Store |-> MergeRecord(loaded[p][s], mine[s], disk[s])]

\* Save, for p's stores as they are in mine.  A save that fails has taken
\* what the others recorded all the same.
Saved(p, mine) == LET merged == Merged(p, mine)
                  IN  /\ st'     = [st EXCEPT ![p] = merged]
                      /\ loaded' = [loaded EXCEPT ![p] = merged]
                      /\ disk'   = merged
NotSaved(p, mine) == /\ st' = [st EXCEPT ![p] = Merged(p, mine)]
                     /\ UNCHANGED <<loaded, disk>>
Save(p, mine) == \/ Saved(p, mine) /\ Fine
                 \/ NotSaved(p, mine) /\ Mishap

\* The save replaced no record: rec still points into State.Stores.
KeptByMerge(p, s, mine) == disk[s] \in {loaded[p][s], None} /\ mine[s] # loaded[p][s]

-----------------------------------------------------------------------------
(* What a run finds to do.                                                 *)

\* The old shape is there, or nothing says it is not.  A start takes the
\* record's word for what it settles.
Pending(p, mine, s, m) ==
    LET own == mine[s].own IN
    /\ p \in Starts => m \notin own.applied \cup own.notNeeded
    /\ IF s \in Asked THEN m \in old[<<s, points[s]>>] ELSE m \notin own.applied

\* The day of the oldest row, of a store that can say; else no bound.
Since(s, m) == IF s \notin Asked THEN 0
               ELSE CHOOSE d \in {back[<<s, points[s]>>][<<m, r>>] : r \in Repo} :
                        \A r \in Repo : d <= back[<<s, points[s]>>][<<m, r>>]

\* What a start applies on its own: it sets rows aside, and destroys none.
Chosen(p, mine) ==
    {i \in Item : /\ Pending(p, mine, i.store, i.mig) /\ i.since = Since(i.store, i.mig)
                  /\ p \in Starts => i.store \in Asked}

\* What a start asked and found in the new shape.
Settled(p, mine, s) == {m \in Migration : /\ p \in Starts /\ s \in Asked
                                          /\ m \notin mine[s].own.applied
                                          /\ m \notin old[<<s, points[s]>>]}

\* OwedIn, and the one walk that pays all of it.
OwedMigs(mine, s) == IF mine[s] # None /\ mine[s].dest = points[s]
                     THEN MigsOf(mine[s].own.refill) ELSE {}
Owed(mine) == \E s \in Store : OwedMigs(mine, s) # {}
WalkOf(mine) ==
    LET sinces == {mine[s].own.refill.since : s \in {x \in Store : OwedMigs(mine, x) # {}}}
    IN  [since |-> CHOOSE d \in sinces : \A e \in sinces : d <= e,
         keep  |-> [s \in Store |-> OwedMigs(mine, s)],
         to    |-> [s \in Store |-> IF OwedMigs(mine, s) = {} \/ s \in Secret THEN None ELSE points[s]]]
UnitsOf(w) == {u \in Unit : \E s \in Store : u[1] \in w.keep[s]}

-----------------------------------------------------------------------------
(* A run from its start to its end.                                        *)

\* LoadState and Stamp, the plan, and what is to apply of it.
Opened(p) ==
    LET stamped == [s \in Store |-> Stamp(disk[s], points[s])]
        mine    == [s \in Store |-> [stamped[s] EXCEPT !.own.notNeeded = @ \cup Settled(p, stamped, s)]]
    IN  /\ st'     = [st EXCEPT ![p] = mine]
        /\ loaded' = [loaded EXCEPT ![p] = disk]
        /\ chosen' = [chosen EXCEPT ![p] = Chosen(p, stamped)]
        /\ pc'     = [pc EXCEPT ![p] = IF Chosen(p, stamped) = {} /\ ~Owed(mine) THEN "sweep"
                                       ELSE IF p \in OneShot THEN "take" ELSE "apply"]

Started == starts < MaxStarts /\ starts' = starts + 1

\* A service waits for the lock, -migrate -yes refuses to run without it.
StartHolding(p) ==
    /\ p \in Service \cup Migrate /\ pc[p] = "off" /\ lock = Nobody /\ Started
    /\ lock' = p /\ Opened(p)
    /\ UNCHANGED <<lasting, item, ours, before, answer, marks, mishaps, moves>>

\* A one-shot run reads the state and makes its plan before it takes the lock.
StartOneShot(p) ==
    /\ p \in OneShot /\ pc[p] = "off" /\ Started /\ Opened(p)
    /\ UNCHANGED <<lasting, lock, item, ours, before, answer, marks, mishaps, moves>>

TakeLock(p) ==
    /\ pc[p] = "take"
    /\ IF lock = Nobody THEN lock' = p /\ pc' = [pc EXCEPT ![p] = "apply"]
                        ELSE pc' = [pc EXCEPT ![p] = "sweep"] /\ UNCHANGED lock
    /\ UNCHANGED <<lasting, inside, marks, bounds>>

\* What p owes it had read as owed, and another process has ended that since.
OwedOnlyBefore(p, s, mine) ==
    /\ mine[s].own.refill = OwedAt(loaded[p][s], points[s])
    /\ OwedAt(disk[s], points[s]) # OwedAt(loaded[p][s], points[s])

\* Another run has this debt ended in memory, and has not saved that.
EndedUnsaved(p, s, m) ==
    \E q \in Process \ {p} : m \in MigsOf(OwedAt(loaded[q][s], points[s]))
                                  \ MigsOf(OwedAt(st[q][s], points[s]))

\* The refill is recorded as owed, and saved, before the store is touched.
Owe(p) ==
    /\ pc[p] = "apply"
    /\ \E i \in chosen[p] :
        LET s    == i.store
            mine == [st[p] EXCEPT ![s].own = OweRefill(@, i.mig, i.since)]
            kept == KeptByMerge(p, s, mine)
        IN  /\ chosen' = [chosen EXCEPT ![p] = @ \ {i}]
            /\ item'   = [item EXCEPT ![p] = i]
            /\ before' = [before EXCEPT ![p] = st[p][s].own.refill]
            /\ ours'   = [ours EXCEPT ![p] = kept]
            /\ gaps' = IF OwedOnlyBefore(p, s, mine) \/ EndedUnsaved(p, s, i.mig) THEN gaps \cup {<<<<s, points[s]>>, i.mig>>} ELSE gaps
            /\ \/ Saved(p, mine) /\ Fine /\ pc' = [pc EXCEPT ![p] = "touch"]
               \/ /\ st' = [st EXCEPT ![p] = IF kept THEN [Merged(p, mine) EXCEPT ![s] = st[p][s]]
                                                     ELSE Merged(p, mine)]
                  /\ UNCHANGED <<loaded, disk, pc>> /\ Mishap
    /\ UNCHANGED <<stores, ck, points, lock, answer, paid, ended, starts, moves>>

Here(p)    == <<item[p].store, points[item[p].store]>>
NewCopy(p) == <<item[p].mig, 1 + Cardinality({c \in copies[Here(p)] : c[1] = item[p].mig})>>

\* A clear while the checkpoint says rows of it are written back already.
ClearedAgain(p) ==
    /\ ck # None /\ item[p].mig \in ck.walk.keep[item[p].store]
    /\ points[item[p].store] \in ck.at[item[p].store]
    /\ \E u \in ck.done : u[1] = item[p].mig

Answered(p, said, copy) ==
    /\ answer' = [answer EXCEPT ![p] = [said |-> said, copy |-> copy]]
    /\ pc' = [pc EXCEPT ![p] = "settle"]
    /\ UNCHANGED <<disk, letGo, ck, points, lock, st, loaded, chosen, item, ours, before,
                   paid, starts, moves>>

SetAside(p) == copies' = IF item[p].store \in Asked
                         THEN [copies EXCEPT ![Here(p)] = @ \cup {NewCopy(p)}] ELSE copies

\* The store is cleared, its rows set aside where it keeps any; the answer
\* that says so may not arrive.
Clear(p) ==
    /\ pc[p] = "touch" /\ NewCopy(p)[2] <= MaxClears
    /\ back' = [back EXCEPT ![Here(p)] = [u \in Unit |-> IF u[1] = item[p].mig THEN Today ELSE @[u]]]
    /\ old'  = [old EXCEPT ![Here(p)] = @ \ {item[p].mig}]
    /\ SetAside(p)
    /\ gaps' = IF ClearedAgain(p) THEN gaps \cup {<<Here(p), item[p].mig>>} ELSE gaps
    /\ ended' = ended \ {<<Here(p), item[p].mig>>}
    /\ \/ Answered(p, "done", IF item[p].store \in Asked THEN NewCopy(p) ELSE None) /\ Fine
       \/ Answered(p, "unknown", None) /\ Mishap

\* The copy is made and the clear of the rows behind it fails.
OnlyCopy(p) ==
    /\ pc[p] = "touch" /\ NewCopy(p)[2] <= MaxClears /\ item[p].store \in Asked
    /\ SetAside(p) /\ Mishap
    /\ \E said \in {"untouched", "unknown"} : Answered(p, said, NewCopy(p))
    /\ UNCHANGED <<back, old, ended, gaps>>

\* Nothing happened, and the store says so or its answer is lost.
NotCleared(p) ==
    /\ pc[p] = "touch" /\ Mishap
    /\ \E said \in {"untouched", "unknown"} : Answered(p, said, None)
    /\ UNCHANGED <<back, old, copies, ended, gaps>>

\* A fault to find: a failed clear takes the debt back whatever it may have done.
SettledOwnMutant(p) ==
    LET own  == st[p][item[p].store].own
        kept == IF answer[p].copy = None THEN own ELSE KeepAside(own, answer[p].copy)
    IN  IF answer[p].said = "done" THEN MarkApplied(kept, item[p].mig)
        ELSE [kept EXCEPT !.refill = before[p]]

\* A fault to find: a copy is recorded though none was made.
SettledOwnKeepsAny(p) ==
    LET kept == KeepAside(st[p][item[p].store].own, answer[p].copy)
    IN  IF answer[p].said = "done" THEN MarkApplied(kept, item[p].mig) ELSE kept

\* MarkApplied and KeepAside, or settleFailure.
SettledOwn(p) ==
    LET own  == st[p][item[p].store].own
        kept == IF answer[p].copy = None THEN own ELSE KeepAside(own, answer[p].copy)
    IN  CASE answer[p].said = "done"      -> MarkApplied(kept, item[p].mig)
          [] answer[p].said = "untouched" -> [kept EXCEPT !.refill = before[p]]
          [] OTHER                        -> kept

\* What the store answered is recorded in rec, which a save between may have
\* replaced in State.Stores, and saved.
Settle(p) ==
    /\ pc[p] = "settle"
    /\ Save(p, IF ours[p] THEN [st[p] EXCEPT ![item[p].store].own = SettledOwn(p)] ELSE st[p])
    /\ pc' = [pc EXCEPT ![p] = "apply"]
    /\ ended' = IF ours[p] /\ answer[p].said = "untouched" /\ item[p].mig \notin MigsOf(before[p])
                THEN ended \cup {<<Here(p), item[p].mig>>} ELSE ended
    /\ UNCHANGED <<stores, ck, points, lock, chosen, item, ours, before, answer, paid, gaps,
                   starts, moves>>

\* Where a run goes on: a one-shot run leaves the lock.
ToSweep(p) == /\ pc' = [pc EXCEPT ![p] = "sweep"]
              /\ lock' = IF p \in OneShot THEN Nobody ELSE lock

NothingOwed(p) ==
    /\ pc[p] = "apply" /\ chosen[p] = {} /\ ~Owed(st[p]) /\ ToSweep(p)
    /\ UNCHANGED <<lasting, inside, marks, bounds>>

\* openRefill: another refill's checkpoint is removed, this one's resumed, one
\* that was written while a credential named another place among them.
OpenRefill(p) ==
    /\ pc[p] = "apply" /\ chosen[p] = {} /\ Owed(st[p])
    /\ pc' = [pc EXCEPT ![p] = "walk"]
    /\ LET w    == WalkOf(st[p])
           kept == IF ck # None /\ ck.walk = w THEN ck
                   ELSE [walk |-> w, done |-> {}, at |-> [s \in Store |-> {}]]
       IN  /\ ck' = [kept EXCEPT !.at = [s \in Store |-> @[s] \cup {points[s]}]]
           /\ gaps' = gaps \cup {g \in Place \X Migration :
                          LET s == g[1][1]
                          IN  g[1][2] = points[s] /\ g[2] \in w.keep[s] /\ ck'.at[s] # {points[s]}}
    /\ UNCHANGED <<disk, stores, points, lock, inside, paid, ended, bounds>>

\* How far back a unit reaches once its rows since the bound are written.
Written(u, was) == LET reached == IF ck.walk.since <= Oldest[u[1]] THEN Oldest[u[1]] ELSE ck.walk.since
                   IN  IF was <= reached THEN was ELSE reached

\* One repository read again, and in every store it is owed to.
WalkUnit(p) ==
    /\ pc[p] = "walk"
    /\ \E u \in UnitsOf(ck.walk) \ ck.done :
        /\ back' = [at \in Place |->
                       IF at[2] = points[at[1]] /\ u[1] \in ck.walk.keep[at[1]]
                       THEN [back[at] EXCEPT ![u] = Written(u, @)] ELSE back[at]]
        /\ ck' = [ck EXCEPT !.done = @ \cup {u}]
    /\ UNCHANGED <<disk, old, copies, letGo, points, lock, pc, inside, marks, bounds>>

\* The walk is cut short, or a repository or a store failed: what is written
\* stays written, and the refill stays owed.
WalkStops(p) ==
    /\ pc[p] = "walk" /\ Mishap /\ ToSweep(p)
    /\ UNCHANGED <<lasting, inside, marks, starts, moves>>

\* The end of every family: the checkpoint goes, then the debt.
WalkEnds(p) ==
    /\ pc[p] = "walk" /\ ck.done = UnitsOf(ck.walk)
    /\ ck' = None /\ pc' = [pc EXCEPT ![p] = "paid"]
    /\ paid' = [paid EXCEPT ![p] = {i \in Store \X Migration : i[2] \in ck.walk.keep[i[1]]}]
    /\ ended' = ended \cup {<<<<i[1], points[i[1]]>>, i[2]>> : i \in paid'[p]}
    /\ UNCHANGED <<disk, stores, points, lock, inside, gaps, bounds>>

Paid(p) ==
    /\ pc[p] = "paid" /\ ToSweep(p)
    /\ Save(p, [s \in Store |-> IF \E m \in Migration : <<s, m>> \in paid[p]
                                THEN [st[p][s] EXCEPT !.own.refill = None] ELSE st[p][s]])
    /\ UNCHANGED <<stores, ck, points, chosen, item, ours, before, answer, marks, starts, moves>>

\* A copy that has fallen due is let go of.  One of a store in Purgers, kept its
\* day, is purged and then forgotten; -migrate -yes asks those stores for copies
\* the record does not name as well.  One a store purges itself, or keeps for
\* good, is forgotten when the store's own time for it is up, and stays there or
\* not.
Purge(p) ==
    /\ pc[p] = "sweep" /\ p \in Service \cup Migrate
    /\ \E s \in Store : LET at == <<s, points[s]>> IN
        \E c \in st[p][s].own.aside
                 \cup (IF p \in Migrate /\ s \in Purgers THEN copies[at] \ letGo[at] ELSE {}) :
            /\ letGo' = [letGo EXCEPT ![at] = @ \cup {c}]
            /\ Save(p, [st[p] EXCEPT ![s].own = DropAside(@, c)])
    /\ UNCHANGED <<back, old, copies, ck, points, lock, pc, chosen, item, ours, before, answer,
                   marks, starts, moves>>

\* A sweep, a walk or the command ends and the state is saved.
Finish(p) ==
    /\ pc[p] = "sweep" /\ p \in Service
    /\ Save(p, st[p])
    /\ UNCHANGED <<stores, ck, points, lock, pc, chosen, item, ours, before, answer, marks,
                   starts, moves>>

\* The process is gone, and with it its memory and its lock.
Gone(p) == /\ pc' = [pc EXCEPT ![p] = "off"]
           /\ lock' = IF lock = p THEN Nobody ELSE lock
           /\ loaded' = [loaded EXCEPT ![p] = NoRecords]
           /\ chosen' = [chosen EXCEPT ![p] = {}]
           /\ ours'   = [ours EXCEPT ![p] = FALSE]
           /\ before' = [before EXCEPT ![p] = None]
           /\ answer' = [answer EXCEPT ![p] = NoAnswer]
           /\ paid'   = [paid EXCEPT ![p] = {}]
           /\ item'   = [item EXCEPT ![p] = None]
           /\ UNCHANGED <<stores, ck, points, ended, gaps, starts, moves>>
Forgotten(p) == st' = [st EXCEPT ![p] = NoRecords]

End(p) ==
    /\ pc[p] = "sweep" /\ p \in Migrate \cup OneShot /\ Gone(p) /\ Forgotten(p)
    /\ \/ disk' = Merged(p, st[p]) /\ Fine
       \/ UNCHANGED disk /\ Mishap

Stop(p) == /\ pc[p] = "sweep" /\ p \in Service /\ Gone(p) /\ Forgotten(p) /\ Fine /\ UNCHANGED disk

\* Killed, anywhere.
Crash(p) == /\ pc[p] # "off" /\ Gone(p) /\ Forgotten(p) /\ Mishap /\ UNCHANGED disk

\* The configuration points a sink elsewhere, between two runs.
Move ==
    /\ \A p \in Process : pc[p] = "off"
    /\ moves < MaxMoves /\ moves' = moves + 1
    /\ \E s \in Store, d \in Dest : points' = [points EXCEPT ![s] = d]
    /\ UNCHANGED <<disk, stores, ck, lock, pc, inside, marks, starts, mishaps>>

-----------------------------------------------------------------------------

\* A state file from before the records, and stores an earlier release wrote.
Init ==
    /\ disk = NoRecords
    /\ back = [at \in Place |-> [u \in Unit |-> Oldest[u[1]]]]
    /\ old = [at \in Place |-> Migration]
    /\ copies = [at \in Place |-> {}] /\ letGo = [at \in Place |-> {}]
    /\ ck = None
    /\ points \in {[s \in Store |-> d] : d \in Dest}
    /\ lock = Nobody
    /\ pc = [p \in Process |-> "off"]
    /\ st = [p \in Process |-> NoRecords] /\ loaded = [p \in Process |-> NoRecords]
    /\ chosen = [p \in Process |-> {}]
    /\ item = [p \in Process |-> None]
    /\ ours = [p \in Process |-> FALSE] /\ before = [p \in Process |-> None]
    /\ answer = [p \in Process |-> NoAnswer]
    /\ paid = [p \in Process |-> {}] /\ ended = {} /\ gaps = {}
    /\ starts = 0 /\ mishaps = 0 /\ moves = 0

Run(p) == \/ StartHolding(p) \/ StartOneShot(p) \/ TakeLock(p)
          \/ Owe(p) \/ Clear(p) \/ OnlyCopy(p) \/ NotCleared(p) \/ Settle(p)
          \/ NothingOwed(p) \/ OpenRefill(p) \/ WalkUnit(p) \/ WalkStops(p) \/ WalkEnds(p) \/ Paid(p)
          \/ Purge(p) \/ Finish(p) \/ End(p) \/ Stop(p) \/ Crash(p)

Next == Move \/ \E p \in Process : Run(p)

Spec == Init /\ [][Next]_vars

-----------------------------------------------------------------------------

\* The shape of every variable.
TypeOK ==
    /\ disk \in [Store -> MaybeRecord]
    /\ back \in [Place -> [Unit -> 1..Today]] /\ old \in [Place -> SUBSET Migration]
    /\ copies \in [Place -> SUBSET Copy] /\ letGo \in [Place -> SUBSET Copy]
    /\ ck \in Ck \cup {None} /\ points \in [Store -> Dest] /\ lock \in Process \cup {Nobody}
    /\ pc \in [Process -> {"off", "take", "apply", "touch", "settle", "walk", "paid", "sweep"}]
    /\ st \in [Process -> [Store -> MaybeRecord]] /\ loaded \in [Process -> [Store -> MaybeRecord]]
    /\ chosen \in [Process -> SUBSET Item] /\ item \in [Process -> Item \cup {None}]
    /\ ours \in [Process -> BOOLEAN] /\ before \in [Process -> MaybeRefill]
    /\ answer \in [Process -> Answers]
    /\ paid \in [Process -> SUBSET (Store \X Migration)]
    /\ ended \subseteq Place \X Migration /\ gaps \subseteq Place \X Migration
    /\ starts \in 0..MaxStarts /\ mishaps \in 0..MaxMishaps /\ moves \in 0..MaxMoves

Missing(at, m) == \E r \in Repo : back[at][<<m, r>>] > Oldest[m]

\* History a store lost to a clear is owed on disk as far back as it went,
\* wherever a run stopped, whatever its store answered and whoever else saved
\* the state file (apply.go: owed first, forgotten only when the walk ended).
\* Left out are four whose refill the code loses: of a store cleared once more
\* under a checkpoint that claims rows of the first refill, which openRefill
\* resumes over them; of one whose destination is a credential, which the scope
\* of the checkpoint does not name, when the checkpoint is of another place; of
\* a store a one-shot run read as owed before it held the lock, which the merge
\* then takes for paid; and of a store whose earlier debt another run ended and
\* could not save, which its last save ends.
MissingIsOwed ==
    \A s \in Store, d \in Dest, m \in Migration :
        Missing(<<s, d>>, m) /\ <<<<s, d>>, m>> \notin gaps =>
            LET owed == OwedAt(disk[s], d)
            IN  m \in MigsOf(owed) /\ owed.since <= Oldest[m]

\* A debt leaves the state file only if, since its store was last cleared, a
\* run has read it back to the end, or has taken back the debt it had recorded
\* of a store that says it was left as it was: no save of another process,
\* however old what it had read, forgets one (merge.go).
DebtOnlyPaid ==
    [][\A s \in Store, d \in Dest :
           MigsOf(OwedAt(disk[s], d)) \ MigsOf(OwedAt(disk'[s], d))
               \subseteq {m \in Migration : <<<<s, d>>, m>> \in ended' \cup gaps}]_vars

\* A copy the state file names is named there until it has fallen due and was
\* let go of: where this program purges it, until it was purged; where the
\* store purges it or keeps it for good, until the store's time for it was up.
\* No merge of two processes' records, no change of destination and no failed
\* save forgets one before (stores.go, SetAside; merge.go, mergeAsides).
NamedUntilLetGo ==
    [][\A s \in Store, d \in Dest :
           NamedAt(disk[s], d) \ NamedAt(disk'[s], d) \subseteq letGo'[<<s, d>>]]_vars

=============================================================================
