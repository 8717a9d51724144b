------------------------------- MODULE Ledger -------------------------------
(***************************************************************************)
(* The write ledger of ghchronicle, internal/sink/unchanged.go: in front   *)
(* of every store stands a filter that remembers the last value written    *)
(* for every row, and passes on only the rows whose value is another one.  *)
(* The memory is one map, shared by all the stores, and a file it is saved *)
(* to now and then.                                                        *)
(*                                                                         *)
(* A row is what a store keys by: here a member of Row, with the value     *)
(* GitHub gives it at the moment. Hashes are the things they are hashes    *)
(* of.                                                                     *)
(***************************************************************************)
EXTENDS Naturals, FiniteSets

CONSTANTS
    Sink,        \* the stores that have a ledger in front of them
    Row,         \* the rows the collectors offer
    Value,       \* what a row may say
    Horizon,     \* days an entry nothing offers is kept
    MaxEntries,  \* entries the ledger is trimmed to
    LastDay,     \* bound: the day the calendar stops at
    MaxTables,   \* bound: the times a migration sets a table aside
    MaxMishaps,  \* bound: writes a store refuses, whole or in part
    MaxLosses,   \* bound: crashes and saves that fail
    None         \* no row, no entry, no answer

Salt  == 0..MaxTables
Key   == Sink \X Row \X Salt
Entry == [value : Value, day : 0..LastDay]
Seen  == [Key -> Entry \cup {None}]

ASSUME LedgerAssumption ==
    /\ Horizon \in Nat /\ MaxEntries \in Nat \ {0}
    /\ LastDay \in Nat /\ MaxTables \in Nat
    /\ MaxMishaps \in Nat /\ MaxLosses \in Nat
    /\ IsFiniteSet(Sink) /\ IsFiniteSet(Row)
    /\ None \notin Value /\ None \notin Entry

VARIABLES
    source,     \* what GitHub says of each row
    store,      \* what each store holds of each row
    seen,       \* the ledger in memory
    file,       \* the ledger on disk
    salts,      \* what the state file's record salts each store's rows with
    dirty,      \* seen was changed since it was last saved
    up,         \* the process runs
    today,
    rejected,   \* rows a store refused for what they say
    uncertain,  \* rows a store holds another value of than its ledger may say
    mishaps,
    losses

vars == <<source, store, seen, file, salts, dirty, up, today, rejected,
          uncertain, mishaps, losses>>

-----------------------------------------------------------------------------
(* The map.                                                                *)

Nothing == [k \in Key |-> None]

\* A fault to find: one answer for all the stores.
IdentityMutant(s, i) == <<CHOOSE t \in Sink : TRUE, i, salts[s]>>

\* digest: the identity of a row in a store, under the salt of its table.
Identity(s, i) == <<s, i, salts[s]>>

\* A fault to find: a row the ledger knows is never written again.
KeepMutant(s, offered) == {i \in offered : seen[Identity(s, i)] = None}

\* Reserve: the offered rows that carry something new.
Keep(s, offered) ==
    {i \in offered : LET e == seen[Identity(s, i)]
                     IN  e = None \/ e.value # source[i]}

\* The commit Reserve returns: every offered row is remembered with the value
\* it was offered with, and as offered today.
Committed(s, offered) ==
    [k \in Key |-> IF \E i \in offered : k = Identity(s, i)
                   THEN [value |-> source[k[2]], day |-> today] ELSE seen[k]]

Remembered(m) == {k \in Key : m[k] # None}

\* A fault to find: the day of the cut itself is dropped too.
DroppingMutant(m, d) == [k \in Key |-> IF m[k] # None /\ m[k].day <= d THEN None ELSE m[k]]

\* The entries nothing has offered since the day d.
Dropping(m, d) == [k \in Key |-> IF m[k] # None /\ m[k].day < d THEN None ELSE m[k]]

\* The cut of trimLocked: the day of the MaxEntries-th latest entry.
Since(m, d) == {k \in Remembered(m) : m[k].day >= d}
Cut(m) == CHOOSE d \in 0..LastDay :
    /\ Cardinality(Since(m, d)) >= MaxEntries
    /\ \A e \in (d + 1)..LastDay : Cardinality(Since(m, e)) < MaxEntries

\* What Save leaves of the map: no entry past the horizon, and, past the size,
\* none older than the cut.
Pruned(m) ==
    LET young == Dropping(m, IF today > Horizon THEN today - Horizon ELSE 0)
    IN  IF Cardinality(Remembered(young)) > MaxEntries
        THEN Dropping(young, Cut(young)) ELSE young

-----------------------------------------------------------------------------
(* The file.                                                               *)

Mishap == mishaps < MaxMishaps /\ mishaps' = mishaps + 1 /\ UNCHANGED losses
Loss(lost) == /\ lost => losses < MaxLosses
              /\ losses' = IF lost THEN losses + 1 ELSE losses
              /\ UNCHANGED mishaps

\* Save of the map m, which it also becomes; how it may go: well, not at all
\* because five minutes have not passed, or with an error nobody looks at. The
\* map counts as saved before the file is written.
Saves == {"saved", "not_due", "failed"}
MaybeSave(m, changed, how) ==
    IF changed /\ how # "not_due"
    THEN /\ seen' = Pruned(m) /\ dirty' = FALSE
         /\ file' = IF how = "saved" THEN Pruned(m) ELSE file
    ELSE how = "not_due" /\ seen' = m /\ dirty' = changed /\ UNCHANGED file

-----------------------------------------------------------------------------
(* Unchanged.Write.                                                        *)

Put(s, rows) == [store EXCEPT ![s] = [i \in Row |-> IF i \in rows THEN source[i] ELSE @[i]]]
Of(s, rows) == {<<s, i>> : i \in rows}

\* The store took the rows, or none was new: all of them are remembered.
Accepted(s, offered, how) ==
    LET m == Committed(s, offered)
        keep == Keep(s, offered)
    IN  /\ up /\ Loss(how = "failed")
        /\ MaybeSave(m, dirty \/ m # seen, how)
        /\ store' = Put(s, keep)
        /\ rejected' = rejected \ Of(s, keep)
        /\ uncertain' = uncertain \ Of(s, keep)
        /\ UNCHANGED <<source, salts, up, today>>

\* RejectedError, DroppedError: the store refused the rows it could not write
\* and took the others, and the refused are remembered like the others.
Partly(s, offered, landed, how) ==
    LET m == Committed(s, offered)
        keep == Keep(s, offered)
    IN  /\ up /\ landed \subseteq keep /\ landed # keep
        /\ Mishap /\ how # "failed"
        /\ MaybeSave(m, dirty \/ m # seen, how)
        /\ store' = Put(s, landed)
        /\ rejected' = (rejected \ Of(s, landed)) \cup Of(s, keep \ landed)
        /\ uncertain' = uncertain \ Of(s, landed)
        /\ UNCHANGED <<source, salts, up, today>>

\* A fault to find: recorded before the store has answered.
RefusedMutant(s, offered, landed) ==
    /\ up /\ landed \subseteq Keep(s, offered) /\ Keep(s, offered) # {}
    /\ Mishap
    /\ seen' = Committed(s, offered) /\ dirty' = TRUE
    /\ store' = Put(s, landed)
    /\ uncertain' = uncertain \cup Of(s, landed)
    /\ UNCHANGED <<source, file, salts, up, today, rejected>>

\* Any other error: nothing is remembered. A batch is several requests, and an
\* answer can be lost on its way back, so some of the rows may have landed.
Refused(s, offered, landed) ==
    /\ up /\ landed \subseteq Keep(s, offered) /\ Keep(s, offered) # {}
    /\ Mishap
    /\ store' = Put(s, landed)
    /\ uncertain' = uncertain \cup Of(s, landed)
    /\ UNCHANGED <<source, seen, file, salts, dirty, up, today, rejected>>

-----------------------------------------------------------------------------
(* The process, the calendar and the account.                              *)

\* The rows of which the file f remembers another value than the store holds.
Outdated(f) == {p \in Sink \X Row : LET e == f[Identity(p[1], p[2])]
                                     IN  e # None /\ e.value # store[p[1]][p[2]]}

\* Close saves whether or not anything changed.
Stop(saved) ==
    /\ up /\ Loss(~saved)
    /\ file' = IF saved THEN Pruned(seen) ELSE file
    /\ uncertain' = uncertain \cup Outdated(file')
    /\ up' = FALSE /\ seen' = Nothing /\ dirty' = FALSE
    /\ UNCHANGED <<source, store, salts, today, rejected>>

Crash ==
    /\ up /\ Loss(TRUE)
    /\ uncertain' = uncertain \cup Outdated(file)
    /\ up' = FALSE /\ seen' = Nothing /\ dirty' = FALSE
    /\ UNCHANGED <<source, store, file, salts, today, rejected>>

\* A fault to find: an unreadable file leaves no map to remember in.
StartUpMutant(readable) ==
    /\ ~up
    /\ up' = TRUE /\ dirty' = FALSE
    /\ seen' = IF readable THEN file ELSE None
    /\ UNCHANGED <<source, store, file, salts, today, rejected, uncertain, mishaps, losses>>

\* LoadLedger: a file that cannot be read is a first run.
StartUp(readable) ==
    /\ ~up
    /\ up' = TRUE /\ dirty' = FALSE
    /\ seen' = IF readable THEN file ELSE Nothing
    /\ UNCHANGED <<source, store, file, salts, today, rejected, uncertain, mishaps, losses>>

\* A migration sets a store's table aside and salts its rows, and every later
\* start salts them the same: Salt, and migrate.Salt from the state's record.
SetAside(s) ==
    /\ up /\ salts[s] < MaxTables
    /\ salts' = [salts EXCEPT ![s] = @ + 1]
    /\ store' = [store EXCEPT ![s] = [i \in Row |-> None]]
    /\ rejected' = rejected \ Of(s, Row) /\ uncertain' = uncertain \ Of(s, Row)
    /\ UNCHANGED <<source, seen, file, dirty, up, today, mishaps, losses>>

Move(i, v) ==
    /\ source[i] # v
    /\ source' = [source EXCEPT ![i] = v]
    /\ UNCHANGED <<store, seen, file, salts, dirty, up, today, rejected,
                   uncertain, mishaps, losses>>

NextDay ==
    /\ today < LastDay /\ today' = today + 1
    /\ UNCHANGED <<source, store, seen, file, salts, dirty, up, rejected,
                   uncertain, mishaps, losses>>

-----------------------------------------------------------------------------

Offers == SUBSET Row \ {{}}

Write(s) ==
    \E offered \in Offers :
       \/ \E how \in Saves : Accepted(s, offered, how)
       \/ \E landed \in SUBSET offered, how \in Saves : Partly(s, offered, landed, how)
       \/ \E landed \in SUBSET offered : Refused(s, offered, landed)

Process == \/ \E saved \in BOOLEAN : Stop(saved)
           \/ Crash
           \/ \E readable \in BOOLEAN : StartUp(readable)

Next == \/ \E s \in Sink : Write(s) \/ SetAside(s)
        \/ Process
        \/ \E i \in Row, v \in Value : Move(i, v)
        \/ NextDay

Init ==
    /\ source \in [Row -> Value]
    /\ store = [s \in Sink |-> [i \in Row |-> None]]
    /\ seen = Nothing /\ file = Nothing /\ salts = [s \in Sink |-> 0]
    /\ dirty = FALSE /\ up = TRUE /\ today = 0
    /\ rejected = {} /\ uncertain = {} /\ mishaps = 0 /\ losses = 0

Spec == Init /\ [][Next]_vars

\* A service starts again, and a sweep offers every row to every store, over
\* and over, and one day the store takes them.
FairSpec == /\ Spec
            /\ WF_vars(StartUp(TRUE))
            /\ \A s \in Sink : SF_vars(\E how \in Saves : Accepted(s, Row, how))

-----------------------------------------------------------------------------
(* Properties.                                                             *)

TypeOK ==
    /\ source \in [Row -> Value]
    /\ store \in [Sink -> [Row -> Value \cup {None}]]
    /\ seen \in Seen /\ file \in Seen
    /\ salts \in [Sink -> Salt]
    /\ dirty \in BOOLEAN /\ up \in BOOLEAN /\ today \in 0..LastDay
    /\ rejected \subseteq Sink \X Row /\ uncertain \subseteq Sink \X Row
    /\ mishaps \in 0..MaxMishaps /\ losses \in 0..MaxLosses

\* A row the ledger holds back is a row in the store's table, unless the store
\* itself refused it: whichever table the store had when the row was written,
\* whichever save was lost, and whatever the other stores were told (Salt,
\* digest, Reserve).
HeldBackIsThere ==
    \A s \in Sink, i \in Row, m \in {seen, file} :
       m[Identity(s, i)] # None => store[s][i] # None \/ <<s, i>> \in rejected

\* What the ledger would hold a row back for is what the store holds of it,
\* except the rows the store refused, those a failed write left half told, and
\* those whose last value was lost with the process (Reserve and its commit,
\* Unchanged.Write).
RememberedIsHeld ==
    \A s \in Sink, i \in Row :
       LET e == seen[Identity(s, i)]
       IN  \/ e = None \/ e.value = store[s][i]
           \/ <<s, i>> \in rejected \cup uncertain

\* What was offered today no save forgets, however full the ledger is
\* (Save, trimLocked).
OfferedIsKept ==
    [][up /\ up' => \A k \in Key : seen[k] # None /\ seen[k].day = today => seen'[k] # None]_vars

\* Every store comes to hold what GitHub says of a row, or GitHub says
\* something else by then (Unchanged.Write: a row not committed is offered
\* again); the rows a store refuses and the uncertain ones aside.
Converges ==
    \A s \in Sink, i \in Row, v \in Value :
       source[i] = v ~> \/ store[s][i] = v \/ source[i] # v
                        \/ <<s, i>> \in rejected \cup uncertain

\* What the code says of a ledger that is not up to date: "a lost minute of it
\* costs one rewrite" (maybeSave). It does not hold; README.md has the
\* counterexample.
LostSaveCostsARewrite ==
    \A s \in Sink, i \in Row, v \in Value :
       source[i] = v ~> store[s][i] = v \/ source[i] # v \/ <<s, i>> \in rejected

=============================================================================
