---------------------------- MODULE StoreRecords ----------------------------
(***************************************************************************)
(* What the state file records of a store (internal/run/stores.go), and    *)
(* the three way merge by which a save keeps what another process recorded *)
(* since this one read the file (internal/run/merge.go).                   *)
(*                                                                         *)
(* Instants say only which of two marks is newer, and are left out: a mark *)
(* is there or not.  So are the releases that wrote the store and what a   *)
(* start has said before.  A refill names its migrations; its families and *)
(* measurements are theirs.  A copy is named by its measurement's          *)
(* migration and the ordinal of the clear that made it.                    *)
(***************************************************************************)
EXTENDS Naturals

CONSTANTS
    Migration,  \* the registry: changes of shape that clear a measurement
    Dest,       \* where a sink may point
    Today,      \* days count up to Today; 0 is no bound
    MaxClears,  \* bound: copies any store can be left
    None        \* no record, no refill

ASSUME RecordsAssumption ==
    /\ Today \in Nat \ {0} /\ MaxClears \in Nat
    /\ None \notin [migs : SUBSET Migration, since : 0..Today]

Day     == 0..Today
Copy    == Migration \X (1..MaxClears)
Refill  == [migs : SUBSET Migration, since : Day]
MaybeRefill == Refill \cup {None}

\* A record kept for a sink's former destination: what is owed there.
Former  == [applied : SUBSET Migration, notNeeded : SUBSET Migration,
            aside : SUBSET Copy, refill : MaybeRefill]
MaybeFormer == Former \cup {None}
Record  == [dest : Dest, own : Former, former : [Dest -> MaybeFormer]]
MaybeRecord == Record \cup {None}

Nothing   == [applied |-> {}, notNeeded |-> {}, aside |-> {}, refill |-> None]
NoFormer  == [d \in Dest |-> None]
NewRecord(d) == [dest |-> d, own |-> Nothing, former |-> NoFormer]

-----------------------------------------------------------------------------
(* The refill a store is owed.                                             *)

MigsOf(refill) == IF refill = None THEN {} ELSE refill.migs

\* The record names something still to do in its store.
Owes(own) == own # None /\ (own.refill # None \/ own.aside # {})

\* Both refills, as far back as either reaches.
UnionRefill(a, b) ==
    IF a = None THEN b ELSE IF b = None THEN a
    ELSE [migs |-> a.migs \cup b.migs, since |-> IF a.since <= b.since THEN a.since ELSE b.since]

OweRefill(own, m, since) ==
    [own EXCEPT !.refill = UnionRefill(@, [migs |-> {m}, since |-> since])]

MarkApplied(own, m) == [own EXCEPT !.applied = @ \cup {m}, !.notNeeded = @ \ {m}]

MarkNotNeeded(own, m) == [own EXCEPT !.notNeeded = @ \cup {m}]

KeepAside(own, c) == [own EXCEPT !.aside = @ \cup {c}]

DropAside(own, c) == [own EXCEPT !.aside = @ \ {c}]

-----------------------------------------------------------------------------
(* The merge: base is what both read, mine and theirs what each made of it.*)

\* A fault to find: the copies the other one kept since are forgotten.
MergeAsidesMutant(base, mine, theirs) == mine

\* The copies both kept and the ones either added.
MergeAsides(base, mine, theirs) ==
    {c \in mine : c \in theirs \/ c \notin base} \cup {c \in theirs : c \notin base}

\* Whichever changed it since base, both together when both did.
MergeRefill(base, mine, theirs) ==
    IF mine = base THEN theirs
    ELSE IF theirs = base THEN mine ELSE UnionRefill(mine, theirs)

MergeFields(base, mine, theirs) ==
    LET applied == mine.applied \cup theirs.applied
    IN  [applied   |-> applied,
         notNeeded |-> (mine.notNeeded \cup theirs.notNeeded) \ applied,
         aside     |-> MergeAsides(base.aside, mine.aside, theirs.aside),
         refill    |-> MergeRefill(base.refill, mine.refill, theirs.refill)]

\* One store's record without its former ones, all about one destination.
MergeOwn(base, mine, theirs) ==
    IF mine = base THEN theirs
    ELSE IF theirs \in {base, None} THEN mine
    ELSE IF mine = None THEN theirs
    ELSE MergeFields(IF base = None THEN Nothing ELSE base, mine, theirs)

\* The records of former destinations, kept while they owe something.
MergeFormer(base, mine, theirs) ==
    [d \in Dest |-> LET merged == MergeOwn(base[d], mine[d], theirs[d])
                    IN  IF Owes(merged) THEN merged ELSE None]

\* Both point at one destination and both changed the record.
MergeSame(base, mine, theirs) ==
    LET b == IF base # None /\ base.dest = mine.dest THEN base ELSE NewRecord(mine.dest)
    IN  [dest   |-> mine.dest,
         own    |-> MergeFields(b.own, mine.own, theirs.own),
         former |-> MergeFormer(b.former, mine.former, theirs.former)]

\* mine points the sink elsewhere: their record joins its former ones.
MergeElsewhere(mine, theirs) ==
    IF ~Owes(theirs.own) THEN mine
    ELSE [mine EXCEPT !.former =
             MergeFormer(NoFormer, @, [theirs.former EXCEPT ![theirs.dest] = theirs.own])]

\* A fault to find: the last writer's record.
MergeRecordMutant(base, mine, theirs) == mine

MergeRecord(base, mine, theirs) ==
    IF mine = base THEN theirs
    ELSE IF theirs \in {base, None} THEN mine
    ELSE IF mine = None THEN theirs
    ELSE IF mine.dest # theirs.dest THEN MergeElsewhere(mine, theirs)
    ELSE MergeSame(base, mine, theirs)

-----------------------------------------------------------------------------
(* The record at a start.                                                  *)

\* A sink pointed at d: the record kept for d among the former ones, or a
\* new one, and the one being left among them while it owes something.
Retarget(r, d) ==
    [dest   |-> d,
     own    |-> IF r.former[d] = None THEN Nothing ELSE r.former[d],
     former |-> [r.former EXCEPT ![d] = None, ![r.dest] = IF Owes(r.own) THEN r.own ELSE @]]

\* Stamp, for a sink that points at d.
Stamp(r, d) == IF r = None THEN NewRecord(d) ELSE IF r.dest = d THEN r ELSE Retarget(r, d)

\* What the record says is owed to the store at d.
OwedAt(r, d) == IF r = None THEN None
                ELSE IF r.dest = d THEN r.own.refill
                ELSE IF r.former[d] = None THEN None ELSE r.former[d].refill

\* The copies the record names in the store at d.
NamedAt(r, d) == IF r = None THEN {}
                 ELSE IF r.dest = d THEN r.own.aside
                 ELSE IF r.former[d] = None THEN {} ELSE r.former[d].aside

=============================================================================
