--------------------------- MODULE MigrationProofs ----------------------------
(***************************************************************************)
(* What Migration promises, for any number of processes, sinks,            *)
(* destinations, migrations, repositories, stops and failures: history a   *)
(* store lost to a clear is owed on disk, and nothing is struck out of the *)
(* state file but what was read back or let go of.                        *)
(*                                                                         *)
(* First the records and their merge (Kept): what the result lacks of one  *)
(* side, another side had taken out.  Then Base: types, the lock, and that *)
(* every record points where the configuration does.  Then Inv, which      *)
(* speaks of what each process holds: Drops, the heart of it, says that a  *)
(* process lacks nothing of what it read but what is let go of or over, so *)
(* that no save, however late, takes out more than that.                   *)
(***************************************************************************)
EXTENDS Migration, TLAPS, FiniteSetTheorems, WellFoundedInduction

-----------------------------------------------------------------------------
(* Records: what the merge keeps.                                          *)

\* What the result of a merge may lack of its three sides.
Kept(base, mine, theirs, merged) ==
    /\ theirs \ merged \subseteq base \ mine
    /\ mine \ merged \subseteq base \ theirs
    /\ base \ merged \subseteq (base \ mine) \cup (base \ theirs)

OwnDebts(own) == IF own = None THEN {} ELSE MigsOf(own.refill)
OwnCopies(own) == IF own = None THEN {} ELSE own.aside
Debts(r, d) == MigsOf(OwedAt(r, d))

\* A refill reaches back to the oldest row of each migration it names.
Reaches(refill) == \A m \in MigsOf(refill) : refill.since <= Oldest[m]
FormerReaches(own) == own # None => Reaches(own.refill)
RecordReaches(r) == r # None => FormerReaches(r.own) /\ \A d \in Dest : FormerReaches(r.former[d])

LEMMA NoneApart == None \notin Refill /\ None \notin Former /\ None \notin Record /\ Today \in Nat /\ MaxClears \in Nat
BY RecordsAssumption, ProcessAssumption DEF Refill, Day

LEMMA UnionSound ==
    ASSUME NEW a \in MaybeRefill, NEW b \in MaybeRefill
    PROVE  /\ UnionRefill(a, b) \in MaybeRefill
           /\ MigsOf(UnionRefill(a, b)) = MigsOf(a) \cup MigsOf(b)
           /\ Reaches(a) /\ Reaches(b) => Reaches(UnionRefill(a, b))
<1>1. CASE a = None \/ b = None
  BY <1>1 DEF UnionRefill, MigsOf, MaybeRefill
<1>2. CASE a # None /\ b # None
  <2>1. a \in Refill /\ b \in Refill
    BY <1>2 DEF MaybeRefill
  <2> DEFINE since == IF a.since <= b.since THEN a.since ELSE b.since
  <2>2. UnionRefill(a, b) = [migs |-> a.migs \cup b.migs, since |-> since]
    BY <1>2 DEF UnionRefill
  <2>3. a.since \in Day /\ b.since \in Day /\ a.migs \in SUBSET Migration /\ b.migs \in SUBSET Migration
    BY <2>1 DEF Refill
  <2>4. since \in Day /\ since <= a.since /\ since <= b.since
    BY <2>3, NoneApart DEF Day
  <2>5. UnionRefill(a, b) \in Refill
    BY <2>2, <2>3, <2>4 DEF Refill
  <2>6. UnionRefill(a, b) # None
    BY <2>5, NoneApart
  <2>7. MigsOf(UnionRefill(a, b)) = MigsOf(a) \cup MigsOf(b)
    BY <1>2, <2>2, <2>6 DEF MigsOf
  <2>8. ASSUME Reaches(a), Reaches(b), NEW m \in MigsOf(UnionRefill(a, b))
        PROVE  UnionRefill(a, b).since <= Oldest[m]
    <3>1. m \in Migration /\ Oldest[m] \in Nat
      BY <1>2, <2>3, <2>7, <2>8, ProcessAssumption, NoneApart DEF MigsOf
    <3>2. a.since <= Oldest[m] \/ b.since <= Oldest[m]
      BY <1>2, <2>7, <2>8 DEF MigsOf, Reaches
    <3> HIDE DEF since
    <3>3. since <= Oldest[m]
      BY <2>3, <2>4, <3>1, <3>2, NoneApart DEF Day
    <3> QED  BY <2>2, <3>3
  <2> QED  BY <2>5, <2>7, <2>8 DEF MaybeRefill, Reaches
<1> QED  BY <1>1, <1>2

LEMMA MergeRefillSound ==
    ASSUME NEW base \in MaybeRefill, NEW mine \in MaybeRefill, NEW theirs \in MaybeRefill
    PROVE  /\ MergeRefill(base, mine, theirs) \in MaybeRefill
           /\ Kept(MigsOf(base), MigsOf(mine), MigsOf(theirs), MigsOf(MergeRefill(base, mine, theirs)))
           /\ Reaches(mine) /\ Reaches(theirs) => Reaches(MergeRefill(base, mine, theirs))
BY UnionSound DEF MergeRefill, Kept

LEMMA MergeFieldsSound ==
    ASSUME NEW base \in Former, NEW mine \in Former, NEW theirs \in Former
    PROVE  /\ MergeFields(base, mine, theirs) \in Former
           /\ Kept(MigsOf(base.refill), MigsOf(mine.refill), MigsOf(theirs.refill),
                   MigsOf(MergeFields(base, mine, theirs).refill))
           /\ Kept(base.aside, mine.aside, theirs.aside, MergeFields(base, mine, theirs).aside)
           /\ Reaches(mine.refill) /\ Reaches(theirs.refill)
                => Reaches(MergeFields(base, mine, theirs).refill)
<1> DEFINE merged == MergeFields(base, mine, theirs)
<1>1. /\ base.aside \in SUBSET Copy /\ mine.aside \in SUBSET Copy /\ theirs.aside \in SUBSET Copy
      /\ base.refill \in MaybeRefill /\ mine.refill \in MaybeRefill /\ theirs.refill \in MaybeRefill
      /\ mine.applied \in SUBSET Migration /\ theirs.applied \in SUBSET Migration
      /\ mine.notNeeded \in SUBSET Migration /\ theirs.notNeeded \in SUBSET Migration
  BY DEF Former
<1>2. /\ merged.refill = MergeRefill(base.refill, mine.refill, theirs.refill)
      /\ merged.aside = MergeAsides(base.aside, mine.aside, theirs.aside)
      /\ merged \in Former
  <2>1. merged = [applied |-> mine.applied \cup theirs.applied,
                  notNeeded |-> (mine.notNeeded \cup theirs.notNeeded) \ (mine.applied \cup theirs.applied),
                  aside |-> MergeAsides(base.aside, mine.aside, theirs.aside),
                  refill |-> MergeRefill(base.refill, mine.refill, theirs.refill)]
    BY DEF MergeFields
  <2>2. MergeAsides(base.aside, mine.aside, theirs.aside) \in SUBSET Copy
    BY <1>1 DEF MergeAsides
  <2>3. MergeRefill(base.refill, mine.refill, theirs.refill) \in MaybeRefill
    BY <1>1, MergeRefillSound
  <2> HIDE DEF merged
  <2> QED  BY <1>1, <2>1, <2>2, <2>3 DEF Former
<1>3. Kept(base.aside, mine.aside, theirs.aside, MergeAsides(base.aside, mine.aside, theirs.aside))
  BY DEF MergeAsides, Kept
<1> QED  BY <1>1, <1>2, <1>3, MergeRefillSound

LEMMA NothingSound == Nothing \in Former /\ Nothing.refill = None /\ Nothing.aside = {}
BY DEF Nothing, Former, MaybeRefill

LEMMA MergeOwnSound ==
    ASSUME NEW base \in MaybeFormer, NEW mine \in MaybeFormer, NEW theirs \in MaybeFormer
    PROVE  /\ MergeOwn(base, mine, theirs) \in MaybeFormer
           /\ Kept(OwnDebts(base), OwnDebts(mine), OwnDebts(theirs), OwnDebts(MergeOwn(base, mine, theirs)))
           /\ Kept(OwnCopies(base), OwnCopies(mine), OwnCopies(theirs), OwnCopies(MergeOwn(base, mine, theirs)))
           /\ FormerReaches(mine) /\ FormerReaches(theirs)
                => FormerReaches(MergeOwn(base, mine, theirs))
<1> DEFINE merged == MergeOwn(base, mine, theirs)
<1>1. CASE mine = base
  BY <1>1 DEF MergeOwn, Kept
<1>2. CASE mine # base /\ theirs \in {base, None}
  BY <1>2 DEF MergeOwn, Kept, OwnDebts, OwnCopies
<1>3. CASE mine # base /\ theirs \notin {base, None} /\ mine = None
  BY <1>3 DEF MergeOwn, Kept, OwnDebts, OwnCopies
<1>4. CASE mine # base /\ theirs \notin {base, None} /\ mine # None
  <2> DEFINE b == IF base = None THEN Nothing ELSE base
  <2>1. merged = MergeFields(b, mine, theirs)
    BY <1>4 DEF MergeOwn
  <2>2. b \in Former /\ mine \in Former /\ theirs \in Former
    BY <1>4, NothingSound DEF MaybeFormer
  <2>3. MigsOf(b.refill) = OwnDebts(base) /\ b.aside = OwnCopies(base)
    BY NothingSound DEF OwnDebts, OwnCopies, MigsOf
  <2>4. /\ MigsOf(mine.refill) = OwnDebts(mine) /\ mine.aside = OwnCopies(mine)
        /\ MigsOf(theirs.refill) = OwnDebts(theirs) /\ theirs.aside = OwnCopies(theirs)
    BY <1>4 DEF OwnDebts, OwnCopies
  <2> HIDE DEF merged, b
  <2>5. /\ merged \in Former
        /\ Kept(OwnDebts(base), OwnDebts(mine), OwnDebts(theirs), MigsOf(merged.refill))
        /\ Kept(OwnCopies(base), OwnCopies(mine), OwnCopies(theirs), merged.aside)
        /\ Reaches(mine.refill) /\ Reaches(theirs.refill) => Reaches(merged.refill)
    BY <2>1, <2>2, <2>3, <2>4, MergeFieldsSound
  <2>6. OwnDebts(merged) = MigsOf(merged.refill) /\ OwnCopies(merged) = merged.aside
    BY <2>5, NoneApart DEF OwnDebts, OwnCopies
  <2>7. FormerReaches(mine) /\ FormerReaches(theirs) => FormerReaches(merged)
    BY <1>4, <2>5 DEF FormerReaches
  <2> QED  BY <2>5, <2>6, <2>7 DEF MaybeFormer, merged
<1> QED  BY <1>1, <1>2, <1>3, <1>4

\* A record at a destination.
LEMMA RecordAt ==
    ASSUME NEW r \in Record, NEW d \in Dest
    PROVE  /\ r.dest \in Dest /\ r.own \in Former /\ r.former \in [Dest -> MaybeFormer] /\ r # None
           /\ Debts(r, d) = IF r.dest = d THEN OwnDebts(r.own) ELSE OwnDebts(r.former[d])
           /\ NamedAt(r, d) = IF r.dest = d THEN OwnCopies(r.own) ELSE OwnCopies(r.former[d])
<1>1. r.dest \in Dest /\ r.own \in Former /\ r.former \in [Dest -> MaybeFormer] /\ r # None
  BY NoneApart DEF Record
<1>2. r.own # None
  BY <1>1, NoneApart
<1> QED  BY <1>1, <1>2 DEF Debts, OwedAt, NamedAt, OwnDebts, OwnCopies, MigsOf

LEMMA NewRecordSound ==
    ASSUME NEW d \in Dest
    PROVE  /\ NewRecord(d) \in Record /\ NewRecord(d).dest = d /\ NewRecord(d).own = Nothing
           /\ \A e \in Dest : /\ NewRecord(d).former[e] = None
                              /\ Debts(NewRecord(d), e) = {} /\ NamedAt(NewRecord(d), e) = {}
           /\ RecordReaches(NewRecord(d))
<1>1. NewRecord(d) \in Record /\ NewRecord(d).dest = d /\ NewRecord(d).own = Nothing
      /\ NewRecord(d).former = [e \in Dest |-> None]
  BY NothingSound DEF NewRecord, NoFormer, Record, MaybeFormer
<1>2. OwnDebts(Nothing) = {} /\ OwnCopies(Nothing) = {} /\ OwnDebts(None) = {} /\ OwnCopies(None) = {}
  BY NothingSound DEF OwnDebts, OwnCopies, MigsOf
<1>3. \A e \in Dest : Debts(NewRecord(d), e) = {} /\ NamedAt(NewRecord(d), e) = {}
  BY <1>1, <1>2, RecordAt
<1>4. RecordReaches(NewRecord(d))
  BY <1>1, NothingSound DEF RecordReaches, FormerReaches, Reaches, MigsOf
<1> QED  BY <1>1, <1>3, <1>4

\* What does not owe is forgotten, and held nothing.
LEMMA MergeFormerSound ==
    ASSUME NEW base \in [Dest -> MaybeFormer], NEW mine \in [Dest -> MaybeFormer],
           NEW theirs \in [Dest -> MaybeFormer], NEW d \in Dest
    PROVE  LET merged == MergeFormer(base, mine, theirs)
           IN  /\ merged \in [Dest -> MaybeFormer]
               /\ Kept(OwnDebts(base[d]), OwnDebts(mine[d]), OwnDebts(theirs[d]), OwnDebts(merged[d]))
               /\ Kept(OwnCopies(base[d]), OwnCopies(mine[d]), OwnCopies(theirs[d]), OwnCopies(merged[d]))
               /\ FormerReaches(mine[d]) /\ FormerReaches(theirs[d]) => FormerReaches(merged[d])
<1> DEFINE own(e) == MergeOwn(base[e], mine[e], theirs[e])
           merged == MergeFormer(base, mine, theirs)
<1>1. merged = [e \in Dest |-> IF Owes(own(e)) THEN own(e) ELSE None]
  BY DEF MergeFormer
<1>2. \A e \in Dest : own(e) \in MaybeFormer
  BY MergeOwnSound
<1> HIDE DEF merged
<1>3. merged \in [Dest -> MaybeFormer]
  BY <1>1, <1>2 DEF MaybeFormer
<1>4. merged[d] = IF Owes(own(d)) THEN own(d) ELSE None
  BY <1>1
<1>5. /\ Kept(OwnDebts(base[d]), OwnDebts(mine[d]), OwnDebts(theirs[d]), OwnDebts(own(d)))
      /\ Kept(OwnCopies(base[d]), OwnCopies(mine[d]), OwnCopies(theirs[d]), OwnCopies(own(d)))
      /\ FormerReaches(mine[d]) /\ FormerReaches(theirs[d]) => FormerReaches(own(d))
  BY MergeOwnSound
<1> HIDE DEF own
<1>6. OwnDebts(merged[d]) = OwnDebts(own(d)) /\ OwnCopies(merged[d]) = OwnCopies(own(d))
  BY <1>4 DEF Owes, OwnDebts, OwnCopies, MigsOf
<1>7. FormerReaches(own(d)) => FormerReaches(merged[d])
  BY <1>4 DEF FormerReaches
<1> QED  BY <1>3, <1>5, <1>6, <1>7 DEF merged

\* With nothing for a base, nothing of theirs is lost, whatever was the base.
LEMMA KeptFromNothing ==
    ASSUME NEW m, NEW t, NEW r, Kept({}, m, t, r)
    PROVE  \A b : Kept(b, m, t, r)
BY DEF Kept

LEMMA MergeSameSound ==
    ASSUME NEW base \in MaybeRecord, NEW mine \in Record, NEW theirs \in Record, mine.dest = theirs.dest
    PROVE  LET merged == MergeSame(base, mine, theirs)
           IN  /\ merged \in Record /\ merged.dest = mine.dest
               /\ \A d \in Dest : /\ Kept(Debts(base, d), Debts(mine, d), Debts(theirs, d), Debts(merged, d))
                                  /\ Kept(NamedAt(base, d), NamedAt(mine, d), NamedAt(theirs, d), NamedAt(merged, d))
               /\ RecordReaches(mine) /\ RecordReaches(theirs) => RecordReaches(merged)
<1> DEFINE b == IF base # None /\ base.dest = mine.dest THEN base ELSE NewRecord(mine.dest)
           merged == MergeSame(base, mine, theirs)
<1>1. mine.dest \in Dest /\ b \in Record /\ b.dest = mine.dest
  <2>1. mine.dest \in Dest
    BY DEF Record
  <2> QED  BY <2>1, NewRecordSound DEF MaybeRecord
<1>2. /\ merged = [dest |-> mine.dest, own |-> MergeFields(b.own, mine.own, theirs.own),
                   former |-> MergeFormer(b.former, mine.former, theirs.former)]
  BY DEF MergeSame
<1>3. \A d \in Dest : \/ Debts(b, d) = Debts(base, d) /\ NamedAt(b, d) = NamedAt(base, d)
                      \/ Debts(b, d) = {} /\ NamedAt(b, d) = {}
  BY <1>1, NewRecordSound
<1> HIDE DEF b, merged
<1>4. /\ b.own \in Former /\ mine.own \in Former /\ theirs.own \in Former
      /\ b.former \in [Dest -> MaybeFormer] /\ mine.former \in [Dest -> MaybeFormer]
      /\ theirs.former \in [Dest -> MaybeFormer]
  BY <1>1, RecordAt
<1>5. merged.dest = mine.dest /\ merged.own = MergeFields(b.own, mine.own, theirs.own)
      /\ merged.former = MergeFormer(b.former, mine.former, theirs.former)
  BY <1>2
<1>6. merged.own \in Former
  BY <1>4, <1>5, MergeFieldsSound
<1>7. merged.former \in [Dest -> MaybeFormer]
  BY <1>1, <1>4, <1>5, MergeFormerSound
<1>8. merged \in Record
  BY <1>1, <1>2, <1>5, <1>6, <1>7 DEF Record
<1>9. ASSUME NEW d \in Dest
      PROVE  /\ Kept(Debts(base, d), Debts(mine, d), Debts(theirs, d), Debts(merged, d))
             /\ Kept(NamedAt(base, d), NamedAt(mine, d), NamedAt(theirs, d), NamedAt(merged, d))
  <2>1. /\ Kept(Debts(b, d), Debts(mine, d), Debts(theirs, d), Debts(merged, d))
        /\ Kept(NamedAt(b, d), NamedAt(mine, d), NamedAt(theirs, d), NamedAt(merged, d))
    <3>1. CASE d = mine.dest
      <4>1. /\ Debts(b, d) = OwnDebts(b.own) /\ NamedAt(b, d) = OwnCopies(b.own)
            /\ Debts(mine, d) = OwnDebts(mine.own) /\ NamedAt(mine, d) = OwnCopies(mine.own)
            /\ Debts(theirs, d) = OwnDebts(theirs.own) /\ NamedAt(theirs, d) = OwnCopies(theirs.own)
            /\ Debts(merged, d) = OwnDebts(merged.own) /\ NamedAt(merged, d) = OwnCopies(merged.own)
        BY <1>1, <1>5, <1>8, <3>1, RecordAt
      <4>2. \A own \in Former : OwnDebts(own) = MigsOf(own.refill) /\ OwnCopies(own) = own.aside
        BY NoneApart DEF OwnDebts, OwnCopies
      <4>3. /\ Kept(MigsOf(b.own.refill), MigsOf(mine.own.refill), MigsOf(theirs.own.refill), MigsOf(merged.own.refill))
            /\ Kept(b.own.aside, mine.own.aside, theirs.own.aside, merged.own.aside)
        BY <1>4, <1>5, MergeFieldsSound
      <4> QED  BY <1>4, <1>6, <4>1, <4>2, <4>3
    <3>2. CASE d # mine.dest
      <4>1. /\ Debts(b, d) = OwnDebts(b.former[d]) /\ NamedAt(b, d) = OwnCopies(b.former[d])
            /\ Debts(mine, d) = OwnDebts(mine.former[d]) /\ NamedAt(mine, d) = OwnCopies(mine.former[d])
            /\ Debts(theirs, d) = OwnDebts(theirs.former[d]) /\ NamedAt(theirs, d) = OwnCopies(theirs.former[d])
            /\ Debts(merged, d) = OwnDebts(merged.former[d]) /\ NamedAt(merged, d) = OwnCopies(merged.former[d])
        BY <1>1, <1>5, <1>8, <3>2, RecordAt
      <4> QED  BY <1>4, <1>5, <4>1, MergeFormerSound
    <3> QED  BY <3>1, <3>2
  <2> QED  BY <1>3, <2>1, KeptFromNothing
<1>10. ASSUME RecordReaches(mine), RecordReaches(theirs) PROVE RecordReaches(merged)
  <2>1. FormerReaches(mine.own) /\ FormerReaches(theirs.own)
        /\ \A d \in Dest : FormerReaches(mine.former[d]) /\ FormerReaches(theirs.former[d])
    BY <1>10, RecordAt, NoneApart DEF RecordReaches
  <2>2. Reaches(mine.own.refill) /\ Reaches(theirs.own.refill)
    BY <1>4, <2>1, NoneApart DEF FormerReaches
  <2>3. FormerReaches(merged.own)
    BY <1>4, <1>5, <2>2, MergeFieldsSound DEF FormerReaches
  <2>4. \A d \in Dest : FormerReaches(merged.former[d])
    BY <1>4, <1>5, <2>1, MergeFormerSound
  <2> QED  BY <2>3, <2>4 DEF RecordReaches
<1> QED  BY <1>5, <1>8, <1>9, <1>10 DEF merged

\* The merge of a process whose record is of where the sink points, with what
\* is on disk, which is what it read or is of there as well.
LEMMA MergeSound ==
    ASSUME NEW base \in MaybeRecord, NEW mine \in Record, NEW theirs \in MaybeRecord,
           theirs = base \/ (theirs # None /\ theirs.dest = mine.dest)
    PROVE  LET merged == MergeRecord(base, mine, theirs)
           IN  /\ merged \in Record /\ merged.dest = mine.dest
               /\ \A d \in Dest : /\ Kept(Debts(base, d), Debts(mine, d), Debts(theirs, d), Debts(merged, d))
                                  /\ Kept(NamedAt(base, d), NamedAt(mine, d), NamedAt(theirs, d), NamedAt(merged, d))
               /\ RecordReaches(mine) /\ RecordReaches(theirs) => RecordReaches(merged)
<1>1. CASE mine = base
  BY <1>1 DEF MergeRecord, Kept, MaybeRecord
<1>2. CASE mine # base /\ theirs = base
  BY <1>2 DEF MergeRecord, Kept
<1>3. CASE mine # base /\ theirs # base
  <2>1. theirs \in Record /\ theirs # None /\ mine # None /\ mine.dest = theirs.dest
    BY <1>3, NoneApart DEF MaybeRecord
  <2>2. MergeRecord(base, mine, theirs) = MergeSame(base, mine, theirs)
    BY <1>3, <2>1 DEF MergeRecord
  <2> QED  BY <2>1, <2>2, MergeSameSound
<1> QED  BY <1>1, <1>2, <1>3

\* A record pointed elsewhere forgets nothing, and reaches as far.
LEMMA StampSound ==
    ASSUME NEW r \in MaybeRecord, NEW d \in Dest
    PROVE  /\ Stamp(r, d) \in Record /\ Stamp(r, d).dest = d
           /\ \A e \in Dest : /\ Debts(r, e) \subseteq Debts(Stamp(r, d), e)
                              /\ NamedAt(r, e) \subseteq NamedAt(Stamp(r, d), e)
           /\ RecordReaches(r) => RecordReaches(Stamp(r, d))
<1>1. CASE r = None
  BY <1>1, NewRecordSound DEF Stamp, Debts, OwedAt, NamedAt, MigsOf
<1>2. CASE r # None /\ r.dest = d
  BY <1>2 DEF Stamp, MaybeRecord
<1>3. CASE r # None /\ r.dest # d
  <2> DEFINE own    == IF r.former[d] = None THEN Nothing ELSE r.former[d]
             former == [r.former EXCEPT ![d] = None, ![r.dest] = IF Owes(r.own) THEN r.own ELSE @]
             moved  == Stamp(r, d)
  <2>1. r \in Record /\ r.dest \in Dest /\ r.own \in Former /\ r.former \in [Dest -> MaybeFormer]
    BY <1>3, RecordAt DEF MaybeRecord
  <2>2. moved = [dest |-> d, own |-> own, former |-> former]
    BY <1>3 DEF Stamp, Retarget
  <2>3. own \in Former /\ OwnDebts(own) = OwnDebts(r.former[d]) /\ OwnCopies(own) = OwnCopies(r.former[d])
        /\ (FormerReaches(r.former[d]) => FormerReaches(own))
    <3>1. CASE r.former[d] = None
      BY <3>1, NothingSound, NoneApart DEF OwnDebts, OwnCopies, MigsOf, FormerReaches, Reaches
    <3>2. CASE r.former[d] # None
      BY <2>1, <3>2 DEF MaybeFormer
    <3> QED  BY <3>1, <3>2
  <2>4. /\ former \in [Dest -> MaybeFormer]
        /\ former[d] = None
        /\ former[r.dest] = IF Owes(r.own) THEN r.own ELSE r.former[r.dest]
        /\ \A e \in Dest \ {d, r.dest} : former[e] = r.former[e]
    BY <1>3, <2>1 DEF MaybeFormer
  <2> HIDE DEF own, former, moved
  <2>5. moved \in Record /\ moved.dest = d /\ moved.own = own /\ moved.former = former
    BY <2>2, <2>3, <2>4 DEF Record
  <2>6. ASSUME NEW e \in Dest
        PROVE  Debts(r, e) \subseteq Debts(moved, e) /\ NamedAt(r, e) \subseteq NamedAt(moved, e)
    <3>1. CASE e = d
      BY <1>3, <2>1, <2>3, <2>5, <3>1, RecordAt
    <3>2. CASE e = r.dest
      <4>1. Debts(r, e) = OwnDebts(r.own) /\ NamedAt(r, e) = OwnCopies(r.own)
        BY <2>1, <3>2, RecordAt
      <4>2. Debts(moved, e) = OwnDebts(former[e]) /\ NamedAt(moved, e) = OwnCopies(former[e])
        BY <1>3, <2>5, <3>2, RecordAt
      <4>3. ~Owes(r.own) => OwnDebts(r.own) = {} /\ OwnCopies(r.own) = {}
        BY DEF Owes, OwnDebts, OwnCopies, MigsOf
      <4> QED  BY <2>4, <3>2, <4>1, <4>2, <4>3
    <3>3. CASE e # d /\ e # r.dest
      BY <2>1, <2>4, <2>5, <3>3, RecordAt
    <3> QED  BY <3>1, <3>2, <3>3
  <2>7. ASSUME RecordReaches(r) PROVE RecordReaches(moved)
    <3>1. FormerReaches(r.own) /\ \A e \in Dest : FormerReaches(r.former[e])
      BY <1>3, <2>7 DEF RecordReaches
    <3>2. FormerReaches(None)
      BY DEF FormerReaches
    <3>3. FormerReaches(former[d]) /\ FormerReaches(former[r.dest])
      BY <2>1, <2>4, <3>1, <3>2
    <3>4. \A e \in Dest \ {d, r.dest} : FormerReaches(former[e])
      BY <2>4, <3>1
    <3>5. FormerReaches(own)
      BY <2>3, <3>1
    <3> QED  BY <2>5, <3>3, <3>4, <3>5 DEF RecordReaches
  <2> QED  BY <2>5, <2>6, <2>7 DEF moved
<1> QED  BY <1>1, <1>2, <1>3

-----------------------------------------------------------------------------
(* Types, the lock, and where the records point.                           *)

Working == {"apply", "touch", "settle", "walk", "paid"}

\* Only the holder of the lock changes the stores.
LockHeld == \A p \in Process : pc[p] \in Working => lock = p

\* A store is touched for an item, and a walk has its checkpoint.
Busy == \A p \in Process : /\ pc[p] \in {"touch", "settle"} => item[p] \in Item
                           /\ pc[p] = "walk" => ck # None

\* While processes run, their records and what they saved are of where the
\* configuration points.
Pointed ==
    \A p \in Process, s \in Store : pc[p] # "off" =>
        /\ st[p][s] # None /\ st[p][s].dest = points[s]
        /\ disk[s] = loaded[p][s] \/ (disk[s] # None /\ disk[s].dest = points[s])

Base == TypeOK /\ LockHeld /\ Busy /\ Pointed

\* The records of a process under way, as it is about to save them.
Ready(p, mine) == /\ pc[p] # "off"
                  /\ mine \in [Store -> Record] /\ \A s \in Store : mine[s].dest = points[s]

LEMMA RunningIsReady ==
    ASSUME TypeOK, Pointed, NEW p \in Process, pc[p] # "off"
    PROVE  Ready(p, st[p])
<1>1. st[p] \in [Store -> MaybeRecord]
  BY DEF TypeOK
<1>2. \A s \in Store : st[p][s] \in Record /\ st[p][s].dest = points[s]
  BY <1>1 DEF Pointed, MaybeRecord
<1> QED  BY <1>1, <1>2 DEF Ready

LEMMA MergedSound ==
    ASSUME TypeOK, Pointed, NEW p \in Process, NEW mine, Ready(p, mine)
    PROVE  /\ Ready(p, Merged(p, mine))
           /\ \A s \in Store, d \in Dest :
                  /\ Kept(Debts(loaded[p][s], d), Debts(mine[s], d), Debts(disk[s], d), Debts(Merged(p, mine)[s], d))
                  /\ Kept(NamedAt(loaded[p][s], d), NamedAt(mine[s], d), NamedAt(disk[s], d),
                          NamedAt(Merged(p, mine)[s], d))
           /\ \A s \in Store : RecordReaches(mine[s]) /\ RecordReaches(disk[s])
                                  => RecordReaches(Merged(p, mine)[s])
<1>1. \A s \in Store : /\ loaded[p][s] \in MaybeRecord /\ mine[s] \in Record /\ disk[s] \in MaybeRecord
                       /\ disk[s] = loaded[p][s] \/ (disk[s] # None /\ disk[s].dest = mine[s].dest)
  BY DEF Ready, Pointed, TypeOK
<1>2. \A s \in Store : Merged(p, mine)[s] = MergeRecord(loaded[p][s], mine[s], disk[s])
  BY DEF Merged
<1>3. \A s \in Store : Merged(p, mine)[s] \in Record /\ Merged(p, mine)[s].dest = mine[s].dest
  BY <1>1, <1>2, MergeSound
<1>4. Merged(p, mine) \in [Store -> Record]
  BY <1>3 DEF Merged
<1>5. ASSUME NEW s \in Store
      PROVE  /\ \A d \in Dest :
                  /\ Kept(Debts(loaded[p][s], d), Debts(mine[s], d), Debts(disk[s], d), Debts(Merged(p, mine)[s], d))
                  /\ Kept(NamedAt(loaded[p][s], d), NamedAt(mine[s], d), NamedAt(disk[s], d),
                          NamedAt(Merged(p, mine)[s], d))
             /\ RecordReaches(mine[s]) /\ RecordReaches(disk[s]) => RecordReaches(Merged(p, mine)[s])
  BY <1>1, <1>2, MergeSound
<1>6. Ready(p, Merged(p, mine))
  BY <1>3, <1>4 DEF Ready
<1> QED  BY <1>5, <1>6

\* The three copies of the records, as they are typed and point.
Files == /\ disk \in [Store -> MaybeRecord]
         /\ st \in [Process -> [Store -> MaybeRecord]] /\ loaded \in [Process -> [Store -> MaybeRecord]]
Points(q) == \A s \in Store :
    /\ st[q][s] # None /\ st[q][s].dest = points[s]
    /\ disk[s] = loaded[q][s] \/ (disk[s] # None /\ disk[s].dest = points[s])

LEMMA PointedIs == Pointed <=> \A q \in Process : pc[q] # "off" => Points(q)
BY DEF Pointed, Points

LEMMA SavePointed ==
    ASSUME TypeOK, Pointed, NEW p \in Process, NEW mine, Ready(p, mine), UNCHANGED points,
           \/ /\ Save(p, mine)
           \/ /\ UNCHANGED <<loaded, disk>>
              /\ \E s \in Store : st' = [st EXCEPT ![p] = [Merged(p, mine) EXCEPT ![s] = st[p][s]]]
    PROVE  Files' /\ \A q \in Process : pc[q] # "off" => Points(q)'
<1> DEFINE merged == Merged(p, mine)
<1>1. Ready(p, merged) /\ Ready(p, st[p])
  BY MergedSound, RunningIsReady DEF Ready
<1> HIDE DEF merged
<1>2. \A s \in Store : /\ merged[s] \in Record /\ merged[s].dest = points[s]
                       /\ st[p][s] \in Record /\ st[p][s].dest = points[s]
  BY <1>1 DEF Ready
<1>3. PICK new \in [Store -> Record] :
          (\A s \in Store : new[s].dest = points[s]) /\ st' = [st EXCEPT ![p] = new]
  <2>1. CASE st' = [st EXCEPT ![p] = merged]
    BY <1>1, <2>1 DEF Ready
  <2>2. ASSUME NEW s \in Store, st' = [st EXCEPT ![p] = [merged EXCEPT ![s] = st[p][s]]]
        PROVE  \E new \in [Store -> Record] :
                  (\A t \in Store : new[t].dest = points[t]) /\ st' = [st EXCEPT ![p] = new]
    <3> DEFINE mixed == [merged EXCEPT ![s] = st[p][s]]
    <3>1. mixed \in [Store -> Record] /\ \A t \in Store : mixed[t].dest = points[t]
      BY <1>1, <1>2 DEF Ready
    <3>2. st' = [st EXCEPT ![p] = mixed]
      BY <2>2
    <3> HIDE DEF mixed
    <3> QED  BY <3>1, <3>2
  <2>3. st' = [st EXCEPT ![p] = merged] \/ \E s \in Store : st' = [st EXCEPT ![p] = [merged EXCEPT ![s] = st[p][s]]]
    BY DEF Save, Saved, NotSaved, merged
  <2> QED  BY <2>1, <2>2, <2>3
<1>4. \/ UNCHANGED <<loaded, disk>>
      \/ loaded' = [loaded EXCEPT ![p] = merged] /\ disk' = merged
  BY DEF Save, Saved, NotSaved, merged
<1>5. Files'
  <2>1. [Store -> Record] \subseteq [Store -> MaybeRecord]
    BY DEF MaybeRecord
  <2>2. merged \in [Store -> MaybeRecord] /\ new \in [Store -> MaybeRecord]
    BY <1>1, <2>1 DEF Ready
  <2>3. st' \in [Process -> [Store -> MaybeRecord]]
    BY <1>3, <2>2 DEF TypeOK
  <2>4. disk' \in [Store -> MaybeRecord] /\ loaded' \in [Process -> [Store -> MaybeRecord]]
    BY <1>4, <2>2 DEF TypeOK
  <2> QED  BY <2>3, <2>4 DEF Files
<1>6. ASSUME NEW q \in Process, pc[q] # "off" PROVE Points(q)'
  <2>1. \A s \in Store : st'[q][s] # None /\ st'[q][s].dest = points[s]
    <3>1. CASE q = p
      <4>1. st'[q] = new
        BY <1>3, <3>1 DEF TypeOK
      <4> QED  BY <1>3, <4>1, NoneApart
    <3>2. CASE q # p
      <4>1. st'[q] = st[q]
        BY <1>3, <3>2 DEF TypeOK
      <4> QED  BY <1>6, <4>1 DEF Pointed
    <3> QED  BY <3>1, <3>2
  <2>2. \A s \in Store : disk'[s] = loaded'[q][s] \/ (disk'[s] # None /\ disk'[s].dest = points[s])
    <3>1. CASE UNCHANGED <<loaded, disk>>
      BY <1>6, <3>1 DEF Pointed
    <3>2. CASE disk' = merged
      BY <1>2, <3>2, NoneApart
    <3> QED  BY <1>4, <3>1, <3>2
  <2>3. points' = points
    OBVIOUS
  <2> QED  BY <2>1, <2>2, <2>3 DEF Points
<1> QED  BY <1>5, <1>6

-----------------------------------------------------------------------------
(* A record whose own part is edited.                                      *)

LEMMA OwnEdited ==
    ASSUME NEW r \in Record, NEW own \in Former
    PROVE  LET edited == [r EXCEPT !.own = own]
           IN  /\ edited \in Record /\ edited.dest = r.dest /\ edited.own = own /\ edited.former = r.former
               /\ \A d \in Dest : /\ Debts(edited, d) = IF d = r.dest THEN MigsOf(own.refill) ELSE Debts(r, d)
                                  /\ NamedAt(edited, d) = IF d = r.dest THEN own.aside ELSE NamedAt(r, d)
               /\ RecordReaches(r) /\ Reaches(own.refill) => RecordReaches(edited)
<1> DEFINE edited == [r EXCEPT !.own = own]
<1>1. edited \in Record /\ edited.dest = r.dest /\ edited.own = own /\ edited.former = r.former
  BY DEF Record
<1> HIDE DEF edited
<1>2. own # None
  BY NoneApart
<1>3. \A d \in Dest : /\ Debts(edited, d) = IF d = r.dest THEN MigsOf(own.refill) ELSE Debts(r, d)
                      /\ NamedAt(edited, d) = IF d = r.dest THEN own.aside ELSE NamedAt(r, d)
  <2>1. ASSUME NEW d \in Dest
        PROVE  /\ Debts(edited, d) = IF d = r.dest THEN MigsOf(own.refill) ELSE Debts(r, d)
               /\ NamedAt(edited, d) = IF d = r.dest THEN own.aside ELSE NamedAt(r, d)
    <3>1. /\ Debts(edited, d) = IF r.dest = d THEN OwnDebts(own) ELSE OwnDebts(r.former[d])
          /\ NamedAt(edited, d) = IF r.dest = d THEN OwnCopies(own) ELSE OwnCopies(r.former[d])
      BY <1>1, RecordAt
    <3>2. /\ r.dest # d => Debts(r, d) = OwnDebts(r.former[d]) /\ NamedAt(r, d) = OwnCopies(r.former[d])
      BY RecordAt
    <3> QED  BY <1>2, <3>1, <3>2 DEF OwnDebts, OwnCopies
  <2> QED  BY <2>1
<1>4. ASSUME RecordReaches(r), Reaches(own.refill) PROVE RecordReaches(edited)
  <2>1. \A d \in Dest : FormerReaches(r.former[d])
    BY <1>4, NoneApart DEF RecordReaches
  <2> QED  BY <1>1, <1>4, <2>1 DEF RecordReaches, FormerReaches
<1> QED  BY <1>1, <1>3, <1>4 DEF edited

\* The records with the own part of one replaced.
Edited(recs, s, own) == [recs EXCEPT ![s].own = own]

LEMMA EditReady ==
    ASSUME NEW p \in Process, NEW recs, Ready(p, recs), NEW s \in Store, NEW own \in Former
    PROVE  /\ Ready(p, Edited(recs, s, own))
           /\ \A t \in Store \ {s} : Edited(recs, s, own)[t] = recs[t]
           /\ LET r == Edited(recs, s, own)[s] IN
              /\ r.dest = recs[s].dest /\ r.own = own /\ r.former = recs[s].former
              /\ \A d \in Dest : /\ Debts(r, d) = IF d = points[s] THEN MigsOf(own.refill) ELSE Debts(recs[s], d)
                                 /\ NamedAt(r, d) = IF d = points[s] THEN own.aside ELSE NamedAt(recs[s], d)
              /\ RecordReaches(recs[s]) /\ Reaches(own.refill) => RecordReaches(r)
<1> DEFINE mine == Edited(recs, s, own)
           r    == [recs[s] EXCEPT !.own = own]
<1>1. recs \in [Store -> Record] /\ \A t \in Store : recs[t].dest = points[t]
  BY DEF Ready
<1>2. mine = [recs EXCEPT ![s] = r]
  BY DEF Edited
<1>3. /\ r \in Record /\ r.dest = recs[s].dest /\ r.own = own /\ r.former = recs[s].former
      /\ \A d \in Dest : /\ Debts(r, d) = IF d = recs[s].dest THEN MigsOf(own.refill) ELSE Debts(recs[s], d)
                         /\ NamedAt(r, d) = IF d = recs[s].dest THEN own.aside ELSE NamedAt(recs[s], d)
      /\ RecordReaches(recs[s]) /\ Reaches(own.refill) => RecordReaches(r)
  BY <1>1, OwnEdited
<1> HIDE DEF mine, r
<1>4. mine \in [Store -> Record] /\ mine[s] = r /\ \A t \in Store \ {s} : mine[t] = recs[t]
  BY <1>1, <1>2, <1>3
<1>5. \A t \in Store : mine[t].dest = points[t]
  BY <1>1, <1>3, <1>4
<1>6. Ready(p, mine)
  BY <1>4, <1>5 DEF Ready
<1>7. recs[s].dest = points[s]
  BY <1>1
<1> QED  BY <1>3, <1>4, <1>6, <1>7 DEF mine

LEMMA OweSound ==
    ASSUME NEW own \in Former, NEW m \in Migration, NEW since \in Day
    PROVE  LET owing == OweRefill(own, m, since)
           IN  /\ owing \in Former /\ owing.aside = own.aside
               /\ owing.refill = UnionRefill(own.refill, [migs |-> {m}, since |-> since])
               /\ MigsOf(owing.refill) = MigsOf(own.refill) \cup {m}
               /\ Reaches(own.refill) /\ since <= Oldest[m] => Reaches(owing.refill)
<1> DEFINE one == [migs |-> {m}, since |-> since]
<1>1. one \in Refill /\ one \in MaybeRefill /\ MigsOf(one) = {m} /\ (since <= Oldest[m] => Reaches(one))
  BY NoneApart DEF Refill, MaybeRefill, MigsOf, Reaches
<1>2. own.refill \in MaybeRefill
  BY DEF Former
<1> HIDE DEF one
<1>3. /\ UnionRefill(own.refill, one) \in MaybeRefill
      /\ MigsOf(UnionRefill(own.refill, one)) = MigsOf(own.refill) \cup {m}
      /\ Reaches(own.refill) /\ since <= Oldest[m] => Reaches(UnionRefill(own.refill, one))
  BY <1>1, <1>2, UnionSound
<1>4. OweRefill(own, m, since) = [own EXCEPT !.refill = UnionRefill(own.refill, one)]
  BY DEF OweRefill, one
<1>5. /\ [own EXCEPT !.refill = UnionRefill(own.refill, one)] \in Former
      /\ [own EXCEPT !.refill = UnionRefill(own.refill, one)].aside = own.aside
      /\ [own EXCEPT !.refill = UnionRefill(own.refill, one)].refill = UnionRefill(own.refill, one)
  BY <1>3 DEF Former
<1> QED  BY <1>3, <1>4, <1>5 DEF one

\* What settling an item makes of the record.
LEMMA SettledSound ==
    ASSUME NEW p \in Process, NEW own \in Former, own = st[p][item[p].store].own, before[p] \in MaybeRefill,
           answer[p] \in Answers, item[p] \in Item
    PROVE  /\ SettledOwn(p) \in Former
           /\ own.aside \subseteq SettledOwn(p).aside
           /\ SettledOwn(p).refill = IF answer[p].said = "untouched" THEN before[p] ELSE own.refill
<1>1. answer[p].said \in {"done", "untouched", "unknown"} /\ answer[p].copy \in Copy \cup {None}
      /\ item[p].mig \in Migration
  BY DEF Answers, Item
<1> DEFINE kept == IF answer[p].copy = None THEN own ELSE KeepAside(own, answer[p].copy)
<1>2. kept \in Former /\ own.aside \subseteq kept.aside /\ kept.refill = own.refill
  BY <1>1 DEF Former, KeepAside
<1>3. SettledOwn(p) = CASE answer[p].said = "done"      -> MarkApplied(kept, item[p].mig)
                        [] answer[p].said = "untouched" -> [kept EXCEPT !.refill = before[p]]
                        [] OTHER                        -> kept
  BY DEF SettledOwn
<1> HIDE DEF kept
<1>4. CASE answer[p].said = "done"
  <2>1. SettledOwn(p) = MarkApplied(kept, item[p].mig)
    BY <1>3, <1>4
  <2>2. /\ MarkApplied(kept, item[p].mig) \in Former
        /\ MarkApplied(kept, item[p].mig).aside = kept.aside
        /\ MarkApplied(kept, item[p].mig).refill = kept.refill
    BY <1>1, <1>2 DEF MarkApplied, Former
  <2> QED  BY <1>2, <1>4, <2>1, <2>2
<1>5. CASE answer[p].said = "untouched"
  BY <1>1, <1>2, <1>3, <1>5 DEF Former
<1>6. CASE answer[p].said = "unknown"
  BY <1>1, <1>2, <1>3, <1>6
<1> QED  BY <1>1, <1>4, <1>5, <1>6

\* What a process has read at its start.
OpenedRecords(p) ==
    [s \in Store |-> [Stamp(disk[s], points[s]) EXCEPT
        !.own.notNeeded = @ \cup Settled(p, [t \in Store |-> Stamp(disk[t], points[t])], s)]]

LEMMA OpenedSound ==
    ASSUME TypeOK, NEW p \in Process, Opened(p)
    PROVE  /\ st' = [st EXCEPT ![p] = OpenedRecords(p)] /\ loaded' = [loaded EXCEPT ![p] = disk]
           /\ chosen' = [chosen EXCEPT ![p] = Chosen(p, [t \in Store |-> Stamp(disk[t], points[t])])]
           /\ pc' \in {[pc EXCEPT ![p] = "sweep"],
                       [pc EXCEPT ![p] = IF p \in OneShot THEN "take" ELSE "apply"]}
           /\ OpenedRecords(p) \in [Store -> Record]
           /\ \A s \in Store :
                  /\ OpenedRecords(p)[s].dest = points[s]
                  /\ \A d \in Dest : /\ Debts(disk[s], d) \subseteq Debts(OpenedRecords(p)[s], d)
                                     /\ NamedAt(disk[s], d) \subseteq NamedAt(OpenedRecords(p)[s], d)
                  /\ RecordReaches(disk[s]) => RecordReaches(OpenedRecords(p)[s])
<1> DEFINE stamped == [t \in Store |-> Stamp(disk[t], points[t])]
<1>1. /\ st' = [st EXCEPT ![p] = OpenedRecords(p)] /\ loaded' = [loaded EXCEPT ![p] = disk]
      /\ chosen' = [chosen EXCEPT ![p] = Chosen(p, stamped)]
      /\ pc' = [pc EXCEPT ![p] = IF Chosen(p, stamped) = {} /\ ~Owed(OpenedRecords(p)) THEN "sweep"
                                 ELSE IF p \in OneShot THEN "take" ELSE "apply"]
  BY DEF Opened, OpenedRecords
<1>2. ASSUME NEW s \in Store
      PROVE  /\ OpenedRecords(p)[s] \in Record
             /\ OpenedRecords(p)[s].dest = points[s]
             /\ \A d \in Dest : /\ Debts(disk[s], d) \subseteq Debts(OpenedRecords(p)[s], d)
                                /\ NamedAt(disk[s], d) \subseteq NamedAt(OpenedRecords(p)[s], d)
             /\ RecordReaches(disk[s]) => RecordReaches(OpenedRecords(p)[s])
  <2> DEFINE r   == Stamp(disk[s], points[s])
             own == [r.own EXCEPT !.notNeeded = @ \cup Settled(p, stamped, s)]
  <2>1. disk[s] \in MaybeRecord /\ points[s] \in Dest
    BY DEF TypeOK
  <2>2. /\ r \in Record /\ r.dest = points[s]
        /\ \A d \in Dest : Debts(disk[s], d) \subseteq Debts(r, d) /\ NamedAt(disk[s], d) \subseteq NamedAt(r, d)
        /\ RecordReaches(disk[s]) => RecordReaches(r)
    BY <2>1, StampSound
  <2>3. OpenedRecords(p)[s] = [r EXCEPT !.own = own]
    BY DEF OpenedRecords
  <2>4. r.own \in Former /\ Settled(p, stamped, s) \subseteq Migration
    BY <2>2, RecordAt DEF Settled, Record
  <2>5. own \in Former /\ own.refill = r.own.refill /\ own.aside = r.own.aside
    BY <2>4 DEF Former
  <2> HIDE DEF r, own
  <2>6. \A d \in Dest : d = r.dest => Debts(r, d) = MigsOf(own.refill) /\ NamedAt(r, d) = own.aside
    BY <2>2, <2>4, <2>5, RecordAt, NoneApart DEF OwnDebts, OwnCopies
  <2>7. RecordReaches(r) => Reaches(own.refill)
    BY <2>2, <2>4, <2>5, NoneApart DEF RecordReaches, FormerReaches
  <2> QED  BY <2>2, <2>3, <2>5, <2>6, <2>7, OwnEdited
<1>3. OpenedRecords(p) \in [Store -> Record]
  BY <1>2 DEF OpenedRecords
<1> QED  BY <1>1, <1>2, <1>3

-----------------------------------------------------------------------------
(* Base is an invariant.                                                   *)

PCs == {"off", "take", "apply", "touch", "settle", "walk", "paid", "sweep"}

\* The types of the stores and of what the model counts, of what a process is
\* at, and of the checkpoint.
StoresType == /\ back \in [Place -> [Unit -> 1..Today]] /\ old \in [Place -> SUBSET Migration]
              /\ copies \in [Place -> SUBSET Copy] /\ letGo \in [Place -> SUBSET Copy]
              /\ points \in [Store -> Dest] /\ ck \in Ck \cup {None}
MarksType == /\ paid \in [Process -> SUBSET (Store \X Migration)]
             /\ ended \subseteq Place \X Migration /\ gaps \subseteq Place \X Migration
BoundsType == starts \in 0..MaxStarts /\ mishaps \in 0..MaxMishaps /\ moves \in 0..MaxMoves
InsideType == /\ pc \in [Process -> PCs] /\ lock \in Process \cup {Nobody}
              /\ chosen \in [Process -> SUBSET Item] /\ item \in [Process -> Item \cup {None}]
              /\ ours \in [Process -> BOOLEAN] /\ before \in [Process -> MaybeRefill]
              /\ answer \in [Process -> Answers]

LEMMA TypeParts == TypeOK <=> Files /\ StoresType /\ MarksType /\ BoundsType /\ InsideType
BY DEF TypeOK, Files, StoresType, MarksType, BoundsType, InsideType, PCs

LEMMA BaseNext ==
    ASSUME Files', StoresType', MarksType', BoundsType', InsideType', LockHeld', Busy', Pointed'
    PROVE  Base'
<1>1. TypeOK'
  BY DEF TypeOK, Files, StoresType, MarksType, BoundsType, InsideType, PCs
<1> QED  BY <1>1 DEF Base

LEMMA MishapType ==
    ASSUME BoundsType, Fine \/ Mishap, UNCHANGED <<starts, moves>>
    PROVE  BoundsType'
BY NoneApart, ProcessAssumption DEF BoundsType, Fine, Mishap

LEMMA InitBase == Init => Base
<1> SUFFICES ASSUME Init PROVE Base
  OBVIOUS
<1>1. Files
  BY DEF Init, Files, NoRecords, MaybeRecord
<1>2. StoresType
  <2>1. \A m \in Migration : Oldest[m] \in 1..Today
    BY ProcessAssumption, NoneApart
  <2>2. \A u \in Unit : u[1] \in Migration
    BY DEF Unit
  <2>3. back \in [Place -> [Unit -> 1..Today]]
    BY <2>1, <2>2 DEF Init
  <2>4. points \in [Store -> Dest]
    BY DEF Init
  <2> QED  BY <2>3, <2>4 DEF Init, StoresType
<1>3. MarksType /\ BoundsType
  BY ProcessAssumption DEF Init, MarksType, BoundsType
<1>4. InsideType
  BY DEF Init, InsideType, PCs, NoAnswer, Answers, MaybeRefill
<1>5. LockHeld /\ Busy /\ Pointed
  BY DEF Init, LockHeld, Busy, Pointed, Working
<1> QED  BY <1>1, <1>2, <1>3, <1>4, <1>5, TypeParts DEF Base

\* Where pc, the lock and the items go, the lock stays with who works.
LEMMA LockMoves ==
    ASSUME Base, NEW p \in Process,
           \E x \in PCs : /\ pc' = [pc EXCEPT ![p] = x]
                          /\ \/ lock' = lock /\ (x \in Working => pc[p] \in Working)
                             \/ lock' = p /\ lock \in {Nobody, p}
                             \/ lock' = Nobody /\ lock = p /\ x \notin Working
    PROVE  LockHeld' /\ \A q \in Process \ {p} : pc'[q] = pc[q]
<1>1. pc \in [Process -> PCs] /\ Nobody \notin Process
  BY TypeParts, ProcessAssumption DEF Base, InsideType
<1>2. PICK x \in PCs : /\ pc' = [pc EXCEPT ![p] = x]
                       /\ \/ lock' = lock /\ (x \in Working => pc[p] \in Working)
                          \/ lock' = p /\ lock \in {Nobody, p}
                          \/ lock' = Nobody /\ lock = p /\ x \notin Working
  OBVIOUS
<1>3. pc'[p] = x /\ \A q \in Process \ {p} : pc'[q] = pc[q]
  BY <1>1, <1>2
<1>4. \A q \in Process : pc[q] \in Working => lock = q
  BY DEF Base, LockHeld
<1>5. ASSUME NEW q \in Process, pc'[q] \in Working PROVE lock' = q
  <2>1. CASE q = p
    BY <1>1, <1>2, <1>3, <1>4, <1>5, <2>1
  <2>2. CASE q # p
    BY <1>1, <1>2, <1>3, <1>4, <1>5, <2>2
  <2> QED  BY <2>1, <2>2
<1> QED  BY <1>3, <1>5 DEF LockHeld

\* A step that leaves records, places and processes' ends alone.
LEMMA StillPointed ==
    ASSUME Base, NEW p \in Process, pc[p] # "off", \E x \in PCs : pc' = [pc EXCEPT ![p] = x],
           UNCHANGED <<disk, st, loaded, points>>
    PROVE  Files' /\ Pointed'
<1>1. Files
  BY TypeParts DEF Base
<1>2. \A q \in Process : pc'[q] # "off" => pc[q] # "off"
  BY TypeParts DEF Base, InsideType
<1>3. Pointed'
  BY <1>2 DEF Base, Pointed
<1> QED  BY <1>1, <1>3 DEF Files

LEMMA HereType ==
    ASSUME Base, NEW p \in Process, pc[p] \in {"touch", "settle"}
    PROVE  /\ item[p] \in Item /\ item[p].store \in Store /\ item[p].mig \in Migration
           /\ Here(p) \in Place /\ <<Here(p), item[p].mig>> \in Place \X Migration
           /\ Here(p) = <<item[p].store, points[item[p].store]>>
<1>1. item[p] \in Item /\ points \in [Store -> Dest]
  BY TypeParts DEF Base, Busy, StoresType
<1>2. item[p].store \in Store /\ item[p].mig \in Migration
  BY <1>1 DEF Item
<1> QED  BY <1>1, <1>2 DEF Here, Place

LEMMA CopyFinite ==
    ASSUME NEW cs \in SUBSET Copy
    PROVE  IsFiniteSet(cs) /\ \A m : Cardinality({c \in cs : c[1] = m}) \in Nat
<1>1. IsFiniteSet(1..MaxClears) /\ IsFiniteSet(Migration)
  BY FS_Interval, NoneApart, ProcessAssumption
<1>2. IsFiniteSet(Copy)
  BY <1>1, FS_Product DEF Copy
<1>3. IsFiniteSet(cs)
  BY <1>2, FS_Subset
<1>4. ASSUME NEW m PROVE Cardinality({c \in cs : c[1] = m}) \in Nat
  <2>1. IsFiniteSet({c \in cs : c[1] = m})
    BY <1>3, FS_Subset
  <2> QED  BY <2>1, FS_CardinalityType
<1> QED  BY <1>3, <1>4

LEMMA NewCopyType ==
    ASSUME Base, NEW p \in Process, pc[p] = "touch", NewCopy(p)[2] <= MaxClears
    PROVE  NewCopy(p) \in Copy
<1>1. Here(p) \in Place /\ item[p].mig \in Migration
  BY HereType
<1>2. copies[Here(p)] \in SUBSET Copy
  BY <1>1, TypeParts DEF Base, StoresType
<1> DEFINE n == Cardinality({c \in copies[Here(p)] : c[1] = item[p].mig})
<1>3. n \in Nat
  BY <1>2, CopyFinite
<1>4. NewCopy(p) = <<item[p].mig, 1 + n>>
  BY DEF NewCopy
<1> HIDE DEF n
<1>5. 1 + n <= MaxClears
  BY <1>4
<1> QED  BY <1>1, <1>3, <1>4, <1>5, NoneApart DEF Copy

\* Items stay where they are, and a walk alone has the checkpoint.
LEMMA StillBusy ==
    ASSUME Base, NEW p \in Process, \E x \in PCs : pc' = [pc EXCEPT ![p] = x],
           \A q \in Process \ {p} : item'[q] = item[q],
           pc'[p] \in {"touch", "settle"} => item'[p] \in Item,
           pc'[p] = "walk" => ck' # None,
           ck' = ck \/ pc[p] \in Working
    PROVE  Busy'
<1>1. \A q \in Process \ {p} : pc'[q] = pc[q]
  BY TypeParts DEF Base, InsideType
<1>2. ASSUME NEW q \in Process, q # p, pc[q] = "walk" PROVE ck' # None
  <2>1. pc[p] \notin Working
    BY <1>2 DEF Base, LockHeld, Working
  <2> QED  BY <1>2, <2>1 DEF Base, Busy
<1>3. ASSUME NEW q \in Process
      PROVE  /\ pc'[q] \in {"touch", "settle"} => item'[q] \in Item
             /\ pc'[q] = "walk" => ck' # None
  <2>1. CASE q = p
    BY <2>1
  <2>2. CASE q # p
    BY <1>1, <1>2, <2>2 DEF Base, Busy
  <2> QED  BY <2>1, <2>2
<1> QED  BY <1>3 DEF Busy

LEMMA MoveBase == ASSUME Base, Move PROVE Base'
<1>1. /\ \A p \in Process : pc[p] = "off"
      /\ UNCHANGED <<disk, stores, ck, lock, pc, inside, marks, starts, mishaps>>
      /\ moves < MaxMoves /\ moves' = moves + 1
  BY DEF Move
<1>2. points' \in [Store -> Dest]
  BY TypeParts DEF Base, StoresType, Move
<1>3. BoundsType'
  BY <1>1, TypeParts, ProcessAssumption DEF Base, BoundsType
<1>4. StoresType' /\ Files' /\ MarksType' /\ InsideType'
  BY <1>1, <1>2, TypeParts DEF Base, StoresType, Files, MarksType, InsideType, stores, inside, marks
<1>5. LockHeld' /\ Busy' /\ Pointed'
  BY <1>1 DEF Base, LockHeld, Busy, Pointed, Working
<1> QED  BY <1>3, <1>4, <1>5, BaseNext

LEMMA OpenBase == ASSUME Base, NEW p \in Process, StartHolding(p) \/ StartOneShot(p) PROVE Base'
<1>1. /\ Opened(p) /\ Started /\ pc[p] = "off"
      /\ UNCHANGED <<lasting, item, ours, before, answer, marks, mishaps, moves>>
      /\ \/ lock' = p /\ lock = Nobody /\ p \notin OneShot
         \/ lock' = lock /\ p \in OneShot
  BY ProcessAssumption DEF StartHolding, StartOneShot
<1>2. TypeOK
  BY DEF Base
<1>3. /\ st' = [st EXCEPT ![p] = OpenedRecords(p)] /\ loaded' = [loaded EXCEPT ![p] = disk]
      /\ OpenedRecords(p) \in [Store -> Record] /\ \A s \in Store : OpenedRecords(p)[s].dest = points[s]
      /\ \E ch \in SUBSET Item : chosen' = [chosen EXCEPT ![p] = ch]
      /\ \E x \in {"sweep", "take", "apply"} :
            pc' = [pc EXCEPT ![p] = x] /\ (p \in OneShot => x # "apply")
  <2>1. \A recs : Chosen(p, recs) \in SUBSET Item
    BY DEF Chosen
  <2> QED  BY <1>1, <1>2, <2>1, OpenedSound
<1>4. OpenedRecords(p) \in [Store -> MaybeRecord]
  BY <1>3 DEF MaybeRecord
<1>5. Files'
  BY <1>1, <1>3, <1>4, TypeParts DEF Base, Files, lasting
<1>6. StoresType' /\ MarksType'
  BY <1>1, TypeParts DEF Base, StoresType, MarksType, lasting, stores, marks
<1>7. BoundsType'
  BY <1>1, TypeParts, ProcessAssumption DEF Base, BoundsType, Started
<1>8. InsideType'
  BY <1>1, <1>3, TypeParts DEF Base, InsideType, PCs
<1>9. LockHeld' /\ \A q \in Process \ {p} : pc'[q] = pc[q]
  BY <1>1, <1>3, LockMoves DEF PCs, Working
<1>10. pc'[p] \notin {"touch", "settle", "walk"}
  BY <1>3, TypeParts DEF Base, InsideType
<1>11. Busy'
  BY <1>1, <1>3, <1>10, StillBusy DEF lasting, PCs
<1>12. Pointed'
  <2>1. ASSUME NEW q \in Process, NEW s \in Store, pc'[q] # "off"
        PROVE  /\ st'[q][s] # None /\ st'[q][s].dest = points'[s]
               /\ disk'[s] = loaded'[q][s] \/ (disk'[s] # None /\ disk'[s].dest = points'[s])
    <3>1. disk' = disk /\ points' = points
      BY <1>1 DEF lasting
    <3>2. CASE q = p
      <4>1. st'[p] = OpenedRecords(p) /\ loaded'[p] = disk
        BY <1>2, <1>3 DEF TypeOK
      <4> QED  BY <1>3, <3>1, <3>2, <4>1, NoneApart
    <3>3. CASE q # p
      <4>1. st'[q] = st[q] /\ loaded'[q] = loaded[q] /\ pc[q] # "off"
        BY <1>2, <1>3, <1>9, <2>1, <3>3 DEF TypeOK
      <4> QED  BY <3>1, <4>1 DEF Base, Pointed
    <3> QED  BY <3>2, <3>3
  <2> QED  BY <2>1 DEF Pointed
<1> QED  BY <1>5, <1>6, <1>7, <1>8, <1>9, <1>11, <1>12, BaseNext

\* A step of p that saves: what it leaves of Base to prove.
LEMMA SaveBase ==
    ASSUME Base, NEW p \in Process, NEW mine, Ready(p, mine), UNCHANGED points,
           \/ Save(p, mine)
           \/ /\ UNCHANGED <<loaded, disk>>
              /\ \E s \in Store : st' = [st EXCEPT ![p] = [Merged(p, mine) EXCEPT ![s] = st[p][s]]],
           \E x \in PCs : pc' = [pc EXCEPT ![p] = x]
    PROVE  Files' /\ Pointed'
<1>1. Files' /\ \A q \in Process : pc[q] # "off" => Points(q)'
  BY SavePointed DEF Base
<1>2. \A q \in Process : pc'[q] # "off" => pc[q] # "off"
  BY TypeParts DEF Base, InsideType, Ready
<1>3. Pointed'
  BY <1>1, <1>2 DEF Pointed, Points
<1> QED  BY <1>1, <1>3

LEMMA TakeLockBase == ASSUME Base, NEW p \in Process, TakeLock(p) PROVE Base'
<1>1. /\ pc[p] = "take" /\ UNCHANGED <<lasting, inside, marks, bounds>>
      /\ \/ lock = Nobody /\ lock' = p /\ pc' = [pc EXCEPT ![p] = "apply"]
         \/ lock' = lock /\ pc' = [pc EXCEPT ![p] = "sweep"]
  BY DEF TakeLock
<1>2. StoresType' /\ MarksType' /\ BoundsType'
  BY <1>1, TypeParts DEF Base, StoresType, MarksType, BoundsType, lasting, stores, marks, bounds
<1>3. InsideType'
  BY <1>1, TypeParts DEF Base, InsideType, PCs, inside
<1>4. Files' /\ Pointed'
  BY <1>1, StillPointed DEF PCs, lasting, inside
<1>5. LockHeld' /\ \A q \in Process \ {p} : pc'[q] = pc[q]
  BY <1>1, LockMoves DEF PCs, Working
<1>6. pc'[p] \notin {"touch", "settle", "walk"} /\ item' = item
  BY <1>1, TypeParts DEF Base, InsideType, inside
<1>7. Busy'
  BY <1>1, <1>6, StillBusy DEF lasting, PCs
<1> QED  BY <1>2, <1>3, <1>4, <1>5, <1>7, BaseNext

\* The record Owe saves.
Owing(p, i) == [st[p] EXCEPT ![i.store].own = OweRefill(st[p][i.store].own, i.mig, i.since)]

LEMMA OwingReady ==
    ASSUME Base, NEW p \in Process, pc[p] # "off", NEW i \in Item
    PROVE  /\ Ready(p, Owing(p, i)) /\ Ready(p, st[p]) /\ st[p][i.store].own \in Former
           /\ i.store \in Store /\ i.mig \in Migration /\ i.since \in Day
           /\ \A t \in Store \ {i.store} : Owing(p, i)[t] = st[p][t]
           /\ LET r   == Owing(p, i)[i.store]
                  was == st[p][i.store]
              IN  /\ r.own.refill = UnionRefill(was.own.refill, [migs |-> {i.mig}, since |-> i.since])
                  /\ \A d \in Dest : /\ Debts(r, d) = Debts(was, d) \cup (IF d = points[i.store] THEN {i.mig} ELSE {})
                                     /\ NamedAt(r, d) = NamedAt(was, d)
                  /\ RecordReaches(was) /\ i.since <= Oldest[i.mig] => RecordReaches(r)
<1> DEFINE own == OweRefill(st[p][i.store].own, i.mig, i.since)
           was == st[p][i.store]
           r   == Owing(p, i)[i.store]
<1>1. i.store \in Store /\ i.mig \in Migration /\ i.since \in Day
  BY DEF Item
<1>2. Ready(p, st[p])
  BY RunningIsReady DEF Base
<1>3. was \in Record /\ was.own \in Former /\ was.dest = points[i.store]
  BY <1>1, <1>2 DEF Ready, Record
<1>4. Owing(p, i) = Edited(st[p], i.store, own)
  BY DEF Owing, Edited
<1>5. /\ own \in Former /\ own.aside = was.own.aside
      /\ own.refill = UnionRefill(was.own.refill, [migs |-> {i.mig}, since |-> i.since])
      /\ MigsOf(own.refill) = MigsOf(was.own.refill) \cup {i.mig}
      /\ Reaches(was.own.refill) /\ i.since <= Oldest[i.mig] => Reaches(own.refill)
  BY <1>1, <1>3, OweSound
<1> HIDE DEF own
<1>6. /\ Ready(p, Owing(p, i)) /\ \A t \in Store \ {i.store} : Owing(p, i)[t] = st[p][t]
      /\ r.own = own
      /\ \A d \in Dest : /\ Debts(r, d) = IF d = points[i.store] THEN MigsOf(own.refill) ELSE Debts(was, d)
                         /\ NamedAt(r, d) = IF d = points[i.store] THEN own.aside ELSE NamedAt(was, d)
      /\ RecordReaches(was) /\ Reaches(own.refill) => RecordReaches(r)
  BY <1>1, <1>2, <1>4, <1>5, EditReady
<1>7. Debts(was, points[i.store]) = MigsOf(was.own.refill) /\ NamedAt(was, points[i.store]) = was.own.aside
  BY <1>3, NoneApart DEF Debts, OwedAt, NamedAt
<1>8. RecordReaches(was) => Reaches(was.own.refill)
  BY <1>3, NoneApart DEF RecordReaches, FormerReaches
<1> HIDE DEF r, was
<1>9. \A d \in Dest : /\ Debts(r, d) = Debts(was, d) \cup (IF d = points[i.store] THEN {i.mig} ELSE {})
                      /\ NamedAt(r, d) = NamedAt(was, d)
  BY <1>5, <1>6, <1>7
<1>10. RecordReaches(was) /\ i.since <= Oldest[i.mig] => RecordReaches(r)
  BY <1>5, <1>6, <1>8
<1> QED  BY <1>1, <1>2, <1>3, <1>5, <1>6, <1>9, <1>10 DEF r, was

\* Owe, by what it changes.
LEMMA OweStep ==
    ASSUME Base, NEW p \in Process, Owe(p)
    PROVE  \E i \in chosen[p] : LET s == i.store IN
           /\ pc[p] = "apply" /\ i \in Item
           /\ chosen' = [chosen EXCEPT ![p] = @ \ {i}] /\ item' = [item EXCEPT ![p] = i]
           /\ before' = [before EXCEPT ![p] = st[p][s].own.refill]
           /\ ours' = [ours EXCEPT ![p] = KeptByMerge(p, s, Owing(p, i))]
           /\ gaps' = IF OwedOnlyBefore(p, s, Owing(p, i)) \/ EndedUnsaved(p, s, i.mig)
                      THEN gaps \cup {<<<<s, points[s]>>, i.mig>>} ELSE gaps
           /\ \/ Saved(p, Owing(p, i)) /\ Fine /\ pc' = [pc EXCEPT ![p] = "touch"]
              \/ /\ st' = [st EXCEPT ![p] = IF KeptByMerge(p, s, Owing(p, i))
                                            THEN [Merged(p, Owing(p, i)) EXCEPT ![s] = st[p][s]]
                                            ELSE Merged(p, Owing(p, i))]
                 /\ UNCHANGED <<loaded, disk, pc>> /\ Mishap
           /\ UNCHANGED <<stores, ck, points, lock, answer, paid, ended, starts, moves>>
<1>1. PICK i \in chosen[p] :
        LET s    == i.store
            mine == [st[p] EXCEPT ![s].own = OweRefill(@, i.mig, i.since)]
            kept == KeptByMerge(p, s, mine)
        IN  /\ chosen' = [chosen EXCEPT ![p] = @ \ {i}]
            /\ item'   = [item EXCEPT ![p] = i]
            /\ before' = [before EXCEPT ![p] = st[p][s].own.refill]
            /\ ours'   = [ours EXCEPT ![p] = kept]
            /\ gaps' = IF OwedOnlyBefore(p, s, mine) \/ EndedUnsaved(p, s, i.mig) THEN gaps \cup {<<<<s, points[s]>>, i.mig>>} ELSE gaps
            /\ \/ Saved(p, mine) /\ Fine /\ pc' = [pc EXCEPT ![p] = "touch"]
               \/ /\ st' = [st EXCEPT ![p] = IF kept THEN [Merged(p, mine) EXCEPT ![s] = st[p][s]]
                                                     ELSE Merged(p, mine)]
                  /\ UNCHANGED <<loaded, disk, pc>> /\ Mishap
  BY DEF Owe
<1>2. i \in Item
  BY TypeParts DEF Base, InsideType
<1>3. Owing(p, i) = [st[p] EXCEPT ![i.store].own = OweRefill(@, i.mig, i.since)]
  BY DEF Owing
<1>4. pc[p] = "apply" /\ UNCHANGED <<stores, ck, points, lock, answer, paid, ended, starts, moves>>
  BY DEF Owe
<1> QED  BY <1>1, <1>2, <1>3, <1>4

LEMMA OweBase == ASSUME Base, NEW p \in Process, Owe(p) PROVE Base'
<1>1. PICK i \in chosen[p] : LET s == i.store IN
           /\ pc[p] = "apply" /\ i \in Item
           /\ chosen' = [chosen EXCEPT ![p] = @ \ {i}] /\ item' = [item EXCEPT ![p] = i]
           /\ before' = [before EXCEPT ![p] = st[p][s].own.refill]
           /\ ours' = [ours EXCEPT ![p] = KeptByMerge(p, s, Owing(p, i))]
           /\ gaps' = IF OwedOnlyBefore(p, s, Owing(p, i)) \/ EndedUnsaved(p, s, i.mig)
                      THEN gaps \cup {<<<<s, points[s]>>, i.mig>>} ELSE gaps
           /\ \/ Saved(p, Owing(p, i)) /\ Fine /\ pc' = [pc EXCEPT ![p] = "touch"]
              \/ /\ st' = [st EXCEPT ![p] = IF KeptByMerge(p, s, Owing(p, i))
                                            THEN [Merged(p, Owing(p, i)) EXCEPT ![s] = st[p][s]]
                                            ELSE Merged(p, Owing(p, i))]
                 /\ UNCHANGED <<loaded, disk, pc>> /\ Mishap
           /\ UNCHANGED <<stores, ck, points, lock, answer, paid, ended, starts, moves>>
  BY OweStep
<1>2. /\ Ready(p, Owing(p, i)) /\ st[p][i.store].own \in Former /\ i.store \in Store /\ i.mig \in Migration
  BY <1>1, OwingReady
<1>3. pc \in [Process -> PCs] /\ pc[p] = "apply" /\ \E x \in PCs : pc' = [pc EXCEPT ![p] = x] /\ x \in {"apply", "touch"}
  BY <1>1, TypeParts DEF Base, InsideType, PCs
<1>4. Files' /\ Pointed'
  <2>1. \/ Save(p, Owing(p, i))
        \/ /\ UNCHANGED <<loaded, disk>>
           /\ \E s \in Store : st' = [st EXCEPT ![p] = [Merged(p, Owing(p, i)) EXCEPT ![s] = st[p][s]]]
    <3>1. CASE Saved(p, Owing(p, i)) /\ Fine
      BY <3>1 DEF Save
    <3>2. CASE /\ st' = [st EXCEPT ![p] = IF KeptByMerge(p, i.store, Owing(p, i))
                                          THEN [Merged(p, Owing(p, i)) EXCEPT ![i.store] = st[p][i.store]]
                                          ELSE Merged(p, Owing(p, i))]
               /\ UNCHANGED <<loaded, disk, pc>> /\ Mishap
      <4>1. CASE KeptByMerge(p, i.store, Owing(p, i))
        BY <1>2, <3>2, <4>1
      <4>2. CASE ~KeptByMerge(p, i.store, Owing(p, i))
        BY <3>2, <4>2 DEF Save, NotSaved
      <4> QED  BY <4>1, <4>2
    <3> QED  BY <1>1, <3>1, <3>2
  <2> QED  BY <1>1, <1>2, <1>3, <2>1, SaveBase
<1>5. StoresType'
  BY <1>1, TypeParts DEF Base, StoresType, stores
<1>6. MarksType'
  <2>1. <<<<i.store, points[i.store]>>, i.mig>> \in Place \X Migration
    BY <1>2, TypeParts DEF Base, StoresType, Place
  <2>2. gaps' \subseteq Place \X Migration
    BY <1>1, <2>1, TypeParts DEF Base, MarksType
  <2> QED  BY <1>1, <2>2, TypeParts DEF Base, MarksType
<1>7. BoundsType'
  BY <1>1, TypeParts, MishapType DEF Base
<1>8. InsideType'
  <2>1. st[p][i.store].own.refill \in MaybeRefill
    BY <1>2 DEF Former
  <2>2. KeptByMerge(p, i.store, Owing(p, i)) \in BOOLEAN
    BY DEF KeptByMerge
  <2> QED  BY <1>1, <1>3, <2>1, <2>2, TypeParts DEF Base, InsideType
<1>9. LockHeld' /\ \A q \in Process \ {p} : pc'[q] = pc[q]
  BY <1>1, <1>3, LockMoves DEF Working
<1>10. Busy'
  <2>1. item'[p] = i /\ \A q \in Process \ {p} : item'[q] = item[q]
    BY <1>1, TypeParts DEF Base, InsideType
  <2>2. pc'[p] \in {"apply", "touch"}
    BY <1>3
  <2> QED  BY <1>1, <1>3, <2>1, <2>2, StillBusy
<1> QED  BY <1>4, <1>5, <1>6, <1>7, <1>8, <1>9, <1>10, BaseNext

\* What touching a store changes, whatever came of it.
LEMMA TouchBase ==
    ASSUME Base, NEW p \in Process, Clear(p) \/ OnlyCopy(p) \/ NotCleared(p)
    PROVE  Base'
<1>1. /\ pc[p] = "touch" /\ pc' = [pc EXCEPT ![p] = "settle"]
      /\ UNCHANGED <<disk, letGo, ck, points, lock, st, loaded, chosen, item, ours, before, paid, starts, moves>>
      /\ Fine \/ Mishap
  BY DEF Clear, OnlyCopy, NotCleared, Answered
<1>2. /\ Here(p) \in Place /\ <<Here(p), item[p].mig>> \in Place \X Migration /\ item[p].mig \in Migration
      /\ item[p].store \in Store
  BY <1>1, HereType
<1>3. copies' \in [Place -> SUBSET Copy] /\ answer' \in [Process -> Answers]
  <2>1. /\ \/ UNCHANGED copies
           \/ NewCopy(p)[2] <= MaxClears /\ SetAside(p)
        /\ \/ \E said \in {"done", "untouched", "unknown"} : Answered(p, said, None)
           \/ /\ NewCopy(p)[2] <= MaxClears
              /\ \E said \in {"done", "untouched", "unknown"} : Answered(p, said, NewCopy(p))
    BY DEF Clear, OnlyCopy, NotCleared
  <2>2. NewCopy(p)[2] <= MaxClears => NewCopy(p) \in Copy
    BY <1>1, NewCopyType
  <2>3. copies' \in [Place -> SUBSET Copy]
    BY <2>1, <2>2, <1>2, TypeParts DEF Base, StoresType, SetAside
  <2>4. \E said \in {"done", "untouched", "unknown"}, copy \in Copy \cup {None} :
            answer' = [answer EXCEPT ![p] = [said |-> said, copy |-> copy]]
    BY <2>1, <2>2 DEF Answered
  <2>5. answer' \in [Process -> Answers]
    BY <2>4, TypeParts DEF Base, InsideType, Answers
  <2> QED  BY <2>3, <2>5
<1>4. back' \in [Place -> [Unit -> 1..Today]] /\ old' \in [Place -> SUBSET Migration]
  <2>1. CASE Clear(p)
    <3>1. /\ back' = [back EXCEPT ![Here(p)] = [u \in Unit |-> IF u[1] = item[p].mig THEN Today ELSE @[u]]]
          /\ old' = [old EXCEPT ![Here(p)] = @ \ {item[p].mig}]
      BY <2>1 DEF Clear
    <3>2. back[Here(p)] \in [Unit -> 1..Today] /\ back \in [Place -> [Unit -> 1..Today]]
          /\ old \in [Place -> SUBSET Migration]
      BY <1>2, TypeParts DEF Base, StoresType
    <3>3. Today \in 1..Today
      BY RecordsAssumption
    <3>4. [u \in Unit |-> IF u[1] = item[p].mig THEN Today ELSE back[Here(p)][u]] \in [Unit -> 1..Today]
      BY <3>2, <3>3
    <3> QED  BY <3>1, <3>2, <3>4
  <2>2. CASE OnlyCopy(p) \/ NotCleared(p)
    BY <2>2, TypeParts DEF Base, StoresType, OnlyCopy, NotCleared
  <2> QED  BY <2>1, <2>2
<1>5. StoresType'
  BY <1>1, <1>3, <1>4, TypeParts DEF Base, StoresType
<1>6. MarksType'
  <2>1. ended' \subseteq ended /\ gaps' \subseteq gaps \cup {<<Here(p), item[p].mig>>}
    BY DEF Clear, OnlyCopy, NotCleared
  <2> QED  BY <1>1, <1>2, <2>1, TypeParts DEF Base, MarksType
<1>7. BoundsType'
  BY <1>1, TypeParts, MishapType DEF Base
<1>8. InsideType'
  BY <1>1, <1>3, TypeParts DEF Base, InsideType, PCs
<1>9. LockHeld' /\ \A q \in Process \ {p} : pc'[q] = pc[q]
  BY <1>1, LockMoves DEF Working, PCs
<1>10. Busy'
  BY <1>1, <1>9 DEF Base, Busy
<1>11. Files' /\ Pointed'
  BY <1>1, StillPointed DEF PCs
<1> QED  BY <1>5, <1>6, <1>7, <1>8, <1>9, <1>10, <1>11, BaseNext

\* What Settle saves.
Settling(p) == IF ours[p] THEN Edited(st[p], item[p].store, SettledOwn(p)) ELSE st[p]

LEMMA SettlingReady ==
    ASSUME Base, NEW p \in Process, pc[p] = "settle"
    PROVE  /\ Ready(p, st[p]) /\ Ready(p, Settling(p))
           /\ \A s \in Store, d \in Dest :
                  /\ NamedAt(st[p][s], d) \subseteq NamedAt(Settling(p)[s], d)
                  /\ \/ Debts(Settling(p)[s], d) = Debts(st[p][s], d)
                     \/ /\ ours[p] /\ answer[p].said = "untouched" /\ s = item[p].store /\ d = points[s]
                        /\ Debts(Settling(p)[s], d) = MigsOf(before[p])
                  /\ RecordReaches(st[p][s]) /\ Reaches(before[p]) => RecordReaches(Settling(p)[s])
<1> DEFINE i == item[p].store
           own == st[p][i].own
<1>1. Ready(p, st[p])
  BY RunningIsReady DEF Base
<1>2. i \in Store /\ item[p] \in Item /\ before[p] \in MaybeRefill /\ answer[p] \in Answers
  BY HereType, TypeParts DEF Base, InsideType
<1>3. st[p][i] \in Record /\ own \in Former /\ st[p][i].dest = points[i]
  BY <1>1, <1>2 DEF Ready, Record
<1>4. /\ SettledOwn(p) \in Former
      /\ own.aside \subseteq SettledOwn(p).aside
      /\ SettledOwn(p).refill = IF answer[p].said = "untouched" THEN before[p] ELSE own.refill
  BY <1>2, <1>3, SettledSound
<1>5. Debts(st[p][i], points[i]) = MigsOf(own.refill) /\ NamedAt(st[p][i], points[i]) = own.aside
  BY <1>3, NoneApart DEF Debts, OwedAt, NamedAt
<1>6. RecordReaches(st[p][i]) => Reaches(own.refill)
  BY <1>3, NoneApart DEF RecordReaches, FormerReaches
<1>7. CASE ~ours[p]
  BY <1>1, <1>7 DEF Settling
<1>8. CASE ours[p]
  <2> DEFINE mine == Edited(st[p], i, SettledOwn(p))
  <2>1. Settling(p) = mine
    BY <1>8 DEF Settling
  <2>2. /\ Ready(p, mine) /\ \A t \in Store \ {i} : mine[t] = st[p][t]
        /\ mine[i].own = SettledOwn(p)
        /\ \A d \in Dest : /\ Debts(mine[i], d) = IF d = points[i] THEN MigsOf(SettledOwn(p).refill)
                                                  ELSE Debts(st[p][i], d)
                           /\ NamedAt(mine[i], d) = IF d = points[i] THEN SettledOwn(p).aside
                                                    ELSE NamedAt(st[p][i], d)
        /\ RecordReaches(st[p][i]) /\ Reaches(SettledOwn(p).refill) => RecordReaches(mine[i])
    BY <1>1, <1>2, <1>4, EditReady
  <2> HIDE DEF mine
  <2>3. ASSUME NEW s \in Store, NEW d \in Dest
        PROVE  /\ NamedAt(st[p][s], d) \subseteq NamedAt(mine[s], d)
               /\ \/ Debts(mine[s], d) = Debts(st[p][s], d)
                  \/ /\ answer[p].said = "untouched" /\ s = i /\ d = points[s]
                     /\ Debts(mine[s], d) = MigsOf(before[p])
               /\ RecordReaches(st[p][s]) /\ Reaches(before[p]) => RecordReaches(mine[s])
    <3>1. CASE s # i
      BY <2>2, <3>1
    <3>2. CASE s = i
      <4>0. /\ Debts(mine[i], d) = IF d = points[i] THEN MigsOf(SettledOwn(p).refill)
                                    ELSE Debts(st[p][i], d)
            /\ NamedAt(mine[i], d) = IF d = points[i] THEN SettledOwn(p).aside
                                     ELSE NamedAt(st[p][i], d)
        BY <2>2
      <4> HIDE DEF i, own
      <4>1. NamedAt(st[p][i], d) \subseteq NamedAt(mine[i], d)
        BY <1>4, <1>5, <4>0
      <4>2. \/ Debts(mine[i], d) = Debts(st[p][i], d)
            \/ /\ answer[p].said = "untouched" /\ d = points[i]
               /\ Debts(mine[i], d) = MigsOf(before[p])
        BY <1>4, <1>5, <4>0
      <4>3. RecordReaches(st[p][i]) /\ Reaches(before[p]) => RecordReaches(mine[i])
        BY <1>4, <1>6, <2>2
      <4> QED  BY <3>2, <4>1, <4>2, <4>3
    <3> QED  BY <3>1, <3>2
  <2> QED  BY <1>1, <1>8, <2>1, <2>2, <2>3
<1> QED  BY <1>7, <1>8

LEMMA SettleStep ==
    ASSUME NEW p \in Process, Settle(p)
    PROVE  /\ pc[p] = "settle" /\ Save(p, Settling(p)) /\ pc' = [pc EXCEPT ![p] = "apply"]
           /\ ended' = IF ours[p] /\ answer[p].said = "untouched" /\ item[p].mig \notin MigsOf(before[p])
                       THEN ended \cup {<<Here(p), item[p].mig>>} ELSE ended
           /\ UNCHANGED <<stores, ck, points, lock, chosen, item, ours, before, answer, paid, gaps, starts, moves>>
<1>1. Settling(p) = IF ours[p] THEN [st[p] EXCEPT ![item[p].store].own = SettledOwn(p)] ELSE st[p]
  BY DEF Settling, Edited
<1> QED  BY <1>1 DEF Settle

LEMMA SaveMishap ==
    ASSUME NEW p \in Process, NEW mine, Save(p, mine)
    PROVE  Fine \/ Mishap
BY DEF Save

LEMMA SettleBase == ASSUME Base, NEW p \in Process, Settle(p) PROVE Base'
<1>1. /\ pc[p] = "settle" /\ Save(p, Settling(p)) /\ pc' = [pc EXCEPT ![p] = "apply"]
      /\ ended' \subseteq ended \cup {<<Here(p), item[p].mig>>}
      /\ UNCHANGED <<stores, ck, points, lock, chosen, item, ours, before, answer, paid, gaps, starts, moves>>
  BY SettleStep
<1>2. <<Here(p), item[p].mig>> \in Place \X Migration /\ Ready(p, Settling(p))
  BY <1>1, HereType, SettlingReady
<1>3. Files' /\ Pointed'
  BY <1>1, <1>2, SaveBase DEF PCs
<1>4. StoresType'
  BY <1>1, TypeParts DEF Base, StoresType, stores
<1>5. MarksType'
  BY <1>1, <1>2, TypeParts DEF Base, MarksType
<1>6. BoundsType'
  BY <1>1, SaveMishap, TypeParts, MishapType DEF Base
<1>7. InsideType'
  BY <1>1, TypeParts DEF Base, InsideType, PCs
<1>8. LockHeld'
  BY <1>1, LockMoves DEF Working, PCs
<1>9. pc'[p] = "apply"
  BY <1>1, TypeParts DEF Base, InsideType
<1>10. Busy'
  BY <1>1, <1>9, StillBusy DEF PCs
<1> QED  BY <1>3, <1>4, <1>5, <1>6, <1>7, <1>8, <1>10, BaseNext

\* A run that goes on to its sweep.
LEMMA QuietBase == ASSUME Base, NEW p \in Process, NothingOwed(p) \/ WalkStops(p) PROVE Base'
<1>1. /\ pc[p] \in Working /\ ToSweep(p) /\ UNCHANGED <<lasting, inside, marks, starts, moves>> /\ (Fine \/ Mishap)
  BY DEF NothingOwed, WalkStops, Working, Fine, bounds
<1>2. pc[p] # "off" /\ lock = p /\ pc' = [pc EXCEPT ![p] = "sweep"] /\ lock' \in {lock, Nobody}
  BY <1>1 DEF ToSweep, Base, LockHeld, Working
<1>3. Files' /\ Pointed'
  BY <1>1, <1>2, StillPointed DEF lasting, inside, PCs
<1>4. StoresType' /\ MarksType'
  BY <1>1, TypeParts DEF Base, StoresType, MarksType, lasting, stores, marks
<1>5. BoundsType'
  BY <1>1, TypeParts, MishapType DEF Base
<1>6. InsideType'
  BY <1>1, <1>2, TypeParts DEF Base, InsideType, PCs, inside
<1>7. LockHeld'
  BY <1>2, LockMoves DEF Working, PCs
<1>8. pc'[p] = "sweep"
  BY <1>2, TypeParts DEF Base, InsideType
<1>9. Busy'
  BY <1>1, <1>2, <1>8, StillBusy DEF PCs, lasting, inside
<1> QED  BY <1>3, <1>4, <1>5, <1>6, <1>7, <1>9, BaseNext

\* The least of some naturals is one of them, and none is less.
LEMMA Minimum ==
    ASSUME NEW S \in SUBSET Nat, S # {}
    PROVE  LET d == CHOOSE d \in S : \A e \in S : d <= e
           IN  d \in S /\ \A e \in S : d <= e
<1> DEFINE R == OpToRel(<, Nat)
<1>1. \A x, y \in Nat : <<x, y>> \in R <=> x < y
  BY DEF OpToRel
<1> HIDE DEF R
<1>2. IsWellFoundedOn(R, Nat)
  BY NatLessThanWellFounded DEF R
<1>3. PICK x \in S : \A y \in S : ~ (<<y, x>> \in R)
  BY <1>2, WFMin
<1>4. ASSUME NEW y \in S PROVE x <= y
  <2>1. x \in Nat /\ y \in Nat /\ ~ (<<y, x>> \in R)
    BY <1>3
  <2>2. ~ (y < x)
    BY <1>1, <2>1, Zenon
  <2> QED  BY <2>1, <2>2
<1> QED  BY <1>4

\* The walk of what is owed: all of it, as far back as any of it reaches.
LEMMA WalkOfSound ==
    ASSUME Base, NEW p \in Process, NEW recs, Ready(p, recs), Owed(recs)
    PROVE  /\ WalkOf(recs) \in Walk
           /\ \A s \in Store : /\ WalkOf(recs).keep[s] = Debts(recs[s], points[s])
                               /\ Debts(recs[s], points[s]) # {}
                                     => /\ recs[s].own.refill \in Refill
                                        /\ WalkOf(recs).since <= recs[s].own.refill.since
<1> DEFINE sinces == {recs[s].own.refill.since : s \in {x \in Store : OwedMigs(recs, x) # {}}}
           least  == CHOOSE d \in sinces : \A e \in sinces : d <= e
           to     == [s \in Store |-> IF OwedMigs(recs, s) = {} \/ s \in Secret THEN None ELSE points[s]]
           keep   == [s \in Store |-> OwedMigs(recs, s)]
<1>1. ASSUME NEW s \in Store
      PROVE  /\ OwedMigs(recs, s) = Debts(recs[s], points[s])
             /\ OwedMigs(recs, s) \subseteq Migration
             /\ OwedMigs(recs, s) # {} => recs[s].own.refill \in Refill
  <2>1. recs[s] \in Record /\ recs[s].dest = points[s] /\ recs[s] # None /\ recs[s].own \in Former
    BY NoneApart DEF Ready, Record
  <2>2. OwedMigs(recs, s) = MigsOf(recs[s].own.refill) /\ OwedAt(recs[s], points[s]) = recs[s].own.refill
    BY <2>1 DEF OwedMigs, OwedAt
  <2>3. recs[s].own.refill \in MaybeRefill
    BY <2>1 DEF Former
  <2> QED  BY <2>2, <2>3 DEF Debts, MigsOf, MaybeRefill, Refill
<1>2. sinces \in SUBSET Day
  <2>1. \A s \in Store : OwedMigs(recs, s) # {} => recs[s].own.refill.since \in Day
    BY <1>1 DEF Refill
  <2> QED  BY <2>1
<1>3. sinces # {}
  BY DEF Owed
<1>4. WalkOf(recs) = [since |-> least, keep |-> keep, to |-> to]
  BY DEF WalkOf
<1> HIDE DEF sinces
<1>5. sinces \in SUBSET Nat
  BY <1>2, NoneApart DEF Day
<1>6. least \in sinces /\ \A e \in sinces : least <= e
  BY <1>3, <1>5, Minimum
<1> HIDE DEF least
<1>7. keep \in [Store -> SUBSET Migration] /\ to \in [Store -> Dest \cup {None}]
  BY <1>1, TypeParts DEF Base, StoresType
<1>8. \A s \in Store : keep[s] = OwedMigs(recs, s)
  OBVIOUS
<1> HIDE DEF keep, to
<1>9. WalkOf(recs) \in Walk /\ WalkOf(recs).since = least /\ WalkOf(recs).keep = keep
  BY <1>2, <1>4, <1>6, <1>7 DEF Walk
<1>10. ASSUME NEW s \in Store, OwedMigs(recs, s) # {} PROVE recs[s].own.refill.since \in sinces
  BY <1>10 DEF sinces
<1> QED  BY <1>1, <1>6, <1>8, <1>9, <1>10

\* What openRefill leaves for a checkpoint: that of the refill resumed, or a
\* new one, written where the sinks point now.
KeptCk(w) == IF ck # None /\ ck.walk = w THEN ck
             ELSE [walk |-> w, done |-> {}, at |-> [s \in Store |-> {}]]

LEMMA OpenRefillStep ==
    ASSUME Base, NEW p \in Process, OpenRefill(p)
    PROVE  LET w == WalkOf(st[p]) IN
           /\ pc[p] = "apply" /\ chosen[p] = {} /\ Owed(st[p]) /\ pc' = [pc EXCEPT ![p] = "walk"]
           /\ ck' \in Ck /\ ck'.walk = w /\ ck'.done = KeptCk(w).done
           /\ \A s \in Store : ck'.at[s] = KeptCk(w).at[s] \cup {points[s]}
           /\ gaps' = gaps \cup {g \in Place \X Migration :
                          LET s == g[1][1]
                          IN  g[1][2] = points[s] /\ g[2] \in w.keep[s] /\ ck'.at[s] # {points[s]}}
           /\ UNCHANGED <<disk, stores, points, lock, inside, paid, ended, bounds>>
<1> DEFINE w    == WalkOf(st[p])
           kept == KeptCk(w)
<1>1. /\ pc[p] = "apply" /\ chosen[p] = {} /\ Owed(st[p]) /\ pc' = [pc EXCEPT ![p] = "walk"]
      /\ ck' = [kept EXCEPT !.at = [s \in Store |-> kept.at[s] \cup {points[s]}]]
      /\ gaps' = gaps \cup {g \in Place \X Migration :
                          LET s == g[1][1]
                          IN  g[1][2] = points[s] /\ g[2] \in w.keep[s] /\ ck'.at[s] # {points[s]}}
      /\ UNCHANGED <<disk, stores, points, lock, inside, paid, ended, bounds>>
  BY DEF OpenRefill, KeptCk
<1>2. w \in Walk
  <2>1. Ready(p, st[p])
    BY <1>1, RunningIsReady DEF Base
  <2> QED  BY <1>1, <2>1, WalkOfSound
<1>3. kept \in Ck /\ kept.walk = w
  <2>1. ck \in Ck \cup {None}
    BY TypeParts DEF Base, StoresType
  <2> HIDE DEF w
  <2>2. [walk |-> w, done |-> {}, at |-> [s \in Store |-> {}]] \in Ck
    BY <1>2 DEF Ck
  <2> QED  BY <2>1, <2>2 DEF KeptCk
<1> HIDE DEF kept, w
<1>4. points \in [Store -> Dest]
  BY TypeParts DEF Base, StoresType
<1>5. /\ kept.done \in SUBSET Unit /\ kept.at \in [Store -> SUBSET Dest] /\ kept.walk \in Walk
      /\ kept = [walk |-> kept.walk, done |-> kept.done, at |-> kept.at]
  BY <1>3 DEF Ck
<1> DEFINE at == [s \in Store |-> kept.at[s] \cup {points[s]}]
<1>6. at \in [Store -> SUBSET Dest] /\ \A s \in Store : at[s] = kept.at[s] \cup {points[s]}
  BY <1>4, <1>5
<1> HIDE DEF at
<1>7. ck' = [kept EXCEPT !.at = at]
  BY <1>1 DEF at
<1>8. ck' \in Ck /\ ck'.walk = kept.walk /\ ck'.done = kept.done /\ ck'.at = at
  BY <1>5, <1>6, <1>7 DEF Ck
<1> QED  BY <1>1, <1>3, <1>6, <1>8 DEF kept, w

LEMMA OpenRefillBase == ASSUME Base, NEW p \in Process, OpenRefill(p) PROVE Base'
<1>1. /\ pc[p] = "apply" /\ pc' = [pc EXCEPT ![p] = "walk"] /\ ck' \in Ck
      /\ gaps' \subseteq gaps \cup (Place \X Migration)
      /\ UNCHANGED <<disk, stores, points, lock, inside, paid, ended, bounds>>
  BY OpenRefillStep
<1>2. Files' /\ Pointed'
  BY <1>1, StillPointed DEF inside, PCs
<1>3. StoresType' /\ MarksType' /\ BoundsType'
  BY <1>1, TypeParts DEF Base, StoresType, MarksType, BoundsType, stores, bounds
<1>4. InsideType'
  BY <1>1, TypeParts DEF Base, InsideType, PCs, inside
<1>5. LockHeld'
  BY <1>1, LockMoves DEF Working, PCs
<1>6. pc'[p] = "walk"
  BY <1>1, TypeParts DEF Base, InsideType
<1>7. Busy'
  BY <1>1, <1>6, StillBusy, ProcessAssumption DEF inside, PCs, Working
<1> QED  BY <1>2, <1>3, <1>4, <1>5, <1>7, BaseNext

LEMMA WalkUnitBase == ASSUME Base, NEW p \in Process, WalkUnit(p) PROVE Base'
<1>1. PICK u \in UnitsOf(ck.walk) \ ck.done :
        /\ pc[p] = "walk"
        /\ back' = [at \in Place |->
                       IF at[2] = points[at[1]] /\ u[1] \in ck.walk.keep[at[1]]
                       THEN [back[at] EXCEPT ![u] = Written(u, @)] ELSE back[at]]
        /\ ck' = [ck EXCEPT !.done = @ \cup {u}]
        /\ UNCHANGED <<disk, old, copies, letGo, points, lock, pc, inside, marks, bounds>>
  BY DEF WalkUnit
<1>2. ck \in Ck /\ ck # None /\ u \in Unit /\ u[1] \in Migration
  <2>1. ck \in Ck
    BY <1>1, TypeParts DEF Base, Busy, StoresType
  <2> QED  BY <1>1, <2>1, ProcessAssumption DEF UnitsOf, Unit
<1>3. back' \in [Place -> [Unit -> 1..Today]]
  <2>1. ck.walk.since \in 0..Today /\ Oldest[u[1]] \in 1..Today
    BY <1>2, ProcessAssumption, NoneApart DEF Ck, Walk, Day
  <2>2. \A was \in 1..Today : Written(u, was) \in 1..Today
    BY <2>1, NoneApart DEF Written
  <2>3. \A at \in Place : back[at] \in [Unit -> 1..Today]
    BY TypeParts DEF Base, StoresType
  <2>4. \A at \in Place : [back[at] EXCEPT ![u] = Written(u, @)] \in [Unit -> 1..Today]
    BY <1>2, <2>2, <2>3
  <2> QED  BY <1>1, <2>3, <2>4
<1>4. ck' \in Ck
  BY <1>1, <1>2 DEF Ck
<1>5. StoresType' /\ MarksType' /\ BoundsType' /\ InsideType' /\ Files'
  BY <1>1, <1>3, <1>4, TypeParts DEF Base, StoresType, MarksType, BoundsType, InsideType, Files, inside, marks, bounds
<1>6. LockHeld' /\ Pointed'
  BY <1>1 DEF Base, LockHeld, Pointed, inside
<1>7. Busy'
  BY <1>1, <1>4, ProcessAssumption DEF Base, Busy, inside
<1> QED  BY <1>5, <1>6, <1>7, BaseNext

LEMMA WalkEndsBase == ASSUME Base, NEW p \in Process, WalkEnds(p) PROVE Base'
<1>1. /\ pc[p] = "walk" /\ pc' = [pc EXCEPT ![p] = "paid"] /\ ck' = None
      /\ paid' = [paid EXCEPT ![p] = {i \in Store \X Migration : i[2] \in ck.walk.keep[i[1]]}]
      /\ ended' = ended \cup {<<<<i[1], points[i[1]]>>, i[2]>> : i \in paid'[p]}
      /\ UNCHANGED <<disk, stores, points, lock, inside, gaps, bounds>>
  BY DEF WalkEnds
<1>2. Files' /\ Pointed'
  BY <1>1, StillPointed DEF inside, PCs
<1>3. StoresType' /\ BoundsType'
  BY <1>1, TypeParts DEF Base, StoresType, BoundsType, stores, bounds
<1>4. MarksType'
  <2>1. paid' \in [Process -> SUBSET (Store \X Migration)]
    BY <1>1, TypeParts DEF Base, MarksType
  <2>2. \A i \in Store \X Migration : <<<<i[1], points[i[1]]>>, i[2]>> \in Place \X Migration
    BY TypeParts DEF Base, StoresType, Place
  <2>3. ended' \subseteq Place \X Migration
    BY <1>1, <2>1, <2>2, TypeParts DEF Base, MarksType
  <2> QED  BY <1>1, <2>1, <2>3, TypeParts DEF Base, MarksType
<1>5. InsideType'
  BY <1>1, TypeParts DEF Base, InsideType, PCs, inside
<1>6. LockHeld'
  BY <1>1, LockMoves DEF Working, PCs
<1>7. pc'[p] = "paid"
  BY <1>1, TypeParts DEF Base, InsideType
<1>8. Busy'
  BY <1>1, <1>7, StillBusy DEF inside, PCs, Working
<1> QED  BY <1>2, <1>3, <1>4, <1>5, <1>6, <1>8, BaseNext

\* What Paid saves: the records of the stores it read back, owing nothing.
Paying(p) == [s \in Store |-> IF \E m \in Migration : <<s, m>> \in paid[p]
                              THEN [st[p][s] EXCEPT !.own.refill = None] ELSE st[p][s]]

LEMMA PayingReady ==
    ASSUME Base, NEW p \in Process, pc[p] # "off"
    PROVE  /\ Ready(p, st[p]) /\ Ready(p, Paying(p))
           /\ \A s \in Store, d \in Dest :
                  /\ NamedAt(Paying(p)[s], d) = NamedAt(st[p][s], d)
                  /\ \/ Debts(Paying(p)[s], d) = Debts(st[p][s], d)
                     \/ d = points[s] /\ Debts(Paying(p)[s], d) = {}
                  /\ RecordReaches(st[p][s]) => RecordReaches(Paying(p)[s])
<1>1. Ready(p, st[p])
  BY RunningIsReady DEF Base
<1>2. ASSUME NEW s \in Store
      PROVE  /\ Paying(p)[s] \in Record /\ Paying(p)[s].dest = points[s]
             /\ \A d \in Dest : /\ NamedAt(Paying(p)[s], d) = NamedAt(st[p][s], d)
                                /\ \/ Debts(Paying(p)[s], d) = Debts(st[p][s], d)
                                   \/ d = points[s] /\ Debts(Paying(p)[s], d) = {}
             /\ RecordReaches(st[p][s]) => RecordReaches(Paying(p)[s])
  <2> DEFINE r   == st[p][s]
             own == [r.own EXCEPT !.refill = None]
  <2>1. r \in Record /\ r.own \in Former /\ r.dest = points[s]
    BY <1>1 DEF Ready, Record
  <2>2. own \in Former /\ own.refill = None /\ own.aside = r.own.aside
    BY <2>1 DEF Former, MaybeRefill
  <2>3. Paying(p)[s] = IF \E m \in Migration : <<s, m>> \in paid[p] THEN [r EXCEPT !.own = own] ELSE r
    BY DEF Paying
  <2>4. NamedAt(r, points[s]) = r.own.aside
    BY <2>1, NoneApart DEF NamedAt
  <2>5. MigsOf(None) = {} /\ Reaches(None)
    BY DEF MigsOf, Reaches
  <2> HIDE DEF r, own
  <2>6. LET edited == [r EXCEPT !.own = own]
        IN  /\ edited \in Record /\ edited.dest = points[s]
            /\ \A d \in Dest : /\ NamedAt(edited, d) = NamedAt(r, d)
                               /\ \/ Debts(edited, d) = Debts(r, d)
                                  \/ d = points[s] /\ Debts(edited, d) = {}
            /\ RecordReaches(r) => RecordReaches(edited)
    BY <2>1, <2>2, <2>4, <2>5, OwnEdited
  <2> QED  BY <2>1, <2>3, <2>6 DEF r
<1>3. Ready(p, Paying(p))
  <2>1. Paying(p) \in [Store -> Record]
    BY <1>2 DEF Paying
  <2> QED  BY <1>1, <1>2, <2>1 DEF Ready
<1> QED  BY <1>1, <1>2, <1>3

LEMMA PaidStep ==
    ASSUME NEW p \in Process, Paid(p)
    PROVE  /\ pc[p] = "paid" /\ ToSweep(p) /\ Save(p, Paying(p))
           /\ UNCHANGED <<stores, ck, points, chosen, item, ours, before, answer, marks, starts, moves>>
BY DEF Paid, Paying

LEMMA PaidBase == ASSUME Base, NEW p \in Process, Paid(p) PROVE Base'
<1>1. /\ pc[p] = "paid" /\ ToSweep(p) /\ Save(p, Paying(p))
      /\ UNCHANGED <<stores, ck, points, chosen, item, ours, before, answer, marks, starts, moves>>
  BY PaidStep
<1>2. pc[p] # "off" /\ lock = p /\ pc' = [pc EXCEPT ![p] = "sweep"] /\ lock' \in {lock, Nobody}
  BY <1>1 DEF ToSweep, Base, LockHeld, Working
<1>3. Files' /\ Pointed'
  BY <1>1, <1>2, PayingReady, SaveBase DEF PCs
<1>4. StoresType' /\ MarksType'
  BY <1>1, TypeParts DEF Base, StoresType, MarksType, stores, marks
<1>5. BoundsType'
  BY <1>1, SaveMishap, TypeParts, MishapType DEF Base
<1>6. InsideType'
  BY <1>1, <1>2, TypeParts DEF Base, InsideType, PCs
<1>7. LockHeld'
  BY <1>2, LockMoves DEF Working, PCs
<1>8. pc'[p] = "sweep"
  BY <1>2, TypeParts DEF Base, InsideType
<1>9. Busy'
  BY <1>1, <1>2, <1>8, StillBusy DEF PCs
<1> QED  BY <1>3, <1>4, <1>5, <1>6, <1>7, <1>9, BaseNext

\* What Purge saves: the record of s without the copy c.
Purging(p, s, c) == Edited(st[p], s, DropAside(st[p][s].own, c))

LEMMA PurgingReady ==
    ASSUME Base, NEW p \in Process, pc[p] # "off", NEW s \in Store, NEW c
    PROVE  /\ Ready(p, st[p]) /\ Ready(p, Purging(p, s, c)) /\ st[p][s].own.aside \in SUBSET Copy
           /\ \A t \in Store, d \in Dest :
                  /\ NamedAt(st[p][t], d) \subseteq
                         NamedAt(Purging(p, s, c)[t], d) \cup (IF t = s /\ d = points[s] THEN {c} ELSE {})
                  /\ Debts(Purging(p, s, c)[t], d) = Debts(st[p][t], d)
                  /\ RecordReaches(st[p][t]) => RecordReaches(Purging(p, s, c)[t])
<1> DEFINE own == st[p][s].own
           dropped == DropAside(own, c)
           mine == Purging(p, s, c)
<1>1. Ready(p, st[p])
  BY RunningIsReady DEF Base
<1>2. st[p][s] \in Record /\ own \in Former /\ st[p][s].dest = points[s]
  BY <1>1 DEF Ready, Record
<1>3. dropped \in Former /\ dropped.aside = own.aside \ {c} /\ dropped.refill = own.refill
      /\ own.aside \in SUBSET Copy
  BY <1>2 DEF DropAside, Former
<1>4. Debts(st[p][s], points[s]) = MigsOf(own.refill) /\ NamedAt(st[p][s], points[s]) = own.aside
  BY <1>2, NoneApart DEF Debts, OwedAt, NamedAt
<1>5. RecordReaches(st[p][s]) => Reaches(own.refill)
  BY <1>2, NoneApart DEF RecordReaches, FormerReaches
<1>6. mine = Edited(st[p], s, dropped)
  BY DEF Purging
<1> HIDE DEF dropped, mine
<1>7. /\ Ready(p, mine) /\ \A t \in Store \ {s} : mine[t] = st[p][t]
      /\ \A d \in Dest : /\ Debts(mine[s], d) = IF d = points[s] THEN MigsOf(dropped.refill) ELSE Debts(st[p][s], d)
                         /\ NamedAt(mine[s], d) = IF d = points[s] THEN dropped.aside ELSE NamedAt(st[p][s], d)
      /\ RecordReaches(st[p][s]) /\ Reaches(dropped.refill) => RecordReaches(mine[s])
  <2>1. dropped \in Former /\ Ready(p, st[p])
    BY <1>1, <1>3
  <2> HIDE DEF own
  <2> QED  BY <1>6, <2>1, EditReady
<1>8. ASSUME NEW t \in Store, NEW d \in Dest
      PROVE  /\ NamedAt(st[p][t], d) \subseteq NamedAt(mine[t], d) \cup (IF t = s /\ d = points[s] THEN {c} ELSE {})
             /\ Debts(mine[t], d) = Debts(st[p][t], d)
             /\ RecordReaches(st[p][t]) => RecordReaches(mine[t])
  <2>1. CASE t # s
    BY <1>7, <2>1
  <2>2. CASE t = s
    BY <1>3, <1>4, <1>5, <1>7, <2>2
  <2> QED  BY <2>1, <2>2
<1> QED  BY <1>1, <1>3, <1>7, <1>8 DEF mine

LEMMA PurgeStep ==
    ASSUME Base, NEW p \in Process, Purge(p)
    PROVE  \E s \in Store, c \in Copy :
               /\ pc[p] = "sweep" /\ Save(p, Purging(p, s, c))
               /\ letGo' = [letGo EXCEPT ![<<s, points[s]>>] = @ \cup {c}]
               /\ UNCHANGED <<back, old, copies, ck, points, lock, pc, chosen, item, ours, before, answer,
                              marks, starts, moves>>
<1>1. PICK s \in Store : \E c \in st[p][s].own.aside
                                   \cup (IF p \in Migrate /\ s \in Purgers
                                         THEN copies[<<s, points[s]>>] \ letGo[<<s, points[s]>>] ELSE {}) :
            /\ letGo' = [letGo EXCEPT ![<<s, points[s]>>] = @ \cup {c}]
            /\ Save(p, [st[p] EXCEPT ![s].own = DropAside(@, c)])
  BY DEF Purge
<1>2. PICK c \in st[p][s].own.aside
                    \cup (IF p \in Migrate /\ s \in Purgers
                                         THEN copies[<<s, points[s]>>] \ letGo[<<s, points[s]>>] ELSE {}) :
            /\ letGo' = [letGo EXCEPT ![<<s, points[s]>>] = @ \cup {c}]
            /\ Save(p, [st[p] EXCEPT ![s].own = DropAside(@, c)])
  BY <1>1
<1>3. pc[p] = "sweep" /\ UNCHANGED <<back, old, copies, ck, points, lock, pc, chosen, item, ours, before, answer,
                                     marks, starts, moves>>
  BY DEF Purge
<1>4. c \in Copy
  <2>1. st[p][s].own.aside \in SUBSET Copy
    BY <1>3, PurgingReady
  <2>2. copies[<<s, points[s]>>] \in SUBSET Copy
    BY TypeParts DEF Base, StoresType, Place
  <2> QED  BY <1>2, <2>1, <2>2
<1>5. Purging(p, s, c) = [st[p] EXCEPT ![s].own = DropAside(@, c)]
  BY DEF Purging, Edited
<1> QED  BY <1>2, <1>3, <1>4, <1>5

LEMMA PurgeBase == ASSUME Base, NEW p \in Process, Purge(p) PROVE Base'
<1>1. PICK s \in Store, c \in Copy :
          /\ pc[p] = "sweep" /\ Save(p, Purging(p, s, c))
          /\ letGo' = [letGo EXCEPT ![<<s, points[s]>>] = @ \cup {c}]
          /\ UNCHANGED <<back, old, copies, ck, points, lock, pc, chosen, item, ours, before, answer,
                         marks, starts, moves>>
  BY PurgeStep
<1>2. pc' = [pc EXCEPT ![p] = "sweep"]
  BY <1>1, TypeParts DEF Base, InsideType
<1>3. Files' /\ Pointed'
  <2>1. Ready(p, Purging(p, s, c))
    BY <1>1, PurgingReady
  <2> QED  BY <1>1, <1>2, <2>1, SaveBase DEF PCs
<1>4. letGo' \in [Place -> SUBSET Copy]
  BY <1>1, TypeParts DEF Base, StoresType
<1>5. StoresType' /\ MarksType'
  BY <1>1, <1>4, TypeParts DEF Base, StoresType, MarksType, marks
<1>6. BoundsType'
  BY <1>1, SaveMishap, TypeParts, MishapType DEF Base
<1>7. InsideType'
  BY <1>1, TypeParts DEF Base, InsideType
<1>8. LockHeld' /\ Busy'
  BY <1>1 DEF Base, LockHeld, Busy
<1> QED  BY <1>3, <1>5, <1>6, <1>7, <1>8, BaseNext

LEMMA FinishBase == ASSUME Base, NEW p \in Process, Finish(p) PROVE Base'
<1>1. /\ pc[p] = "sweep" /\ Save(p, st[p])
      /\ UNCHANGED <<stores, ck, points, lock, pc, chosen, item, ours, before, answer, marks, starts, moves>>
  BY DEF Finish
<1>2. pc' = [pc EXCEPT ![p] = "sweep"] /\ Ready(p, st[p])
  BY <1>1, RunningIsReady, TypeParts DEF Base, InsideType
<1>3. Files' /\ Pointed'
  BY <1>1, <1>2, SaveBase DEF PCs
<1>4. StoresType' /\ MarksType'
  BY <1>1, TypeParts DEF Base, StoresType, MarksType, stores, marks
<1>5. BoundsType'
  BY <1>1, SaveMishap, TypeParts, MishapType DEF Base
<1>6. InsideType'
  BY <1>1, TypeParts DEF Base, InsideType
<1>7. LockHeld' /\ Busy'
  BY <1>1 DEF Base, LockHeld, Busy
<1> QED  BY <1>3, <1>4, <1>5, <1>6, <1>7, BaseNext

\* A process that is gone leaves what is on disk, or what it merged into it.
LEMMA GoneStep ==
    ASSUME NEW p \in Process, End(p) \/ Stop(p) \/ Crash(p)
    PROVE  /\ pc[p] # "off" /\ Gone(p) /\ Forgotten(p) /\ (Fine \/ Mishap)
           /\ disk' = disk \/ disk' = Merged(p, st[p])
BY DEF End, Stop, Crash

LEMMA GoneBase == ASSUME Base, NEW p \in Process, End(p) \/ Stop(p) \/ Crash(p) PROVE Base'
<1>1. /\ pc[p] # "off" /\ Gone(p) /\ Forgotten(p) /\ (Fine \/ Mishap)
      /\ disk' = disk \/ disk' = Merged(p, st[p])
  BY GoneStep
<1>2. NoRecords \in [Store -> MaybeRecord] /\ NoAnswer \in Answers
  BY DEF NoRecords, NoAnswer, Answers, MaybeRecord
<1>3. Ready(p, Merged(p, st[p]))
  BY <1>1, MergedSound, RunningIsReady DEF Base
<1>4. disk' \in [Store -> MaybeRecord] /\ \A s \in Store : disk' # disk => disk'[s] # None /\ disk'[s].dest = points[s]
  <2>1. Merged(p, st[p]) \in [Store -> MaybeRecord]
    BY <1>3 DEF Ready, MaybeRecord
  <2> QED  BY <1>1, <1>3, <2>1, TypeParts, NoneApart DEF Base, Files, Ready
<1>5. Files'
  BY <1>1, <1>2, <1>4, TypeParts DEF Base, Files, Gone, Forgotten
<1>6. StoresType' /\ MarksType'
  BY <1>1, TypeParts DEF Base, StoresType, MarksType, Gone, stores
<1>7. BoundsType'
  BY <1>1, TypeParts, MishapType DEF Base, Gone
<1>8. InsideType'
  BY <1>1, <1>2, TypeParts DEF Base, InsideType, PCs, Gone, MaybeRefill
<1>9. pc' = [pc EXCEPT ![p] = "off"] /\ lock' = (IF lock = p THEN Nobody ELSE lock)
  BY <1>1 DEF Gone
<1>10. LockHeld' /\ \A q \in Process \ {p} : pc'[q] = pc[q]
  BY <1>9, LockMoves DEF Working, PCs
<1>11. pc'[p] = "off"
  BY <1>9, TypeParts DEF Base, InsideType
<1>12. Busy'
  <2>1. \A q \in Process \ {p} : item'[q] = item[q]
    BY <1>1, TypeParts DEF Base, InsideType, Gone
  <2> QED  BY <1>1, <1>9, <1>11, <2>1, StillBusy DEF PCs, Gone
<1>13. Pointed'
  <2>1. ASSUME NEW q \in Process, NEW s \in Store, pc'[q] # "off"
        PROVE  /\ st'[q][s] # None /\ st'[q][s].dest = points'[s]
               /\ disk'[s] = loaded'[q][s] \/ (disk'[s] # None /\ disk'[s].dest = points'[s])
    <3>1. q # p /\ pc[q] # "off" /\ points' = points
      BY <1>1, <1>10, <1>11, <2>1 DEF Gone
    <3>2. st'[q] = st[q] /\ loaded'[q] = loaded[q]
      BY <1>1, <3>1, TypeParts DEF Base, Files, Gone, Forgotten
    <3> QED  BY <1>4, <3>1, <3>2 DEF Base, Pointed
  <2> QED  BY <2>1 DEF Pointed
<1> QED  BY <1>5, <1>6, <1>7, <1>8, <1>10, <1>12, <1>13, BaseNext

LEMMA StepBase == Base /\ [Next]_vars => Base'
<1> SUFFICES ASSUME Base, [Next]_vars PROVE Base'
  OBVIOUS
<1>1. CASE Move
  BY <1>1, MoveBase
<1>2. ASSUME NEW p \in Process, Run(p) PROVE Base'
  BY <1>2, OpenBase, TakeLockBase, OweBase, TouchBase, SettleBase, QuietBase, OpenRefillBase, WalkUnitBase,
     WalkEndsBase, PaidBase, PurgeBase, FinishBase, GoneBase DEF Run
<1>3. CASE UNCHANGED vars
  <2>1. UNCHANGED <<disk, back, old, copies, letGo, ck, points, lock, pc, st, loaded, chosen, item, ours, before,
                    answer, paid, ended, gaps, starts, mishaps, moves>>
    BY <1>3 DEF vars, lasting, stores, inside, marks, bounds
  <2>2. Files' /\ StoresType' /\ MarksType' /\ BoundsType' /\ InsideType'
    BY <2>1, TypeParts DEF Base, Files, StoresType, MarksType, BoundsType, InsideType
  <2>3. LockHeld' /\ Busy' /\ Pointed'
    BY <2>1 DEF Base, LockHeld, Busy, Pointed
  <2> QED  BY <2>2, <2>3, BaseNext
<1> QED  BY <1>1, <1>2, <1>3 DEF Next

\* The types, that the holder of the lock alone works on the stores, and that
\* the records of a process under way point where the configuration does.
THEOREM AlwaysBase == Spec => []Base
BY InitBase, StepBase, PTL DEF Spec

\* The variables keep their types, whatever the processes do.
THEOREM AlwaysTyped == Spec => []TypeOK
<1>1. Base => TypeOK
  BY DEF Base
<1> QED  BY <1>1, AlwaysBase, PTL

-----------------------------------------------------------------------------
(* What a save leaves of what the others recorded.                         *)

\* A save of p that succeeds or fails, the failed one that keeps an item's
\* record, and the last one of a process that is gone.
Saving(p, mine) ==
    \/ Save(p, mine)
    \/ /\ UNCHANGED <<loaded, disk>>
       /\ \E s \in Store : st' = [st EXCEPT ![p] = [Merged(p, mine) EXCEPT ![s] = st[p][s]]]
    \/ /\ st' = [st EXCEPT ![p] = NoRecords] /\ loaded' = [loaded EXCEPT ![p] = NoRecords]
       /\ disk' = disk \/ disk' = Merged(p, mine)

\* Saving, store by store.
LEMMA SavingForms ==
    ASSUME Base, NEW p \in Process, NEW mine, Ready(p, mine), Saving(p, mine)
    PROVE  /\ \A q \in Process \ {p} : st'[q] = st[q] /\ loaded'[q] = loaded[q]
           /\ \A s \in Store :
                \/ /\ st'[p][s] = None /\ loaded'[p][s] = None
                   /\ disk'[s] \in {disk[s], Merged(p, mine)[s]}
                \/ /\ loaded'[p][s] = loaded[p][s] /\ disk'[s] = disk[s]
                   /\ st'[p][s] \in {st[p][s], Merged(p, mine)[s]}
                \/ /\ loaded'[p][s] = Merged(p, mine)[s] /\ disk'[s] = Merged(p, mine)[s]
                   /\ st'[p][s] = Merged(p, mine)[s]
<1> DEFINE merged == Merged(p, mine)
<1>1. merged \in [Store -> Record] /\ st \in [Process -> [Store -> MaybeRecord]]
      /\ loaded \in [Process -> [Store -> MaybeRecord]]
  BY MergedSound, TypeParts DEF Base, Ready, Files
<1> HIDE DEF merged
<1>2. CASE Saved(p, mine)
  <2>1. st' = [st EXCEPT ![p] = merged] /\ loaded' = [loaded EXCEPT ![p] = merged] /\ disk' = merged
    BY <1>2 DEF Saved, merged
  <2> QED  BY <1>1, <2>1 DEF merged
<1>3. CASE NotSaved(p, mine)
  <2>1. st' = [st EXCEPT ![p] = merged] /\ UNCHANGED <<loaded, disk>>
    BY <1>3 DEF NotSaved, merged
  <2> QED  BY <1>1, <2>1 DEF merged
<1>4. ASSUME NEW t \in Store, st' = [st EXCEPT ![p] = [merged EXCEPT ![t] = st[p][t]]], UNCHANGED <<loaded, disk>>
      PROVE  /\ \A q \in Process \ {p} : st'[q] = st[q] /\ loaded'[q] = loaded[q]
             /\ \A s \in Store : /\ loaded'[p][s] = loaded[p][s] /\ disk'[s] = disk[s]
                                 /\ st'[p][s] \in {st[p][s], merged[s]}
  <2> DEFINE mixed == [merged EXCEPT ![t] = st[p][t]]
  <2>1. \A s \in Store : mixed[s] \in {st[p][s], merged[s]}
    BY <1>1
  <2>2. st' = [st EXCEPT ![p] = mixed]
    BY <1>4
  <2> HIDE DEF mixed
  <2>3. st'[p] = mixed /\ \A q \in Process \ {p} : st'[q] = st[q]
    BY <1>1, <2>2
  <2> QED  BY <1>4, <2>1, <2>3
<1>5. CASE /\ st' = [st EXCEPT ![p] = NoRecords] /\ loaded' = [loaded EXCEPT ![p] = NoRecords]
           /\ disk' = disk \/ disk' = merged
  <2>1. st'[p] = NoRecords /\ loaded'[p] = NoRecords
        /\ \A q \in Process \ {p} : st'[q] = st[q] /\ loaded'[q] = loaded[q]
    BY <1>1, <1>5
  <2>2. \A s \in Store : NoRecords[s] = None
    BY DEF NoRecords
  <2> QED  BY <1>5, <2>1, <2>2 DEF merged
<1> QED  BY <1>2, <1>3, <1>4, <1>5 DEF Saving, Save, merged

\* Every copy of the records reaches back as far as it owes.
FilesReach == /\ \A s \in Store : RecordReaches(disk[s])
              /\ \A q \in Process, s \in Store : RecordReaches(st[q][s]) /\ RecordReaches(loaded[q][s])

LEMMA SavingReaches ==
    ASSUME Base, FilesReach, NEW p \in Process, NEW mine, Ready(p, mine), Saving(p, mine),
           \A s \in Store : RecordReaches(mine[s])
    PROVE  FilesReach'
<1>1. \A s \in Store : RecordReaches(Merged(p, mine)[s])
  BY MergedSound DEF Base, FilesReach
<1>2. RecordReaches(None)
  BY DEF RecordReaches
<1>3. ASSUME NEW s \in Store PROVE RecordReaches(disk'[s])
  BY <1>1, SavingForms DEF FilesReach
<1>4. ASSUME NEW q \in Process, NEW s \in Store PROVE RecordReaches(st'[q][s]) /\ RecordReaches(loaded'[q][s])
  <2>1. CASE q = p
    BY <1>1, <1>2, <2>1, SavingForms DEF FilesReach
  <2>2. CASE q # p
    BY <2>2, SavingForms DEF FilesReach
  <2> QED  BY <2>1, <2>2
<1>5. \A q \in Process, s \in Store : RecordReaches(st'[q][s]) /\ RecordReaches(loaded'[q][s])
  BY <1>4
<1> QED  BY <1>3, <1>5 DEF FilesReach, RecordReaches, FormerReaches, Reaches, MigsOf

\* Of what the processes have read, in l, their records, in t, and the state
\* file, in k, lack no more than the copies in C and the debts in M.
Within(l, t, k, C, M) == \A q \in Process, s \in Store, d \in Dest :
    /\ NamedAt(l[q][s], d) \ NamedAt(t[q][s], d) \subseteq C[<<s, d>>]
    /\ NamedAt(l[q][s], d) \ NamedAt(k[s], d) \subseteq C[<<s, d>>]
    /\ Debts(l[q][s], d) \ Debts(t[q][s], d) \subseteq M[<<s, d>>]
    /\ Debts(l[q][s], d) \ Debts(k[s], d) \subseteq M[<<s, d>>]

LEMMA SavingWithin ==
    ASSUME Base, NEW C, NEW M, Within(loaded, st, disk, C, M),
           NEW p \in Process, NEW mine, Ready(p, mine), Saving(p, mine),
           \A s \in Store, d \in Dest : /\ NamedAt(st[p][s], d) \ NamedAt(mine[s], d) \subseteq C[<<s, d>>]
                                        /\ Debts(st[p][s], d) \ Debts(mine[s], d) \subseteq M[<<s, d>>]
    PROVE  /\ Within(loaded', st', disk', C, M)
           /\ \A s \in Store, d \in Dest : /\ NamedAt(disk[s], d) \ NamedAt(disk'[s], d) \subseteq C[<<s, d>>]
                                           /\ Debts(disk[s], d) \ Debts(disk'[s], d) \subseteq M[<<s, d>>]
<1> DEFINE merged == Merged(p, mine)
<1>1. ASSUME NEW s \in Store, NEW d \in Dest
      PROVE  /\ NamedAt(loaded[p][s], d) \ NamedAt(merged[s], d) \subseteq C[<<s, d>>]
             /\ NamedAt(disk[s], d) \ NamedAt(merged[s], d) \subseteq C[<<s, d>>]
             /\ Debts(loaded[p][s], d) \ Debts(merged[s], d) \subseteq M[<<s, d>>]
             /\ Debts(disk[s], d) \ Debts(merged[s], d) \subseteq M[<<s, d>>]
  <2>1. /\ Kept(Debts(loaded[p][s], d), Debts(mine[s], d), Debts(disk[s], d), Debts(merged[s], d))
        /\ Kept(NamedAt(loaded[p][s], d), NamedAt(mine[s], d), NamedAt(disk[s], d), NamedAt(merged[s], d))
    BY MergedSound DEF Base
  <2>2. /\ NamedAt(loaded[p][s], d) \ NamedAt(st[p][s], d) \subseteq C[<<s, d>>]
        /\ NamedAt(loaded[p][s], d) \ NamedAt(disk[s], d) \subseteq C[<<s, d>>]
        /\ Debts(loaded[p][s], d) \ Debts(st[p][s], d) \subseteq M[<<s, d>>]
        /\ Debts(loaded[p][s], d) \ Debts(disk[s], d) \subseteq M[<<s, d>>]
    BY DEF Within
  <2> HIDE DEF merged
  <2>3. /\ NamedAt(loaded[p][s], d) \ NamedAt(merged[s], d) \subseteq C[<<s, d>>]
        /\ NamedAt(disk[s], d) \ NamedAt(merged[s], d) \subseteq C[<<s, d>>]
    BY <2>1, <2>2 DEF Kept
  <2>4. /\ Debts(loaded[p][s], d) \ Debts(merged[s], d) \subseteq M[<<s, d>>]
        /\ Debts(disk[s], d) \ Debts(merged[s], d) \subseteq M[<<s, d>>]
    BY <2>1, <2>2 DEF Kept
  <2> QED  BY <2>3, <2>4
<1>2. \A d \in Dest : NamedAt(None, d) = {} /\ Debts(None, d) = {}
  BY DEF NamedAt, Debts, OwedAt, MigsOf
<1>3. /\ \A q \in Process \ {p} : st'[q] = st[q] /\ loaded'[q] = loaded[q]
      /\ \A s \in Store :
           \/ /\ st'[p][s] = None /\ loaded'[p][s] = None /\ disk'[s] \in {disk[s], merged[s]}
           \/ /\ loaded'[p][s] = loaded[p][s] /\ disk'[s] = disk[s] /\ st'[p][s] \in {st[p][s], merged[s]}
           \/ /\ loaded'[p][s] = merged[s] /\ disk'[s] = merged[s] /\ st'[p][s] = merged[s]
  BY SavingForms
<1> HIDE DEF merged
<1>4. ASSUME NEW s \in Store, NEW d \in Dest
      PROVE  /\ NamedAt(disk[s], d) \ NamedAt(disk'[s], d) \subseteq C[<<s, d>>]
             /\ Debts(disk[s], d) \ Debts(disk'[s], d) \subseteq M[<<s, d>>]
  <2>1. disk'[s] = disk[s] \/ disk'[s] = merged[s]
    BY <1>3
  <2> QED  BY <1>1, <2>1
<1>5. ASSUME NEW q \in Process, NEW s \in Store, NEW d \in Dest
      PROVE  /\ NamedAt(loaded'[q][s], d) \ NamedAt(st'[q][s], d) \subseteq C[<<s, d>>]
             /\ NamedAt(loaded'[q][s], d) \ NamedAt(disk'[s], d) \subseteq C[<<s, d>>]
             /\ Debts(loaded'[q][s], d) \ Debts(st'[q][s], d) \subseteq M[<<s, d>>]
             /\ Debts(loaded'[q][s], d) \ Debts(disk'[s], d) \subseteq M[<<s, d>>]
  <2>1. /\ NamedAt(loaded[q][s], d) \ NamedAt(st[q][s], d) \subseteq C[<<s, d>>]
        /\ NamedAt(loaded[q][s], d) \ NamedAt(disk[s], d) \subseteq C[<<s, d>>]
        /\ Debts(loaded[q][s], d) \ Debts(st[q][s], d) \subseteq M[<<s, d>>]
        /\ Debts(loaded[q][s], d) \ Debts(disk[s], d) \subseteq M[<<s, d>>]
    BY DEF Within
  <2>2. CASE q # p
    BY <1>3, <1>4, <2>1, <2>2
  <2>3. CASE q = p /\ st'[p][s] = None /\ loaded'[p][s] = None
    BY <1>2, <2>3
  <2>4. CASE q = p /\ loaded'[p][s] = loaded[p][s] /\ disk'[s] = disk[s] /\ st'[p][s] \in {st[p][s], merged[s]}
    BY <1>1, <2>1, <2>4
  <2>5. CASE q = p /\ loaded'[p][s] = merged[s] /\ disk'[s] = merged[s] /\ st'[p][s] = merged[s]
    BY <2>5
  <2> QED  BY <1>3, <2>2, <2>3, <2>4, <2>5
<1> QED  BY <1>4, <1>5 DEF Within

\* A process that reads the file lacks nothing of it.
LEMMA OpenedWithin ==
    ASSUME Base, NEW C, NEW M, Within(loaded, st, disk, C, M), NEW p \in Process, Opened(p), UNCHANGED disk
    PROVE  Within(loaded', st', disk', C, M)
<1>1. /\ st' = [st EXCEPT ![p] = OpenedRecords(p)] /\ loaded' = [loaded EXCEPT ![p] = disk]
      /\ \A s \in Store, d \in Dest : /\ Debts(disk[s], d) \subseteq Debts(OpenedRecords(p)[s], d)
                                      /\ NamedAt(disk[s], d) \subseteq NamedAt(OpenedRecords(p)[s], d)
  BY OpenedSound DEF Base
<1>2. /\ st'[p] = OpenedRecords(p) /\ loaded'[p] = disk
      /\ \A q \in Process \ {p} : st'[q] = st[q] /\ loaded'[q] = loaded[q]
  BY <1>1, TypeParts DEF Base, Files
<1>3. ASSUME NEW q \in Process, NEW s \in Store, NEW d \in Dest
      PROVE  /\ NamedAt(loaded'[q][s], d) \ NamedAt(st'[q][s], d) \subseteq C[<<s, d>>]
             /\ NamedAt(loaded'[q][s], d) \ NamedAt(disk'[s], d) \subseteq C[<<s, d>>]
             /\ Debts(loaded'[q][s], d) \ Debts(st'[q][s], d) \subseteq M[<<s, d>>]
             /\ Debts(loaded'[q][s], d) \ Debts(disk'[s], d) \subseteq M[<<s, d>>]
  <2>1. CASE q = p
    BY <1>1, <1>2, <2>1
  <2>2. CASE q # p
    BY <1>2, <2>2 DEF Within
  <2> QED  BY <2>1, <2>2
<1> QED  BY <1>3 DEF Within

LEMMA WithinMore ==
    ASSUME NEW l, NEW t, NEW k, NEW C, NEW M, NEW C2, NEW M2, Within(l, t, k, C, M),
           \A s \in Store, d \in Dest : C[<<s, d>>] \subseteq C2[<<s, d>>] /\ M[<<s, d>>] \subseteq M2[<<s, d>>]
    PROVE  Within(l, t, k, C2, M2)
BY DEF Within

-----------------------------------------------------------------------------
(* What is owed is owed as far back as it went.                            *)

\* Each save, by what it saves.
LEMMA OweSaves ==
    ASSUME Base, NEW p \in Process, NEW i \in Item, pc[p] = "apply",
           \/ Saved(p, Owing(p, i)) /\ Fine
           \/ /\ st' = [st EXCEPT ![p] = IF KeptByMerge(p, i.store, Owing(p, i))
                                         THEN [Merged(p, Owing(p, i)) EXCEPT ![i.store] = st[p][i.store]]
                                         ELSE Merged(p, Owing(p, i))]
              /\ UNCHANGED <<loaded, disk>> /\ Mishap
    PROVE  Ready(p, Owing(p, i)) /\ Saving(p, Owing(p, i))
<1>1. i.store \in Store /\ Ready(p, Owing(p, i))
  BY OwingReady
<1>2. CASE Saved(p, Owing(p, i)) /\ Fine
  BY <1>1, <1>2 DEF Saving, Save
<1>3. CASE /\ st' = [st EXCEPT ![p] = IF KeptByMerge(p, i.store, Owing(p, i))
                                      THEN [Merged(p, Owing(p, i)) EXCEPT ![i.store] = st[p][i.store]]
                                      ELSE Merged(p, Owing(p, i))]
           /\ UNCHANGED <<loaded, disk>> /\ Mishap
  <2>1. CASE KeptByMerge(p, i.store, Owing(p, i))
    BY <1>1, <1>3, <2>1 DEF Saving
  <2>2. CASE ~KeptByMerge(p, i.store, Owing(p, i))
    BY <1>1, <1>3, <2>2 DEF Saving, Save, NotSaved
  <2> QED  BY <2>1, <2>2
<1> QED  BY <1>2, <1>3

LEMMA GoneSaves ==
    ASSUME Base, NEW p \in Process, End(p) \/ Stop(p) \/ Crash(p)
    PROVE  Ready(p, st[p]) /\ Saving(p, st[p])
<1>1. pc[p] # "off" /\ Gone(p) /\ Forgotten(p) /\ (disk' = disk \/ disk' = Merged(p, st[p]))
  BY GoneStep
<1> QED  BY <1>1, RunningIsReady DEF Base, Saving, Gone, Forgotten

BeforeReach == \A q \in Process : Reaches(before[q])
ChosenReach == \A q \in Process : \A i \in chosen[q] : i.since <= Oldest[i.mig]
InTime == FilesReach /\ BeforeReach /\ ChosenReach

\* Where the old shape is, no row is gone.
OldIsWhole == \A at \in Place : \A m \in old[at] : \A r \in Repo : back[at][<<m, r>>] = Oldest[m]

\* An item chosen reaches back to the oldest row: a store is asked while it
\* has all of them, and one that cannot say is read back without a bound.
LEMMA ChosenInTime ==
    ASSUME Base, OldIsWhole, NEW p \in Process, NEW recs, NEW i \in Chosen(p, recs)
    PROVE  i.since <= Oldest[i.mig]
<1>1. /\ i \in Item /\ i.store \in Store /\ i.mig \in Migration
      /\ Pending(p, recs, i.store, i.mig) /\ i.since = Since(i.store, i.mig)
  BY DEF Chosen, Item
<1>2. Oldest[i.mig] \in Nat
  BY <1>1, ProcessAssumption, NoneApart
<1> DEFINE at == <<i.store, points[i.store]>>
<1>3. at \in Place
  BY <1>1, TypeParts DEF Base, StoresType, Place
<1>4. CASE i.store \notin Asked
  BY <1>1, <1>2, <1>4 DEF Since
<1>5. CASE i.store \in Asked
  <2>1. i.mig \in old[at]
    BY <1>1, <1>5 DEF Pending
  <2>2. \A r \in Repo : back[at][<<i.mig, r>>] = Oldest[i.mig]
    BY <1>3, <2>1 DEF OldIsWhole
  <2>3. {back[at][<<i.mig, r>>] : r \in Repo} = {Oldest[i.mig]}
    BY <2>2, ProcessAssumption
  <2>4. Since(i.store, i.mig) = CHOOSE d \in {back[at][<<i.mig, r>>] : r \in Repo} :
                                    \A r \in Repo : d <= back[at][<<i.mig, r>>]
    BY <1>5 DEF Since
  <2>5. \A r \in Repo : Oldest[i.mig] <= back[at][<<i.mig, r>>]
    BY <1>2, <2>2
  <2> HIDE DEF at
  <2>6. Since(i.store, i.mig) = Oldest[i.mig]
    BY <2>3, <2>4, <2>5
  <2> QED  BY <1>1, <1>2, <2>6
<1> QED  BY <1>4, <1>5

LEMMA FilesReachStep ==
    ASSUME Base, InTime, NEW p \in Process, Run(p)
    PROVE  FilesReach'
<1>1. CASE UNCHANGED <<disk, st, loaded>>
  BY <1>1 DEF InTime, FilesReach
<1>2. CASE StartHolding(p) \/ StartOneShot(p)
  <2>1. Opened(p) /\ UNCHANGED disk
    BY <1>2 DEF StartHolding, StartOneShot, lasting
  <2>2. /\ st'[p] = OpenedRecords(p) /\ loaded'[p] = disk
        /\ \A q \in Process \ {p} : st'[q] = st[q] /\ loaded'[q] = loaded[q]
        /\ \A s \in Store : RecordReaches(disk[s]) => RecordReaches(OpenedRecords(p)[s])
    <3>1. /\ st' = [st EXCEPT ![p] = OpenedRecords(p)] /\ loaded' = [loaded EXCEPT ![p] = disk]
          /\ \A s \in Store : RecordReaches(disk[s]) => RecordReaches(OpenedRecords(p)[s])
      BY <2>1, OpenedSound DEF Base
    <3> QED  BY <3>1, TypeParts DEF Base, Files
  <2>3. \A q \in Process, s \in Store : RecordReaches(st'[q][s]) /\ RecordReaches(loaded'[q][s])
    BY <2>2 DEF InTime, FilesReach
  <2> QED  BY <2>1, <2>3 DEF InTime, FilesReach
<1>3. CASE Owe(p)
  <2>1. PICK i \in chosen[p] : /\ pc[p] = "apply" /\ i \in Item
             /\ \/ Saved(p, Owing(p, i)) /\ Fine
                \/ /\ st' = [st EXCEPT ![p] = IF KeptByMerge(p, i.store, Owing(p, i))
                                              THEN [Merged(p, Owing(p, i)) EXCEPT ![i.store] = st[p][i.store]]
                                              ELSE Merged(p, Owing(p, i))]
                   /\ UNCHANGED <<loaded, disk>> /\ Mishap
    BY <1>3, OweStep
  <2>2. Ready(p, Owing(p, i)) /\ Saving(p, Owing(p, i))
    BY <2>1, OweSaves
  <2>3. i.since <= Oldest[i.mig] /\ \A s \in Store : RecordReaches(st[p][s])
    BY DEF InTime, ChosenReach, FilesReach
  <2>4. \A s \in Store : RecordReaches(Owing(p, i)[s])
    <3>1. pc[p] # "off" /\ i \in Item
      BY <2>1
    <3>2. /\ i.store \in Store /\ \A t \in Store \ {i.store} : Owing(p, i)[t] = st[p][t]
          /\ RecordReaches(st[p][i.store]) /\ i.since <= Oldest[i.mig] => RecordReaches(Owing(p, i)[i.store])
      BY <3>1, OwingReady
    <3> QED  BY <2>3, <3>2
  <2> QED  BY <2>2, <2>4, SavingReaches DEF InTime
<1>4. CASE Settle(p)
  <2>1. pc[p] = "settle" /\ Saving(p, Settling(p))
    BY <1>4, SettleStep DEF Saving
  <2>2. Ready(p, Settling(p)) /\ \A s \in Store : RecordReaches(Settling(p)[s])
    <3>1. \A s \in Store : points[s] \in Dest
      BY TypeParts DEF Base, StoresType
    <3> QED  BY <2>1, <3>1, SettlingReady DEF InTime, FilesReach, BeforeReach
  <2> QED  BY <2>1, <2>2, SavingReaches DEF InTime
<1>5. CASE Paid(p)
  <2>1. pc[p] = "paid" /\ Saving(p, Paying(p))
    BY <1>5, PaidStep DEF Saving
  <2>2. Ready(p, Paying(p)) /\ \A s \in Store : RecordReaches(Paying(p)[s])
    <3>1. \A s \in Store : points[s] \in Dest
      BY TypeParts DEF Base, StoresType
    <3> QED  BY <2>1, <3>1, PayingReady DEF InTime, FilesReach
  <2> QED  BY <2>1, <2>2, SavingReaches DEF InTime
<1>6. CASE Purge(p)
  <2>1. PICK s \in Store, c \in Copy : pc[p] = "sweep" /\ Save(p, Purging(p, s, c))
    BY <1>6, PurgeStep
  <2>2. Ready(p, Purging(p, s, c)) /\ \A t \in Store : RecordReaches(Purging(p, s, c)[t])
    <3>1. \A t \in Store : points[t] \in Dest
      BY TypeParts DEF Base, StoresType
    <3> QED  BY <2>1, <3>1, PurgingReady DEF InTime, FilesReach
  <2>3. Saving(p, Purging(p, s, c))
    BY <2>1 DEF Saving
  <2> QED  BY <2>2, <2>3, SavingReaches DEF InTime
<1>7. CASE Finish(p)
  <2>1. Ready(p, st[p]) /\ Saving(p, st[p])
    BY <1>7, RunningIsReady DEF Base, Finish, Saving
  <2> QED  BY <2>1, SavingReaches DEF InTime, FilesReach
<1>8. CASE End(p) \/ Stop(p) \/ Crash(p)
  <2>1. Ready(p, st[p]) /\ Saving(p, st[p])
    BY <1>8, GoneSaves
  <2> QED  BY <2>1, SavingReaches DEF InTime, FilesReach
<1>9. CASE \/ TakeLock(p) \/ Clear(p) \/ OnlyCopy(p) \/ NotCleared(p) \/ NothingOwed(p) \/ OpenRefill(p)
           \/ WalkUnit(p) \/ WalkStops(p) \/ WalkEnds(p)
  <2>1. UNCHANGED <<disk, st, loaded>>
    BY <1>9 DEF TakeLock, Clear, OnlyCopy, NotCleared, Answered, NothingOwed, OpenRefill, WalkUnit, WalkStops,
                WalkEnds, lasting, inside
  <2> QED  BY <1>1, <2>1
<1> QED  BY <1>2, <1>3, <1>4, <1>5, <1>6, <1>7, <1>8, <1>9 DEF Run

LEMMA BeforeReachStep ==
    ASSUME Base, InTime, NEW p \in Process, Run(p)
    PROVE  BeforeReach'
<1>1. \/ UNCHANGED before
      \/ before' = [before EXCEPT ![p] = None]
      \/ \E s \in Store : pc[p] = "apply" /\ before' = [before EXCEPT ![p] = st[p][s].own.refill]
  <2>1. Owe(p) => \E s \in Store : pc[p] = "apply" /\ before' = [before EXCEPT ![p] = st[p][s].own.refill]
    BY OweStep, SMTT(30) DEF Item
  <2>2. ~Owe(p) => UNCHANGED before \/ before' = [before EXCEPT ![p] = None]
    BY DEF Run, StartHolding, StartOneShot, TakeLock, Clear, OnlyCopy, NotCleared, Answered, Settle, NothingOwed,
           OpenRefill, WalkUnit, WalkStops, WalkEnds, Paid, Purge, Finish, End, Stop, Crash, Gone, inside
  <2> QED  BY <2>1, <2>2
<1>2. \A s \in Store : pc[p] = "apply" => Reaches(st[p][s].own.refill)
  <2>1. pc[p] = "apply" => Ready(p, st[p])
    BY RunningIsReady DEF Base
  <2> QED  BY <2>1, NoneApart DEF InTime, FilesReach, Ready, Record, RecordReaches, FormerReaches
<1>3. Reaches(None)
  BY DEF Reaches, MigsOf
<1>4. before \in [Process -> MaybeRefill]
  BY TypeParts DEF Base, InsideType
<1>5. ASSUME NEW q \in Process PROVE Reaches(before'[q])
  BY <1>1, <1>2, <1>3, <1>4 DEF InTime, BeforeReach
<1>6. \A q \in Process : Reaches(before'[q])
  BY <1>5
<1> QED  BY <1>6 DEF BeforeReach, Reaches, MigsOf

LEMMA ChosenReachStep ==
    ASSUME Base, InTime, OldIsWhole, NEW p \in Process, Run(p)
    PROVE  ChosenReach'
<1>1. \/ UNCHANGED chosen
      \/ \E c \in SUBSET chosen[p] : chosen' = [chosen EXCEPT ![p] = c]
      \/ \E recs : chosen' = [chosen EXCEPT ![p] = Chosen(p, recs)]
  <2>1. StartHolding(p) \/ StartOneShot(p) => \E recs : chosen' = [chosen EXCEPT ![p] = Chosen(p, recs)]
    BY DEF StartHolding, StartOneShot, Opened
  <2>2. Owe(p) => \E c \in SUBSET chosen[p] : chosen' = [chosen EXCEPT ![p] = c]
    <3>1. ASSUME Owe(p) PROVE \E i \in chosen[p] : chosen' = [chosen EXCEPT ![p] = chosen[p] \ {i}]
      BY <3>1, OweStep
    <3> QED  BY <3>1
  <2>3. End(p) \/ Stop(p) \/ Crash(p) => \E c \in SUBSET chosen[p] : chosen' = [chosen EXCEPT ![p] = c]
    BY DEF End, Stop, Crash, Gone
  <2>4. \/ TakeLock(p) \/ Clear(p) \/ OnlyCopy(p) \/ NotCleared(p) \/ Settle(p) \/ NothingOwed(p) \/ OpenRefill(p)
        \/ WalkUnit(p) \/ WalkStops(p) \/ WalkEnds(p) \/ Paid(p) \/ Purge(p) \/ Finish(p)
        => UNCHANGED chosen
    BY DEF TakeLock, Clear, OnlyCopy, NotCleared, Answered, Settle, NothingOwed, OpenRefill, WalkUnit, WalkStops,
           WalkEnds, Paid, Purge, Finish, inside
  <2> QED  BY <2>1, <2>2, <2>3, <2>4 DEF Run
<1>2. chosen \in [Process -> SUBSET Item]
  BY TypeParts DEF Base, InsideType
<1>3. \A recs : \A i \in Chosen(p, recs) : i.since <= Oldest[i.mig]
  BY ChosenInTime
<1>4. ASSUME NEW q \in Process, NEW i \in chosen'[q] PROVE i.since <= Oldest[i.mig]
  <2>1. \A j \in chosen[q] : j.since <= Oldest[j.mig]
    BY DEF InTime, ChosenReach
  <2> QED  BY <1>1, <1>2, <1>3, <1>4, <2>1
<1> QED  BY <1>4 DEF ChosenReach

LEMMA OldIsWholeStep ==
    ASSUME Base, OldIsWhole, NEW p \in Process, Run(p)
    PROVE  OldIsWhole'
<1>1. CASE Clear(p)
  <2>1. /\ pc[p] = "touch"
        /\ back' = [back EXCEPT ![Here(p)] = [u \in Unit |-> IF u[1] = item[p].mig THEN Today ELSE back[Here(p)][u]]]
        /\ old'  = [old EXCEPT ![Here(p)] = old[Here(p)] \ {item[p].mig}]
    BY <1>1 DEF Clear
  <2>2. Here(p) \in Place /\ back \in [Place -> [Unit -> 1..Today]] /\ old \in [Place -> SUBSET Migration]
    BY <2>1, HereType, TypeParts DEF Base, StoresType
  <2>3. ASSUME NEW at \in Place, NEW m \in old'[at], NEW r \in Repo PROVE back'[at][<<m, r>>] = Oldest[m]
    <3>1. m \in old[at] /\ m \in Migration /\ (at = Here(p) => m # item[p].mig) /\ <<m, r>> \in Unit
      BY <2>1, <2>2, <2>3 DEF Unit
    <3>2. back[at][<<m, r>>] = Oldest[m]
      BY <3>1 DEF OldIsWhole
    <3>3. CASE at = Here(p)
      <4>1. back'[at] = [u \in Unit |-> IF u[1] = item[p].mig THEN Today ELSE back[at][u]]
        BY <2>1, <2>2, <3>3
      <4> QED  BY <3>1, <3>2, <3>3, <4>1
    <3>4. CASE at # Here(p)
      BY <2>1, <2>2, <3>2, <3>4
    <3> QED  BY <3>3, <3>4
  <2> QED  BY <2>3 DEF OldIsWhole
<1>2. CASE WalkUnit(p)
  <2>1. PICK u \in UnitsOf(ck.walk) \ ck.done :
          /\ pc[p] = "walk" /\ UNCHANGED old
          /\ back' = [at \in Place |->
                         IF at[2] = points[at[1]] /\ u[1] \in ck.walk.keep[at[1]]
                         THEN [back[at] EXCEPT ![u] = Written(u, @)] ELSE back[at]]
    BY <1>2 DEF WalkUnit
  <2>2. ck \in Ck /\ u \in Unit
    BY <2>1, TypeParts DEF Base, Busy, StoresType, UnitsOf
  <2>3. ck.walk.since \in Nat /\ u[1] \in Migration /\ Oldest[u[1]] \in Nat
    BY <2>2, ProcessAssumption, NoneApart DEF Ck, Walk, Day, Unit
  <2>4. Written(u, Oldest[u[1]]) = Oldest[u[1]]
    BY <2>3 DEF Written
  <2>5. ASSUME NEW at \in Place, NEW m \in old'[at], NEW r \in Repo PROVE back'[at][<<m, r>>] = Oldest[m]
    <3>1. m \in Migration /\ <<m, r>> \in Unit /\ back[at] \in [Unit -> 1..Today]
      BY <2>1, <2>5, TypeParts DEF Base, StoresType, Unit
    <3>2. back[at][<<m, r>>] = Oldest[m]
      BY <2>1, <2>5 DEF OldIsWhole
    <3>3. back'[at] \in {back[at], [back[at] EXCEPT ![u] = Written(u, back[at][u])]}
      BY <2>1
    <3>4. CASE u = <<m, r>>
      BY <2>2, <2>4, <3>1, <3>2, <3>3, <3>4
    <3>5. CASE u # <<m, r>>
      BY <3>1, <3>2, <3>3, <3>5
    <3> QED  BY <3>4, <3>5
  <2> QED  BY <2>5 DEF OldIsWhole
<1>3. CASE ~Clear(p) /\ ~WalkUnit(p)
  <2>1. UNCHANGED <<back, old>>
    BY <1>3 DEF Run, StartHolding, StartOneShot, TakeLock, Owe, OnlyCopy, NotCleared, Answered, Settle, NothingOwed,
           OpenRefill, WalkStops, WalkEnds, Paid, Purge, Finish, End, Stop, Crash, Gone, lasting, stores
  <2> QED  BY <2>1 DEF OldIsWhole
<1> QED  BY <1>1, <1>2, <1>3

-----------------------------------------------------------------------------
(* The inductive invariant of what is owed.                                *)

\* The debts of a place that are over, or that the code is known to lose.
Over(at) == {m \in Migration : <<at, m>> \in ended \cup gaps}

\* What a process has dropped, or the state file has since it read it, was
\* let go of or is over.
Drops == Within(loaded, st, disk, letGo, [at \in Place |-> Over(at)])

EndedIsBack == \A at \in Place, m \in Migration : <<at, m>> \in ended \ gaps => ~Missing(at, m)

Lost(p) == <<Here(p), item[p].mig>> \in gaps

\* The debt of an item being applied is on disk, and no process will drop it.
Touching ==
    \A p \in Process : pc[p] = "touch" /\ ~Lost(p) =>
        LET s == item[p].store IN
        /\ item[p].mig \in Debts(disk[s], points[s])
        /\ \A q \in Process : item[p].mig \notin Debts(loaded[q][s], points[s]) \ Debts(st[q][s], points[s])

\* A debt that may be taken back is of a store that lacks nothing.
TakenBack ==
    \A p \in Process : pc[p] \in {"touch", "settle"} /\ ours[p] =>
        LET s == item[p].store IN
        /\ Debts(st[p][s], points[s]) \subseteq MigsOf(before[p]) \cup {item[p].mig}
        /\ (pc[p] = "settle" => answer[p].said = "untouched") /\ item[p].mig \notin MigsOf(before[p]) /\ ~Lost(p)
              => ~Missing(Here(p), item[p].mig)

\* A walk is of all that is owed, and claims no place it has not written to.
Walking ==
    \A p \in Process : pc[p] = "walk" =>
        /\ ck.walk = WalkOf(st[p]) /\ Owed(st[p])
        /\ \A s \in Store : /\ points[s] \in ck.at[s]
                            /\ ck.at[s] # {points[s]} => ck.walk.keep[s] \subseteq Over(<<s, points[s]>>)

\* What the checkpoint says is done is back, where all its runs wrote.
WalkedIsBack ==
    ck # None => \A s \in Store :
        /\ ck.at[s] # {}
        /\ \A u \in ck.done, d \in Dest :
              ck.at[s] = {d} /\ u[1] \in ck.walk.keep[s] /\ <<<<s, d>>, u[1]>> \notin gaps
                  => back[<<s, d>>][u] <= Oldest[u[1]]

\* What a process is about to strike out is over.
AllPaid == \A p \in Process, s \in Store :
    pc[p] = "paid" => Debts(st[p][s], points[s]) \subseteq Over(<<s, points[s]>>)

Inv == /\ Base /\ InTime /\ OldIsWhole /\ Drops /\ EndedIsBack /\ Touching /\ TakenBack /\ Walking
       /\ WalkedIsBack /\ AllPaid /\ MissingIsOwed

\* What is missing, and not among the gaps, is owed on disk: as far back as
\* it should, by InTime.
LEMMA OwedReaches ==
    ASSUME NEW r \in MaybeRecord, NEW d \in Dest, RecordReaches(r), NEW m \in Debts(r, d)
    PROVE  OwedAt(r, d).since <= Oldest[m]
<1>1. OwedAt(r, d) # None /\ r # None /\ m \in MigsOf(OwedAt(r, d))
  BY DEF Debts, OwedAt, MigsOf
<1>2. CASE r.dest = d
  <2>1. OwedAt(r, d) = r.own.refill /\ r.own # None
    BY <1>1, <1>2, NoneApart DEF OwedAt, MaybeRecord, Record
  <2> QED  BY <1>1, <2>1 DEF RecordReaches, FormerReaches, Reaches
<1>3. CASE r.dest # d
  <2>1. r.former[d] # None /\ OwedAt(r, d) = r.former[d].refill
    BY <1>1, <1>3 DEF OwedAt
  <2> QED  BY <1>1, <2>1 DEF RecordReaches, FormerReaches, Reaches
<1> QED  BY <1>2, <1>3

MissingOwed == \A s \in Store, d \in Dest, m \in Migration :
    Missing(<<s, d>>, m) /\ <<<<s, d>>, m>> \notin gaps => m \in Debts(disk[s], d)

LEMMA MissingIs == Base /\ FilesReach => (MissingIsOwed <=> MissingOwed)
BY OwedReaches, TypeParts DEF Base, Files, FilesReach, MissingIsOwed, MissingOwed, Debts

\* Only one process works at a time.
LEMMA OneWorks ==
    ASSUME Base, NEW p \in Process, NEW q \in Process, p # q, pc[p] \in Working
    PROVE  pc[q] \notin Working
BY DEF Base, LockHeld

\* What a step leaves of the other processes, and where debts end.
LEMMA StepFrame ==
    ASSUME Base, NEW p \in Process, Run(p)
    PROVE  /\ \A q \in Process \ {p} :
                  /\ pc'[q] = pc[q] /\ item'[q] = item[q] /\ st'[q] = st[q] /\ ours'[q] = ours[q]
                  /\ before'[q] = before[q] /\ answer'[q] = answer[q]
           /\ points' = points /\ gaps \subseteq gaps'
           /\ ~Clear(p) => ended \subseteq ended'
<1>1. /\ \E x : pc' = [pc EXCEPT ![p] = x]
      /\ \E x : item' = [item EXCEPT ![p] = x]
      /\ \E x : st' = [st EXCEPT ![p] = x]
      /\ \E x : ours' = [ours EXCEPT ![p] = x]
      /\ \E x : before' = [before EXCEPT ![p] = x]
      /\ \E x : answer' = [answer EXCEPT ![p] = x]
      /\ points' = points /\ gaps \subseteq gaps'
      /\ ~Clear(p) => ended \subseteq ended'
  <2>1. /\ pc = [pc EXCEPT ![p] = pc[p]] /\ item = [item EXCEPT ![p] = item[p]] /\ st = [st EXCEPT ![p] = st[p]]
        /\ ours = [ours EXCEPT ![p] = ours[p]] /\ before = [before EXCEPT ![p] = before[p]]
        /\ answer = [answer EXCEPT ![p] = answer[p]]
    BY TypeParts DEF Base, Files, InsideType
  <2>2. CASE StartHolding(p) \/ StartOneShot(p) \/ TakeLock(p)
    BY <2>1, <2>2 DEF StartHolding, StartOneShot, Opened, TakeLock, lasting, inside, marks
  <2>3. CASE Owe(p)
    <3>1. PICK i \in chosen[p] :
            /\ item' = [item EXCEPT ![p] = i]
            /\ before' = [before EXCEPT ![p] = st[p][i.store].own.refill]
            /\ ours' = [ours EXCEPT ![p] = KeptByMerge(p, i.store, Owing(p, i))]
            /\ gaps' = IF OwedOnlyBefore(p, i.store, Owing(p, i)) \/ EndedUnsaved(p, i.store, i.mig)
                       THEN gaps \cup {<<<<i.store, points[i.store]>>, i.mig>>} ELSE gaps
            /\ \/ Saved(p, Owing(p, i)) /\ pc' = [pc EXCEPT ![p] = "touch"]
               \/ \E x : st' = [st EXCEPT ![p] = x] /\ pc' = pc
            /\ UNCHANGED <<stores, ck, points, lock, answer, paid, ended, starts, moves>>
      BY <2>3, OweStep
    <3>2. (\E x : st' = [st EXCEPT ![p] = x]) /\ (\E x : pc' = [pc EXCEPT ![p] = x])
      BY <2>1, <3>1 DEF Saved
    <3>3. gaps \subseteq gaps'
      BY <3>1
    <3> QED  BY <2>1, <3>1, <3>2, <3>3
  <2>4. CASE Clear(p) \/ OnlyCopy(p) \/ NotCleared(p)
    BY <2>1, <2>4 DEF Clear, OnlyCopy, NotCleared, Answered
  <2>5. CASE Settle(p) \/ Paid(p) \/ Purge(p) \/ Finish(p)
    BY <2>1, <2>5 DEF Settle, Paid, Purge, Finish, Save, Saved, NotSaved, ToSweep, marks
  <2>6. CASE NothingOwed(p) \/ OpenRefill(p) \/ WalkUnit(p) \/ WalkStops(p) \/ WalkEnds(p)
    BY <2>1, <2>6 DEF NothingOwed, OpenRefill, WalkUnit, WalkStops, WalkEnds, ToSweep, lasting, inside, marks
  <2>7. CASE End(p) \/ Stop(p) \/ Crash(p)
    BY <2>1, <2>7, GoneStep DEF Gone, Forgotten
  <2> QED  BY <2>2, <2>3, <2>4, <2>5, <2>6, <2>7 DEF Run
<1> QED  BY <1>1, TypeParts DEF Base, Files, InsideType

\* Only a clear takes history away.
LEMMA BackGrows ==
    ASSUME Base, NEW p \in Process, Run(p), ~Clear(p)
    PROVE  /\ \A at \in Place, u \in Unit : back'[at][u] <= back[at][u]
           /\ \A at \in Place, m \in Migration : Missing(at, m)' => Missing(at, m)
<1>1. ASSUME NEW at \in Place, NEW u \in Unit PROVE back'[at][u] <= back[at][u]
  <2>1. back[at][u] \in 1..Today /\ back[at] \in [Unit -> 1..Today]
    BY TypeParts DEF Base, StoresType
  <2>2. CASE WalkUnit(p)
    <3>1. PICK v \in UnitsOf(ck.walk) \ ck.done :
            /\ pc[p] = "walk"
            /\ back' = [x \in Place |->
                           IF x[2] = points[x[1]] /\ v[1] \in ck.walk.keep[x[1]]
                           THEN [back[x] EXCEPT ![v] = Written(v, @)] ELSE back[x]]
      BY <2>2 DEF WalkUnit
    <3>2. back'[at] \in {back[at], [back[at] EXCEPT ![v] = Written(v, back[at][v])]}
      BY <3>1
    <3>3. ck \in Ck /\ v \in Unit
      BY <3>1, TypeParts DEF Base, Busy, StoresType, UnitsOf
    <3>4. ck.walk.since \in Nat /\ Oldest[v[1]] \in Nat
      BY <3>3, ProcessAssumption, NoneApart DEF Ck, Walk, Day, Unit
    <3>5. Written(v, back[at][u]) <= back[at][u]
      BY <2>1, <3>4, NoneApart DEF Written
    <3>6. CASE u = v
      BY <2>1, <3>2, <3>5, <3>6, NoneApart
    <3>7. CASE u # v
      BY <2>1, <3>2, <3>7, NoneApart
    <3> QED  BY <3>6, <3>7
  <2>3. CASE ~WalkUnit(p)
    <3>1. UNCHANGED back
      BY <2>3 DEF Run, StartHolding, StartOneShot, TakeLock, Owe, OnlyCopy, NotCleared, Answered, Settle,
             NothingOwed, OpenRefill, WalkStops, WalkEnds, Paid, Purge, Finish, End, Stop, Crash, Gone, lasting, stores
    <3> QED  BY <2>1, <3>1, NoneApart
  <2> QED  BY <2>2, <2>3
<1>2. ASSUME NEW at \in Place, NEW m \in Migration, NEW r \in Repo, back'[at][<<m, r>>] > Oldest[m]
      PROVE  back[at][<<m, r>>] > Oldest[m]
  <2>1. <<m, r>> \in Unit /\ back[at][<<m, r>>] \in 1..Today /\ Oldest[m] \in Nat
    BY TypeParts, ProcessAssumption, NoneApart DEF Base, StoresType, Unit
  <2>2. back'[at][<<m, r>>] \in 1..Today
    <3>1. Base'
      BY StepBase DEF Next
    <3> QED  BY <2>1, <3>1 DEF Base, TypeOK
  <2> QED  BY <1>1, <1>2, <2>1, <2>2, NoneApart
<1> QED  BY <1>1, <1>2 DEF Missing

\* A copy let go of stays let go of.
LEMMA LetGoGrows ==
    ASSUME Base, NEW p \in Process, Run(p)
    PROVE  \A at \in Place : letGo[at] \subseteq letGo'[at]
<1>1. CASE Purge(p)
  <2>1. PICK s \in Store, c \in Copy : letGo' = [letGo EXCEPT ![<<s, points[s]>>] = @ \cup {c}]
    BY <1>1, PurgeStep
  <2> QED  BY <2>1, TypeParts DEF Base, StoresType
<1>2. CASE ~Purge(p)
  <2>1. UNCHANGED letGo
    BY <1>2 DEF Run, StartHolding, StartOneShot, TakeLock, Owe, Clear, OnlyCopy, NotCleared, Answered, Settle,
           NothingOwed, OpenRefill, WalkUnit, WalkStops, WalkEnds, Paid, Finish, End, Stop, Crash, Gone, lasting, stores
  <2> QED  BY <2>1
<1> QED  BY <1>1, <1>2

\* A save drops no copy that is not let go of and no debt that is not over, and
\* one of a process that does not work drops no debt.
SaveSound(p, mine) ==
    /\ Ready(p, mine) /\ Saving(p, mine) /\ UNCHANGED back /\ ended \subseteq ended'
    /\ \A s \in Store, d \in Dest :
          /\ NamedAt(st[p][s], d) \ NamedAt(mine[s], d) \subseteq letGo'[<<s, d>>]
          /\ Debts(st[p][s], d) \ Debts(mine[s], d)
                 \subseteq {m \in Migration : <<<<s, d>>, m>> \in ended' \cup gaps}
          /\ pc[p] \notin Working => Debts(st[p][s], d) \subseteq Debts(mine[s], d)

LEMMA OweKeeps ==
    ASSUME Inv, NEW p \in Process, Owe(p)
    PROVE  \E mine : SaveSound(p, mine)
<1>1. PICK i \in chosen[p] : /\ pc[p] = "apply" /\ i \in Item /\ UNCHANGED <<stores, ended>>
           /\ \/ Saved(p, Owing(p, i)) /\ Fine
              \/ /\ st' = [st EXCEPT ![p] = IF KeptByMerge(p, i.store, Owing(p, i))
                                            THEN [Merged(p, Owing(p, i)) EXCEPT ![i.store] = st[p][i.store]]
                                            ELSE Merged(p, Owing(p, i))]
                 /\ UNCHANGED <<loaded, disk>> /\ Mishap
  BY OweStep DEF Inv
<1>2. Ready(p, Owing(p, i)) /\ Saving(p, Owing(p, i))
  BY <1>1, OweSaves DEF Inv
<1>3. \A s \in Store, d \in Dest : /\ NamedAt(st[p][s], d) \subseteq NamedAt(Owing(p, i)[s], d)
                                   /\ Debts(st[p][s], d) \subseteq Debts(Owing(p, i)[s], d)
  <2>1. ASSUME NEW s \in Store, NEW d \in Dest
        PROVE  /\ NamedAt(st[p][s], d) \subseteq NamedAt(Owing(p, i)[s], d)
               /\ Debts(st[p][s], d) \subseteq Debts(Owing(p, i)[s], d)
    <3> DEFINE was == st[p][i.store]
               now == Owing(p, i)[i.store]
    <3>0. Base /\ pc[p] # "off" /\ i \in Item
      BY <1>1 DEF Inv
    <3>1. CASE s = i.store
      <4>1. /\ Debts(now, d) = Debts(was, d) \cup (IF d = points[i.store] THEN {i.mig} ELSE {})
            /\ NamedAt(now, d) = NamedAt(was, d)
        BY <3>0, OwingReady
      <4> HIDE DEF now, was
      <4>2. NamedAt(was, d) \subseteq NamedAt(now, d) /\ Debts(was, d) \subseteq Debts(now, d)
        BY <4>1
      <4> QED  BY <3>1, <4>2 DEF now, was
    <3>2. CASE s # i.store
      <4>1. Owing(p, i)[s] = st[p][s]
        BY <3>0, <3>2, OwingReady
      <4> QED  BY <4>1
    <3> QED  BY <3>1, <3>2
  <2> QED  BY <2>1
<1>4. SaveSound(p, Owing(p, i))
  BY <1>1, <1>2, <1>3 DEF SaveSound, stores
<1> QED  BY <1>4

LEMMA SettleKeeps ==
    ASSUME Inv, NEW p \in Process, Settle(p)
    PROVE  \E mine : SaveSound(p, mine)
<1>1. /\ pc[p] = "settle" /\ Save(p, Settling(p)) /\ UNCHANGED stores
      /\ ended' = IF ours[p] /\ answer[p].said = "untouched" /\ item[p].mig \notin MigsOf(before[p])
                  THEN ended \cup {<<Here(p), item[p].mig>>} ELSE ended
  BY SettleStep
<1>2. Ready(p, Settling(p)) /\ Saving(p, Settling(p))
  BY <1>1, SettlingReady DEF Inv, Saving
<1>3. ASSUME NEW s \in Store, NEW d \in Dest
      PROVE  /\ NamedAt(st[p][s], d) \subseteq NamedAt(Settling(p)[s], d)
             /\ Debts(st[p][s], d) \ Debts(Settling(p)[s], d)
                    \subseteq {m \in Migration : <<<<s, d>>, m>> \in ended' \cup gaps}
  <2>1. /\ NamedAt(st[p][s], d) \subseteq NamedAt(Settling(p)[s], d)
        /\ \/ Debts(Settling(p)[s], d) = Debts(st[p][s], d)
           \/ /\ ours[p] /\ answer[p].said = "untouched" /\ s = item[p].store /\ d = points[s]
              /\ Debts(Settling(p)[s], d) = MigsOf(before[p])
    BY <1>1, SettlingReady DEF Inv
  <2>2. CASE Debts(Settling(p)[s], d) = Debts(st[p][s], d)
    BY <2>1, <2>2
  <2>3. CASE /\ ours[p] /\ answer[p].said = "untouched" /\ s = item[p].store /\ d = points[s]
             /\ Debts(Settling(p)[s], d) = MigsOf(before[p])
    <3>1. Debts(st[p][s], d) \subseteq MigsOf(before[p]) \cup {item[p].mig}
      BY <1>1, <2>3 DEF Inv, TakenBack
    <3>2. Here(p) = <<s, d>> /\ item[p].mig \in Migration
      BY <1>1, <2>3, HereType DEF Inv
    <3>3. item[p].mig \notin MigsOf(before[p]) => <<<<s, d>>, item[p].mig>> \in ended'
      BY <1>1, <2>3, <3>2
    <3> QED  BY <2>1, <2>3, <3>1, <3>2, <3>3
  <2> QED  BY <2>1, <2>2, <2>3
<1>4. pc[p] \in Working
  BY <1>1 DEF Working
<1>5. SaveSound(p, Settling(p))
  BY <1>1, <1>2, <1>3, <1>4 DEF SaveSound, stores
<1> QED  BY <1>5

LEMMA PaidKeeps ==
    ASSUME Inv, NEW p \in Process, Paid(p)
    PROVE  \E mine : SaveSound(p, mine)
<1>1. pc[p] = "paid" /\ Save(p, Paying(p)) /\ UNCHANGED <<stores, ended>>
  BY PaidStep DEF marks
<1>2. Ready(p, Paying(p)) /\ Saving(p, Paying(p))
  BY <1>1, PayingReady DEF Inv, Saving
<1>3. ASSUME NEW s \in Store, NEW d \in Dest
      PROVE  /\ NamedAt(st[p][s], d) \subseteq NamedAt(Paying(p)[s], d)
             /\ Debts(st[p][s], d) \ Debts(Paying(p)[s], d)
                    \subseteq {m \in Migration : <<<<s, d>>, m>> \in ended' \cup gaps}
  <2>1. /\ NamedAt(Paying(p)[s], d) = NamedAt(st[p][s], d)
        /\ \/ Debts(Paying(p)[s], d) = Debts(st[p][s], d)
           \/ d = points[s] /\ Debts(Paying(p)[s], d) = {}
    BY <1>1, PayingReady DEF Inv
  <2>2. Debts(st[p][s], points[s]) \subseteq Over(<<s, points[s]>>)
    BY <1>1 DEF Inv, AllPaid
  <2>3. CASE Debts(Paying(p)[s], d) = Debts(st[p][s], d)
    BY <2>1, <2>3
  <2>4. CASE d = points[s]
    <3>1. \A m \in Over(<<s, d>>) : m \in Migration /\ <<<<s, d>>, m>> \in ended' \cup gaps
      BY <1>1 DEF Over
    <3> QED  BY <2>1, <2>2, <2>4, <3>1
  <2> QED  BY <2>1, <2>3, <2>4
<1>4. pc[p] \in Working
  BY <1>1 DEF Working
<1>5. SaveSound(p, Paying(p))
  BY <1>1, <1>2, <1>3, <1>4 DEF SaveSound, stores
<1> QED  BY <1>5

LEMMA PurgeKeeps ==
    ASSUME Inv, NEW p \in Process, Purge(p)
    PROVE  \E mine : SaveSound(p, mine)
<1>1. PICK s \in Store, c \in Copy :
          /\ pc[p] = "sweep" /\ Save(p, Purging(p, s, c)) /\ UNCHANGED <<back, ended>>
          /\ letGo' = [letGo EXCEPT ![<<s, points[s]>>] = @ \cup {c}]
  BY PurgeStep DEF Inv, marks
<1>2. Ready(p, Purging(p, s, c)) /\ Saving(p, Purging(p, s, c))
  BY <1>1, PurgingReady DEF Inv, Saving
<1>3. <<s, points[s]>> \in Place /\ c \in letGo'[<<s, points[s]>>]
  BY <1>1, TypeParts DEF Inv, Base, StoresType, Place
<1>4. ASSUME NEW t \in Store, NEW d \in Dest
      PROVE  /\ NamedAt(st[p][t], d) \ NamedAt(Purging(p, s, c)[t], d) \subseteq letGo'[<<t, d>>]
             /\ Debts(st[p][t], d) = Debts(Purging(p, s, c)[t], d)
  <2>1. /\ NamedAt(st[p][t], d) \subseteq
               NamedAt(Purging(p, s, c)[t], d) \cup (IF t = s /\ d = points[s] THEN {c} ELSE {})
        /\ Debts(Purging(p, s, c)[t], d) = Debts(st[p][t], d)
    <3>1. Base /\ pc[p] # "off"
      BY <1>1 DEF Inv
    <3> QED  BY <3>1, PurgingReady
  <2> QED  BY <1>3, <2>1
<1>5. SaveSound(p, Purging(p, s, c))
  BY <1>1, <1>2, <1>4 DEF SaveSound
<1> QED  BY <1>5

LEMMA SameKeeps ==
    ASSUME Inv, NEW p \in Process, Finish(p) \/ End(p) \/ Stop(p) \/ Crash(p)
    PROVE  \E mine : SaveSound(p, mine)
<1>1. Ready(p, st[p]) /\ Saving(p, st[p])
  <2>1. Finish(p) => Ready(p, st[p]) /\ Saving(p, st[p])
    BY RunningIsReady DEF Inv, Base, Finish, Saving
  <2> QED  BY <2>1, GoneSaves DEF Inv
<1>2. UNCHANGED <<back, ended>>
  BY DEF Finish, End, Stop, Crash, Gone, stores, marks
<1>3. SaveSound(p, st[p])
  BY <1>1, <1>2 DEF SaveSound
<1> QED  BY <1>3

\* A step leaves the records, opens them or saves them.
LEMMA StepKinds ==
    ASSUME Inv, NEW p \in Process, Run(p)
    PROVE  \/ UNCHANGED <<disk, st, loaded>>
           \/ Opened(p) /\ UNCHANGED <<disk, back>>
           \/ \E mine : SaveSound(p, mine)
<1>1. StartHolding(p) \/ StartOneShot(p) => Opened(p) /\ UNCHANGED <<disk, back>>
  BY DEF StartHolding, StartOneShot, lasting, stores
<1>2. \/ TakeLock(p) \/ Clear(p) \/ OnlyCopy(p) \/ NotCleared(p) \/ NothingOwed(p) \/ OpenRefill(p)
      \/ WalkUnit(p) \/ WalkStops(p) \/ WalkEnds(p)
      => UNCHANGED <<disk, st, loaded>>
  BY DEF TakeLock, Clear, OnlyCopy, NotCleared, Answered, NothingOwed, OpenRefill, WalkUnit, WalkStops,
         WalkEnds, lasting, inside
<1> QED  BY <1>1, <1>2, OweKeeps, SettleKeeps, PaidKeeps, PurgeKeeps, SameKeeps DEF Run

LEMMA SaveDrops ==
    ASSUME Inv, NEW p \in Process, Run(p), NEW mine, SaveSound(p, mine)
    PROVE  /\ Within(loaded', st', disk', letGo',
                     [at \in Place |-> {m \in Migration : <<at, m>> \in ended' \cup gaps}])
           /\ \A s \in Store, d \in Dest :
                 /\ NamedAt(disk[s], d) \ NamedAt(disk'[s], d) \subseteq letGo'[<<s, d>>]
                 /\ Debts(disk[s], d) \ Debts(disk'[s], d)
                        \subseteq {m \in Migration : <<<<s, d>>, m>> \in ended' \cup gaps}
<1> DEFINE M == [at \in Place |-> {m \in Migration : <<at, m>> \in ended' \cup gaps}]
           was == [at \in Place |-> Over(at)]
<1>1. \A s \in Store, d \in Dest :
         /\ <<s, d>> \in Place
         /\ M[<<s, d>>] = {m \in Migration : <<<<s, d>>, m>> \in ended' \cup gaps}
         /\ was[<<s, d>>] \subseteq M[<<s, d>>]
  BY DEF SaveSound, Over, Place
<1>2. \A s \in Store, d \in Dest : letGo[<<s, d>>] \subseteq letGo'[<<s, d>>]
  BY LetGoGrows DEF Inv, Place
<1>3. Within(loaded, st, disk, letGo, was)
  BY DEF Inv, Drops
<1> HIDE DEF M, was
<1>4. Within(loaded, st, disk, letGo', M)
  BY <1>1, <1>2, <1>3, WithinMore
<1>5. \A s \in Store, d \in Dest : /\ NamedAt(st[p][s], d) \ NamedAt(mine[s], d) \subseteq letGo'[<<s, d>>]
                                   /\ Debts(st[p][s], d) \ Debts(mine[s], d) \subseteq M[<<s, d>>]
  BY <1>1 DEF SaveSound
<1>6. Base /\ Ready(p, mine) /\ Saving(p, mine)
  BY DEF SaveSound, Inv
<1>7. /\ Within(loaded', st', disk', letGo', M)
      /\ \A s \in Store, d \in Dest : /\ NamedAt(disk[s], d) \ NamedAt(disk'[s], d) \subseteq letGo'[<<s, d>>]
                                      /\ Debts(disk[s], d) \ Debts(disk'[s], d) \subseteq M[<<s, d>>]
  BY <1>4, <1>5, <1>6, SavingWithin
<1>8. \A s \in Store, d \in Dest : /\ NamedAt(disk[s], d) \ NamedAt(disk'[s], d) \subseteq letGo'[<<s, d>>]
                                   /\ Debts(disk[s], d) \ Debts(disk'[s], d)
                                         \subseteq {m \in Migration : <<<<s, d>>, m>> \in ended' \cup gaps}
  BY <1>1, <1>7
<1> QED  BY <1>7, <1>8 DEF M

\* What a process lacks of what it read that is Here: nothing of the debt of
\* an item it is about to clear the store for, but in a gap.
LEMMA ClearDrops ==
    ASSUME Inv, NEW p \in Process, Clear(p)
    PROVE  Drops'
<1>1. /\ pc[p] = "touch" /\ ended' = ended \ {<<Here(p), item[p].mig>>} /\ gaps \subseteq gaps'
      /\ UNCHANGED <<disk, st, loaded, letGo>>
  BY DEF Clear, Answered
<1>2. Here(p) = <<item[p].store, points[item[p].store]>>
  BY DEF Here
<1>3. ASSUME NEW q \in Process, NEW s \in Store, NEW d \in Dest
      PROVE  /\ NamedAt(loaded[q][s], d) \ NamedAt(st[q][s], d) \subseteq letGo[<<s, d>>]
             /\ NamedAt(loaded[q][s], d) \ NamedAt(disk[s], d) \subseteq letGo[<<s, d>>]
             /\ Debts(loaded[q][s], d) \ Debts(st[q][s], d) \subseteq Over(<<s, d>>)'
             /\ Debts(loaded[q][s], d) \ Debts(disk[s], d) \subseteq Over(<<s, d>>)'
  <2>1. <<s, d>> \in Place
    BY DEF Place
  <2>2. /\ NamedAt(loaded[q][s], d) \ NamedAt(st[q][s], d) \subseteq letGo[<<s, d>>]
        /\ NamedAt(loaded[q][s], d) \ NamedAt(disk[s], d) \subseteq letGo[<<s, d>>]
        /\ Debts(loaded[q][s], d) \ Debts(st[q][s], d) \subseteq Over(<<s, d>>)
        /\ Debts(loaded[q][s], d) \ Debts(disk[s], d) \subseteq Over(<<s, d>>)
    BY <2>1 DEF Inv, Drops, Within
  <2>3. ASSUME NEW m \in Over(<<s, d>>), m \notin Over(<<s, d>>)'
        PROVE  m \in Debts(disk[s], d) /\ m \notin Debts(loaded[q][s], d) \ Debts(st[q][s], d)
    <3>1. m = item[p].mig /\ <<s, d>> = Here(p) /\ <<<<s, d>>, m>> \notin gaps
      BY <1>1, <2>3 DEF Over
    <3>2. ~Lost(p) /\ s = item[p].store /\ d = points[s]
      BY <1>2, <3>1 DEF Lost
    <3> QED  BY <1>1, <3>1, <3>2 DEF Inv, Touching
  <2> QED  BY <2>2, <2>3
<1>4. \A s \in Store, d \in Dest : <<s, d>> \in Place
  BY DEF Place
<1>5. \A q \in Process, s \in Store, d \in Dest :
        /\ NamedAt(loaded'[q][s], d) \ NamedAt(st'[q][s], d) \subseteq letGo'[<<s, d>>]
        /\ NamedAt(loaded'[q][s], d) \ NamedAt(disk'[s], d) \subseteq letGo'[<<s, d>>]
        /\ Debts(loaded'[q][s], d) \ Debts(st'[q][s], d) \subseteq [at \in Place |-> Over(at)'][<<s, d>>]
        /\ Debts(loaded'[q][s], d) \ Debts(disk'[s], d) \subseteq [at \in Place |-> Over(at)'][<<s, d>>]
  BY <1>1, <1>3, <1>4
<1>6. Within(loaded', st', disk', letGo', [at \in Place |-> Over(at)'])
  BY <1>5 DEF Within
<1> QED  BY <1>6 DEF Drops

LEMMA DropsStep ==
    ASSUME Inv, NEW p \in Process, Run(p)
    PROVE  Drops'
<1> DEFINE was == [at \in Place |-> Over(at)]
           now == [at \in Place |-> Over(at)']
<1>1. Base
  BY DEF Inv
<1>2. \A s \in Store, d \in Dest : letGo[<<s, d>>] \subseteq letGo'[<<s, d>>]
  BY <1>1, LetGoGrows DEF Place
<1>3. Within(loaded, st, disk, letGo, was)
  BY DEF Inv, Drops
<1>4. ~Clear(p) => \A s \in Store, d \in Dest : was[<<s, d>>] \subseteq now[<<s, d>>]
  <2>1. ~Clear(p) => ended \subseteq ended' /\ gaps \subseteq gaps'
    BY <1>1, StepFrame
  <2>2. \A s \in Store, d \in Dest : <<s, d>> \in Place
    BY DEF Place
  <2>3. ~Clear(p) => \A at \in Place : Over(at) \subseteq Over(at)'
    BY <2>1 DEF Over
  <2> QED  BY <2>2, <2>3
<1>5. Within(loaded', st', disk', letGo', now) => Drops'
  BY DEF Drops
<1>6. CASE Clear(p)
  BY <1>6, ClearDrops
<1>7. CASE ~Clear(p) /\ UNCHANGED <<disk, st, loaded>>
  <2> HIDE DEF was, now
  <2>1. Within(loaded, st, disk, letGo', now)
    BY <1>2, <1>3, <1>4, <1>7, WithinMore
  <2> QED  BY <1>5, <1>7, <2>1
<1>8. CASE ~Clear(p) /\ Opened(p) /\ UNCHANGED disk
  <2> HIDE DEF was, now
  <2>1. Within(loaded, st, disk, letGo', now)
    BY <1>2, <1>3, <1>4, <1>8, WithinMore
  <2>2. Within(loaded', st', disk', letGo', now)
    BY <1>1, <1>8, <2>1, OpenedWithin
  <2> QED  BY <1>5, <2>2
<1>9. ASSUME NEW mine, SaveSound(p, mine) PROVE Drops'
  <2> DEFINE M == [at \in Place |-> {m \in Migration : <<at, m>> \in ended' \cup gaps}]
  <2>1. Within(loaded', st', disk', letGo', M)
    BY <1>9, SaveDrops
  <2>2. \A s \in Store, d \in Dest : M[<<s, d>>] \subseteq now[<<s, d>>]
    <3>1. gaps \subseteq gaps'
      BY <1>1, StepFrame
    <3>2. \A s \in Store, d \in Dest : <<s, d>> \in Place
      BY DEF Place
    <3> QED  BY <3>1, <3>2 DEF Over
  <2> HIDE DEF M, now
  <2>3. Within(loaded', st', disk', letGo', now)
    BY <2>1, <2>2, WithinMore
  <2> QED  BY <1>5, <2>3
<1> QED  BY <1>6, <1>7, <1>8, <1>9, StepKinds

\* What a walk keeps of each store is all that the store is owed.
LEMMA WalkIs ==
    ASSUME Inv, NEW p \in Process, pc[p] = "walk"
    PROVE  /\ ck \in Ck /\ ck # None /\ ck.walk.since \in Nat
           /\ \A s \in Store : ck.walk.keep[s] = Debts(st[p][s], points[s])
           /\ \A s \in Store : \A m \in ck.walk.keep[s] : m \in Migration /\ ck.walk.since <= Oldest[m]
<1>1. Base /\ Ready(p, st[p]) /\ Owed(st[p]) /\ ck.walk = WalkOf(st[p]) /\ ck # None
  BY RunningIsReady DEF Inv, Base, Walking, Busy
<1>2. ck \in Ck
  BY <1>1, TypeParts DEF Base, StoresType
<1>3. ck.walk.since \in Nat /\ \A s \in Store : ck.walk.keep[s] \in SUBSET Migration
  BY <1>2, NoneApart DEF Ck, Walk, Day
<1>4. \A s \in Store : /\ ck.walk.keep[s] = Debts(st[p][s], points[s])
                       /\ Debts(st[p][s], points[s]) # {}
                             => /\ st[p][s].own.refill \in Refill
                                /\ ck.walk.since <= st[p][s].own.refill.since
  BY <1>1, WalkOfSound
<1>5. ASSUME NEW s \in Store, NEW m \in ck.walk.keep[s] PROVE m \in Migration /\ ck.walk.since <= Oldest[m]
  <2>1. m \in Migration /\ m \in Debts(st[p][s], points[s])
    BY <1>3, <1>4
  <2>2. ck.walk.since <= st[p][s].own.refill.since /\ st[p][s].own.refill \in Refill
    BY <1>4, <2>1
  <2>3. st[p][s] \in Record /\ st[p][s].dest = points[s] /\ RecordReaches(st[p][s]) /\ points[s] \in Dest
    BY <1>1, TypeParts DEF Base, StoresType, Ready, Inv, InTime, FilesReach
  <2>4. OwedAt(st[p][s], points[s]) = st[p][s].own.refill
    BY <2>3, NoneApart DEF OwedAt
  <2>5. st[p][s].own.refill.since <= Oldest[m]
    BY <2>1, <2>3, <2>4, OwedReaches DEF MaybeRecord
  <2>6. st[p][s].own.refill.since \in Nat /\ Oldest[m] \in Nat
    BY <2>1, <2>2, ProcessAssumption, NoneApart DEF Refill, Day
  <2> QED  BY <1>3, <2>1, <2>2, <2>5, <2>6
<1> QED  BY <1>1, <1>2, <1>3, <1>4, <1>5

\* A walk that ends has every row back of what it was to read, but in a gap.
LEMMA WalkEndsBack ==
    ASSUME Inv, NEW p \in Process, WalkEnds(p)
    PROVE  \A s \in Store : \A m \in ck.walk.keep[s] :
              <<<<s, points[s]>>, m>> \notin gaps => ~Missing(<<s, points[s]>>, m)
<1>1. pc[p] = "walk" /\ ck.done = UnitsOf(ck.walk)
  BY DEF WalkEnds
<1>2. ASSUME NEW s \in Store, NEW m \in ck.walk.keep[s], <<<<s, points[s]>>, m>> \notin gaps
      PROVE  ~Missing(<<s, points[s]>>, m)
  <2>1. m \in Migration /\ points[s] \in Dest /\ ck # None /\ <<s, points[s]>> \in Place
    BY <1>1, WalkIs, TypeParts DEF Inv, Base, StoresType, Place
  <2>2. CASE ck.at[s] = {points[s]}
    <3>1. \A r \in Repo : <<m, r>> \in ck.done
      BY <1>1, <1>2, <2>1 DEF UnitsOf, Unit
    <3>2. ASSUME NEW r \in Repo PROVE back[<<s, points[s]>>][<<m, r>>] <= Oldest[m]
      <4>1. <<m, r>> \in ck.done /\ <<m, r>>[1] = m
        BY <3>1
      <4> QED  BY <1>2, <2>1, <2>2, <4>1 DEF Inv, WalkedIsBack
    <3>3. \A r \in Repo : back[<<s, points[s]>>][<<m, r>>] \in Nat /\ Oldest[m] \in Nat
      BY <2>1, TypeParts, ProcessAssumption, NoneApart DEF Inv, Base, StoresType, Unit
    <3> DEFINE here == back[<<s, points[s]>>]
    <3>4. \A r \in Repo : ~ (here[<<m, r>>] > Oldest[m])
      <4>1. ASSUME NEW r \in Repo PROVE ~ (here[<<m, r>>] > Oldest[m])
        <5>1. here[<<m, r>>] <= Oldest[m] /\ here[<<m, r>>] \in Nat /\ Oldest[m] \in Nat
          BY <3>2, <3>3
        <5> HIDE DEF here
        <5> QED  BY <5>1
      <4> QED  BY <4>1
    <3> QED  BY <3>4 DEF Missing
  <2>3. CASE ck.at[s] # {points[s]}
    <3>1. m \in Over(<<s, points[s]>>)
      BY <1>1, <1>2, <2>3 DEF Inv, Walking
    <3> QED  BY <1>2, <2>1, <3>1 DEF Over, Inv, EndedIsBack
  <2> QED  BY <2>2, <2>3
<1> QED  BY <1>2

LEMMA EndedIsBackStep ==
    ASSUME Inv, NEW p \in Process, Run(p)
    PROVE  EndedIsBack'
<1>1. gaps \subseteq gaps' /\ Base
  BY StepFrame DEF Inv
<1>2. CASE Clear(p)
  <2>1. /\ pc[p] = "touch" /\ ended' = ended \ {<<Here(p), item[p].mig>>}
        /\ back' = [back EXCEPT ![Here(p)] = [u \in Unit |-> IF u[1] = item[p].mig THEN Today ELSE back[Here(p)][u]]]
    BY <1>2 DEF Clear
  <2>2. Here(p) \in Place /\ back \in [Place -> [Unit -> 1..Today]]
    BY <1>1, <2>1, HereType, TypeParts DEF Base, StoresType
  <2>3. ASSUME NEW at \in Place, NEW m \in Migration, <<at, m>> \in ended' \ gaps', NEW r \in Repo
        PROVE  back'[at][<<m, r>>] = back[at][<<m, r>>]
    <3>1. <<m, r>> \in Unit /\ <<m, r>>[1] = m /\ (at = Here(p) => m # item[p].mig)
      BY <2>1, <2>3 DEF Unit
    <3>2. CASE at = Here(p)
      <4>1. back'[at] = [u \in Unit |-> IF u[1] = item[p].mig THEN Today ELSE back[at][u]]
        BY <2>1, <2>2, <3>2
      <4> QED  BY <3>1, <3>2, <4>1
    <3>3. CASE at # Here(p)
      BY <2>1, <2>2, <3>3
    <3> QED  BY <3>2, <3>3
  <2>4. \A at \in Place, m \in Migration : <<at, m>> \in ended' \ gaps' => ~Missing(at, m)
    BY <1>1, <2>1 DEF Inv, EndedIsBack
  <2> QED  BY <2>3, <2>4 DEF EndedIsBack, Missing
<1>3. CASE ~Clear(p)
  <2>1. \A at \in Place, m \in Migration : Missing(at, m)' => Missing(at, m)
    BY <1>1, <1>3, BackGrows
  <2>2. ASSUME NEW at \in Place, NEW m \in Migration, <<at, m>> \in ended', <<at, m>> \notin ended, <<at, m>> \notin gaps
        PROVE  ~Missing(at, m)
    <3>1. CASE Settle(p)
      <4>1. /\ pc[p] = "settle" /\ ours[p] /\ answer[p].said = "untouched" /\ item[p].mig \notin MigsOf(before[p])
            /\ <<at, m>> = <<Here(p), item[p].mig>>
        BY <2>2, <3>1, SettleStep
      <4>2. at = Here(p) /\ m = item[p].mig
        BY <4>1
      <4> QED  BY <2>2, <4>1, <4>2 DEF Inv, TakenBack, Lost
    <3>2. CASE WalkEnds(p)
      <4>1. /\ ended' = ended \cup {<<<<i[1], points[i[1]]>>, i[2]>> : i \in paid'[p]}
            /\ paid' = [paid EXCEPT ![p] = {i \in Store \X Migration : i[2] \in ck.walk.keep[i[1]]}]
        BY <3>2 DEF WalkEnds
      <4>2. paid'[p] = {i \in Store \X Migration : i[2] \in ck.walk.keep[i[1]]}
        BY <1>1, <4>1, TypeParts DEF Base, MarksType
      <4>3. PICK i \in Store \X Migration : i[2] \in ck.walk.keep[i[1]] /\ <<at, m>> = <<<<i[1], points[i[1]]>>, i[2]>>
        BY <2>2, <4>1, <4>2
      <4>4. i[1] \in Store /\ at = <<i[1], points[i[1]]>> /\ m = i[2]
        BY <4>3
      <4> QED  BY <2>2, <3>2, <4>3, <4>4, WalkEndsBack
    <3>3. CASE ~Settle(p) /\ ~WalkEnds(p)
      <4>1. UNCHANGED ended
        BY <1>3, <3>3 DEF Run, StartHolding, StartOneShot, TakeLock, Owe, OnlyCopy, NotCleared, NothingOwed,
               OpenRefill, WalkUnit, WalkStops, Paid, Purge, Finish, End, Stop, Crash, Gone, marks
      <4> QED  BY <2>2, <4>1
    <3> QED  BY <3>1, <3>2, <3>3
  <2>3. ASSUME NEW at \in Place, NEW m \in Migration, <<at, m>> \in ended' \ gaps'
        PROVE  ~Missing(at, m)'
    <3>1. <<at, m>> \notin gaps
      BY <1>1, <2>3
    <3>2. ~Missing(at, m)
      BY <2>2, <2>3, <3>1 DEF Inv, EndedIsBack
    <3> QED  BY <2>1, <3>2
  <2> QED  BY <2>3 DEF EndedIsBack
<1> QED  BY <1>2, <1>3

\* What is missing stays owed on disk.
LEMMA MissingStep ==
    ASSUME Inv, NEW p \in Process, Run(p), EndedIsBack'
    PROVE  MissingOwed'
<1>1. gaps \subseteq gaps' /\ Base /\ MissingOwed
  BY StepFrame, MissingIs DEF Inv, InTime
<1>2. CASE Clear(p)
  <2>1. /\ pc[p] = "touch" /\ UNCHANGED disk
        /\ back' = [back EXCEPT ![Here(p)] = [u \in Unit |-> IF u[1] = item[p].mig THEN Today ELSE back[Here(p)][u]]]
    BY <1>2 DEF Clear, Answered
  <2>2. /\ Here(p) \in Place /\ back \in [Place -> [Unit -> 1..Today]]
        /\ Here(p) = <<item[p].store, points[item[p].store]>>
    BY <1>1, <2>1, HereType, TypeParts DEF Base, StoresType
  <2>3. ASSUME NEW s \in Store, NEW d \in Dest, NEW m \in Migration,
               Missing(<<s, d>>, m)', <<<<s, d>>, m>> \notin gaps'
        PROVE  m \in Debts(disk'[s], d)
    <3>1. CASE <<s, d>> = Here(p) /\ m = item[p].mig
      <4>1. ~Lost(p) /\ s = item[p].store /\ d = points[s]
        BY <1>1, <2>2, <2>3, <3>1 DEF Lost
      <4> QED  BY <2>1, <3>1, <4>1 DEF Inv, Touching
    <3>2. CASE ~(<<s, d>> = Here(p) /\ m = item[p].mig)
      <4>1. \A r \in Repo : back'[<<s, d>>][<<m, r>>] = back[<<s, d>>][<<m, r>>]
        <5>1. <<s, d>> \in Place /\ \A r \in Repo : <<m, r>> \in Unit /\ <<m, r>>[1] = m
          BY DEF Place, Unit
        <5>2. CASE <<s, d>> = Here(p)
          <6>1. back'[<<s, d>>] = [u \in Unit |-> IF u[1] = item[p].mig THEN Today ELSE back[<<s, d>>][u]]
            BY <2>1, <2>2, <5>2
          <6> QED  BY <3>2, <5>1, <5>2, <6>1
        <5>3. CASE <<s, d>> # Here(p)
          BY <2>1, <2>2, <5>1, <5>3
        <5> QED  BY <5>2, <5>3
      <4>2. Missing(<<s, d>>, m)
        BY <2>3, <4>1 DEF Missing
      <4> QED  BY <1>1, <2>1, <2>3, <4>2 DEF MissingOwed
    <3> QED  BY <3>1, <3>2
  <2> QED  BY <2>3 DEF MissingOwed, Debts, OwedAt, MigsOf
<1>3. CASE ~Clear(p)
  <2>1. \A s \in Store, d \in Dest : <<s, d>> \in Place
    BY DEF Place
  <2>2. \A s \in Store, d \in Dest, m \in Migration :
            Missing(<<s, d>>, m)' /\ <<<<s, d>>, m>> \notin gaps' => m \in Debts(disk[s], d)
    BY <1>1, <1>3, <2>1, BackGrows DEF MissingOwed
  <2>3. CASE UNCHANGED disk
    BY <2>2, <2>3 DEF MissingOwed, Debts, OwedAt, MigsOf
  <2>4. ASSUME NEW mine, SaveSound(p, mine) PROVE MissingOwed'
    <3>1. ASSUME NEW s \in Store, NEW d \in Dest, NEW m \in Migration,
                 Missing(<<s, d>>, m)', <<<<s, d>>, m>> \notin gaps'
          PROVE  m \in Debts(disk'[s], d)
      <4>1. m \in Debts(disk[s], d)
        BY <2>2, <3>1
      <4>2. <<<<s, d>>, m>> \notin ended' \cup gaps
        BY <1>1, <2>1, <3>1 DEF EndedIsBack
      <4>3. Debts(disk[s], d) \ Debts(disk'[s], d) \subseteq {x \in Migration : <<<<s, d>>, x>> \in ended' \cup gaps}
        BY <2>4, SaveDrops
      <4> QED  BY <4>1, <4>2, <4>3
    <3> QED  BY <3>1 DEF MissingOwed, Debts, OwedAt, MigsOf
  <2> QED  BY <2>3, <2>4, StepKinds
<1> QED  BY <1>2, <1>3

\* Which step takes a process where.
LEMMA PcMoves ==
    ASSUME Base, NEW p \in Process, Run(p)
    PROVE  /\ pc'[p] = "touch"  => Owe(p) /\ pc[p] = "apply"
           /\ pc'[p] = "settle" => Clear(p) \/ OnlyCopy(p) \/ NotCleared(p)
           /\ pc'[p] = "walk"   => OpenRefill(p) \/ WalkUnit(p)
           /\ pc'[p] = "paid"   => WalkEnds(p)
<1>1. pc \in [Process -> PCs]
  BY TypeParts DEF Base, InsideType
<1>2. CASE StartHolding(p) \/ StartOneShot(p)
  <2>1. pc'[p] \in {"sweep", "take", "apply"}
    BY <1>1, <1>2 DEF StartHolding, StartOneShot, Opened
  <2> QED  BY <2>1
<1>3. CASE TakeLock(p)
  BY <1>1, <1>3 DEF TakeLock
<1>4. CASE Owe(p)
  <2>1. pc[p] = "apply" /\ pc'[p] \in {"apply", "touch"}
    <3>1. pc' = pc \/ pc' = [pc EXCEPT ![p] = "touch"]
      BY <1>4, OweStep
    <3>2. pc[p] = "apply"
      BY <1>4 DEF Owe
    <3> QED  BY <1>1, <3>1, <3>2
  <2> QED  BY <1>4, <2>1
<1>5. CASE Clear(p) \/ OnlyCopy(p) \/ NotCleared(p)
  <2>1. pc'[p] = "settle"
    BY <1>1, <1>5 DEF Clear, OnlyCopy, NotCleared, Answered
  <2> QED  BY <1>5, <2>1
<1>6. CASE Settle(p) \/ NothingOwed(p) \/ WalkStops(p) \/ Paid(p)
  <2>1. pc'[p] \in {"apply", "sweep"}
    BY <1>1, <1>6 DEF Settle, NothingOwed, WalkStops, Paid, ToSweep
  <2> QED  BY <2>1
<1>7. CASE OpenRefill(p) \/ WalkUnit(p)
  <2>1. pc'[p] = "walk"
    BY <1>1, <1>7 DEF OpenRefill, WalkUnit
  <2> QED  BY <1>7, <2>1
<1>8. CASE WalkEnds(p)
  <2>1. pc'[p] = "paid"
    BY <1>1, <1>8 DEF WalkEnds
  <2> QED  BY <1>8, <2>1
<1>9. CASE Purge(p) \/ Finish(p)
  <2>1. pc'[p] = "sweep"
    BY <1>1, <1>9 DEF Purge, Finish
  <2> QED  BY <2>1
<1>10. CASE End(p) \/ Stop(p) \/ Crash(p)
  <2>1. pc'[p] = "off"
    BY <1>1, <1>10, GoneStep DEF Gone
  <2> QED  BY <2>1
<1> QED  BY <1>2, <1>3, <1>4, <1>5, <1>6, <1>7, <1>8, <1>9, <1>10 DEF Run

\* A process that does not work leaves the stores and the checkpoint.
LEMMA IdleFrame ==
    ASSUME Base, NEW p \in Process, Run(p), pc[p] \notin Working
    PROVE  UNCHANGED <<back, old, copies, ck, points, ended, gaps>>
<1>1. StartHolding(p) \/ StartOneShot(p) \/ TakeLock(p) => UNCHANGED <<back, old, copies, ck, points, ended, gaps>>
  BY DEF StartHolding, StartOneShot, TakeLock, lasting, stores, marks
<1>2. Purge(p) \/ Finish(p) => UNCHANGED <<back, old, copies, ck, points, ended, gaps>>
  BY DEF Purge, Finish, stores, marks
<1>3. End(p) \/ Stop(p) \/ Crash(p) => UNCHANGED <<back, old, copies, ck, points, ended, gaps>>
  BY GoneStep DEF Gone, stores
<1>4. ~ (\/ Owe(p) \/ Clear(p) \/ OnlyCopy(p) \/ NotCleared(p) \/ Settle(p) \/ NothingOwed(p) \/ OpenRefill(p)
         \/ WalkUnit(p) \/ WalkStops(p) \/ WalkEnds(p) \/ Paid(p))
  BY DEF Owe, Clear, OnlyCopy, NotCleared, Settle, NothingOwed, OpenRefill, WalkUnit, WalkStops, WalkEnds, Paid, Working
<1> QED  BY <1>1, <1>2, <1>3, <1>4 DEF Run

\* The walk of some records, where the sinks point so.
OwedMigsAt(recs, pts, s) == IF recs[s] # None /\ recs[s].dest = pts[s] THEN MigsOf(recs[s].own.refill) ELSE {}
WalkAt(recs, pts) ==
    LET sinces == {recs[s].own.refill.since : s \in {x \in Store : OwedMigsAt(recs, pts, x) # {}}}
    IN  [since |-> CHOOSE d \in sinces : \A e \in sinces : d <= e,
         keep  |-> [s \in Store |-> OwedMigsAt(recs, pts, s)],
         to    |-> [s \in Store |-> IF OwedMigsAt(recs, pts, s) = {} \/ s \in Secret THEN None ELSE pts[s]]]
OwesAny(recs, pts) == \E s \in Store : OwedMigsAt(recs, pts, s) # {}

LEMMA WalkOfSame ==
    ASSUME NEW q \in Process, st'[q] = st[q], points' = points
    PROVE  WalkOf(st[q])' = WalkOf(st[q]) /\ (Owed(st[q])' <=> Owed(st[q]))
<1>1. WalkOf(st[q]) = WalkAt(st[q], points) /\ (Owed(st[q]) <=> OwesAny(st[q], points))
  BY DEF WalkOf, WalkAt, OwedMigs, OwedMigsAt, Owed, OwesAny
<1>2. WalkOf(st[q])' = WalkAt(st'[q], points') /\ (Owed(st[q])' <=> OwesAny(st'[q], points'))
  BY DEF WalkOf, WalkAt, OwedMigs, OwedMigsAt, Owed, OwesAny
<1> QED  BY <1>1, <1>2

LEMMA WalkUnitStep ==
    ASSUME Inv, NEW p \in Process, WalkUnit(p)
    PROVE  /\ pc[p] = "walk" /\ ck' # None /\ ck'.walk = ck.walk /\ ck'.at = ck.at
           /\ \E u \in UnitsOf(ck.walk) \ ck.done :
                 /\ ck'.done = ck.done \cup {u}
                 /\ back' = [at \in Place |->
                                IF at[2] = points[at[1]] /\ u[1] \in ck.walk.keep[at[1]]
                                THEN [back[at] EXCEPT ![u] = Written(u, @)] ELSE back[at]]
           /\ UNCHANGED <<st, points, ended, gaps>>
<1>1. PICK u \in UnitsOf(ck.walk) \ ck.done :
        /\ pc[p] = "walk"
        /\ back' = [at \in Place |->
                       IF at[2] = points[at[1]] /\ u[1] \in ck.walk.keep[at[1]]
                       THEN [back[at] EXCEPT ![u] = Written(u, @)] ELSE back[at]]
        /\ ck' = [ck EXCEPT !.done = @ \cup {u}]
        /\ UNCHANGED <<st, points, ended, gaps>>
  BY DEF WalkUnit, inside, marks
<1>2. ck \in Ck
  BY <1>1, WalkIs
<1>3. ck' \in Ck /\ ck'.walk = ck.walk /\ ck'.at = ck.at /\ ck'.done = ck.done \cup {u}
  BY <1>1, <1>2 DEF Ck, UnitsOf
<1>4. ck' # None
  BY <1>3, ProcessAssumption
<1> QED  BY <1>1, <1>3, <1>4

LEMMA WalkingStep ==
    ASSUME Inv, NEW p \in Process, Run(p)
    PROVE  Walking'
<1>1. Base /\ points' = points
  BY StepFrame DEF Inv
<1>2. ASSUME NEW q \in Process, pc'[q] = "walk"
      PROVE  /\ ck'.walk = WalkOf(st[q])' /\ Owed(st[q])'
             /\ \A s \in Store : /\ points[s] \in ck'.at[s]
                                 /\ ck'.at[s] # {points[s]} => ck'.walk.keep[s] \subseteq Over(<<s, points[s]>>)'
  <2>1. CASE q # p
    <3>1. pc[q] = "walk" /\ st'[q] = st[q]
      BY <1>1, <1>2, <2>1, StepFrame
    <3>2. pc[p] \notin Working
      BY <1>1, <2>1, <3>1, OneWorks DEF Working
    <3>3. UNCHANGED <<ck, ended, gaps>>
      BY <1>1, <3>2, IdleFrame
    <3>4. \A s \in Store : Over(<<s, points[s]>>)' = Over(<<s, points[s]>>)
      BY <1>1, <3>3 DEF Over
    <3> QED  BY <1>1, <3>1, <3>3, <3>4, WalkOfSame DEF Inv, Walking
  <2>2. CASE q = p /\ WalkUnit(p)
    <3>1. /\ pc[p] = "walk" /\ ck'.walk = ck.walk /\ ck'.at = ck.at /\ UNCHANGED <<st, ended, gaps>>
      BY <2>2, WalkUnitStep
    <3>2. \A s \in Store : Over(<<s, points[s]>>)' = Over(<<s, points[s]>>)
      BY <1>1, <3>1 DEF Over
    <3> QED  BY <1>1, <2>2, <3>1, <3>2, WalkOfSame DEF Inv, Walking
  <2>3. CASE q = p /\ OpenRefill(p)
    <3> DEFINE w == WalkOf(st[p])
    <3>1. /\ pc[p] = "apply" /\ Owed(st[p]) /\ ck'.walk = w
          /\ \A s \in Store : points[s] \in ck'.at[s]
          /\ gaps' = gaps \cup {g \in Place \X Migration :
                         LET s == g[1][1]
                         IN  g[1][2] = points[s] /\ g[2] \in w.keep[s] /\ ck'.at[s] # {points[s]}}
          /\ UNCHANGED inside
      BY <1>1, <2>3, OpenRefillStep
    <3>2. w \in Walk
      BY <1>1, <3>1, RunningIsReady, WalkOfSound DEF Base
    <3> HIDE DEF w
    <3>3. ASSUME NEW s \in Store, ck'.at[s] # {points[s]}, NEW m \in w.keep[s]
          PROVE  m \in Over(<<s, points[s]>>)'
      <4>1. m \in Migration
        BY <3>2, <3>3 DEF Walk
      <4>2. <<s, points[s]>> \in Place
        BY <1>1, TypeParts DEF Base, StoresType, Place
      <4>3. <<<<s, points[s]>>, m>> \in gaps'
        BY <3>1, <3>3, <4>1, <4>2
      <4> QED  BY <1>1, <4>1, <4>3 DEF Over
    <3>4. st' = st
      BY <3>1 DEF inside
    <3> QED  BY <1>1, <2>3, <3>1, <3>3, <3>4, WalkOfSame DEF w
  <2> QED  BY <1>1, <1>2, <2>1, <2>2, <2>3, PcMoves
<1>3. ASSUME NEW q \in Process, pc'[q] = "walk"
      PROVE  (/\ ck.walk = WalkOf(st[q]) /\ Owed(st[q])
              /\ \A s \in Store : /\ points[s] \in ck.at[s]
                                  /\ ck.at[s] # {points[s]} => ck.walk.keep[s] \subseteq Over(<<s, points[s]>>))'
  BY <1>1, <1>2, <1>3
<1> QED  BY <1>3 DEF Walking

LEMMA AllPaidStep ==
    ASSUME Inv, NEW p \in Process, Run(p)
    PROVE  AllPaid'
<1>1. Base /\ points' = points
  BY StepFrame DEF Inv
<1>2. ASSUME NEW q \in Process, NEW s \in Store, pc'[q] = "paid"
      PROVE  Debts(st'[q][s], points[s]) \subseteq Over(<<s, points[s]>>)'
  <2>1. CASE q # p
    <3>1. pc[q] = "paid" /\ st'[q] = st[q]
      BY <1>1, <1>2, <2>1, StepFrame
    <3>2. pc[p] \notin Working
      BY <1>1, <2>1, <3>1, OneWorks DEF Working
    <3>3. UNCHANGED <<ended, gaps>>
      BY <1>1, <3>2, IdleFrame
    <3>4. Over(<<s, points[s]>>)' = Over(<<s, points[s]>>)
      BY <1>1, <3>3 DEF Over
    <3> QED  BY <3>1, <3>4 DEF Inv, AllPaid
  <2>2. CASE q = p
    <3>1. WalkEnds(p)
      BY <1>1, <1>2, <2>2, PcMoves
    <3>2. /\ pc[p] = "walk" /\ st' = st
          /\ ended' = ended \cup {<<<<i[1], points[i[1]]>>, i[2]>> : i \in paid'[p]}
          /\ paid' = [paid EXCEPT ![p] = {i \in Store \X Migration : i[2] \in ck.walk.keep[i[1]]}]
      BY <3>1 DEF WalkEnds, inside
    <3>3. paid'[p] = {i \in Store \X Migration : i[2] \in ck.walk.keep[i[1]]}
      BY <1>1, <3>2, TypeParts DEF Base, MarksType
    <3>4. ck.walk.keep[s] = Debts(st[p][s], points[s]) /\ \A m \in ck.walk.keep[s] : m \in Migration
      BY <3>2, WalkIs
    <3>5. ASSUME NEW m \in ck.walk.keep[s] PROVE m \in Over(<<s, points[s]>>)'
      <4>1. <<s, m>> \in paid'[p] /\ m \in Migration
        BY <3>3, <3>4
      <4>2. <<<<s, points[s]>>, m>> \in ended'
        BY <3>2, <4>1
      <4> QED  BY <1>1, <4>1, <4>2 DEF Over
    <3> QED  BY <2>2, <3>2, <3>4, <3>5
  <2> QED  BY <2>1, <2>2
<1>3. \A q \in Process, s \in Store : (pc[q] = "paid" => Debts(st[q][s], points[s]) \subseteq Over(<<s, points[s]>>))'
  BY <1>1, <1>2 DEF Debts, OwedAt, MigsOf
<1> QED  BY <1>3 DEF AllPaid

LEMMA WalkedIsBackStep ==
    ASSUME Inv, NEW p \in Process, Run(p)
    PROVE  WalkedIsBack'
<1>1. Base /\ points' = points /\ gaps \subseteq gaps' /\ ck \in Ck \cup {None}
  BY StepFrame, TypeParts DEF Inv, Base, StoresType
<1>2. ck # None => /\ ck.done \subseteq Unit /\ \A s \in Store : ck.at[s] # {}
                   /\ \A s \in Store, u \in ck.done, d \in Dest :
                         ck.at[s] = {d} /\ u[1] \in ck.walk.keep[s] /\ <<<<s, d>>, u[1]>> \notin gaps
                             => back[<<s, d>>][u] <= Oldest[u[1]]
  BY <1>1 DEF Inv, WalkedIsBack, Ck
<1>3. \A s \in Store, d \in Dest, u \in Unit : <<s, d>> \in Place /\ back[<<s, d>>] \in [Unit -> 1..Today]
                                               /\ back[<<s, d>>][u] \in Nat /\ Oldest[u[1]] \in Nat
  <2>1. ASSUME NEW s \in Store, NEW d \in Dest, NEW u \in Unit
        PROVE  /\ <<s, d>> \in Place /\ back[<<s, d>>] \in [Unit -> 1..Today]
               /\ back[<<s, d>>][u] \in Nat /\ Oldest[u[1]] \in Nat
    <3>1. <<s, d>> \in Place
      BY DEF Place
    <3>2. back \in [Place -> [Unit -> 1..Today]]
      BY <1>1, TypeParts DEF Base, StoresType
    <3>3. back[<<s, d>>] \in [Unit -> 1..Today]
      BY <3>1, <3>2
    <3>4. back[<<s, d>>][u] \in 1..Today
      BY <3>3
    <3>5. Oldest[u[1]] \in 1..(Today - 1)
      BY ProcessAssumption DEF Unit
    <3> QED  BY <3>1, <3>3, <3>4, <3>5, NoneApart
  <2> QED  BY <2>1
<1>4. Base'
  BY <1>1, StepBase DEF Next
<1>5. \A s \in Store, d \in Dest, u \in Unit : back'[<<s, d>>][u] \in Nat
  <2>1. back' \in [Place -> [Unit -> 1..Today]]
    BY <1>4 DEF Base, TypeOK
  <2>2. ASSUME NEW s \in Store, NEW d \in Dest, NEW u \in Unit PROVE back'[<<s, d>>][u] \in Nat
    <3>1. back'[<<s, d>>] \in [Unit -> 1..Today]
      BY <1>3, <2>1
    <3>2. back'[<<s, d>>][u] \in 1..Today
      BY <3>1
    <3> QED  BY <3>2, NoneApart
  <2> QED  BY <2>2
<1>6. ASSUME ck # None, ck' = ck, ~Clear(p) PROVE WalkedIsBack'
  <2>1. ASSUME NEW s \in Store, NEW u \in ck.done, NEW d \in Dest,
               ck.at[s] = {d}, u[1] \in ck.walk.keep[s], <<<<s, d>>, u[1]>> \notin gaps'
        PROVE  back'[<<s, d>>][u] <= Oldest[u[1]]
    <3>1. back[<<s, d>>][u] <= Oldest[u[1]] /\ u \in Unit
      BY <1>1, <1>2, <1>6, <2>1
    <3>2. back'[<<s, d>>][u] <= back[<<s, d>>][u]
      BY <1>1, <1>3, <1>6, <3>1, BackGrows
    <3> QED  BY <1>3, <1>5, <3>1, <3>2
  <2> QED  BY <1>2, <1>6, <2>1 DEF WalkedIsBack
<1>7. CASE Clear(p)
  <2>1. /\ pc[p] = "touch" /\ ck' = ck
        /\ back' = [back EXCEPT ![Here(p)] = [u \in Unit |-> IF u[1] = item[p].mig THEN Today ELSE back[Here(p)][u]]]
        /\ gaps' = IF ClearedAgain(p) THEN gaps \cup {<<Here(p), item[p].mig>>} ELSE gaps
    BY <1>7 DEF Clear, Answered
  <2>2. /\ Here(p) \in Place /\ back \in [Place -> [Unit -> 1..Today]]
        /\ Here(p) = <<item[p].store, points[item[p].store]>>
    BY <1>1, <2>1, HereType, TypeParts DEF Base, StoresType
  <2>3. ASSUME ck # None, NEW s \in Store, NEW u \in ck.done, NEW d \in Dest,
               ck.at[s] = {d}, u[1] \in ck.walk.keep[s], <<<<s, d>>, u[1]>> \notin gaps'
        PROVE  back'[<<s, d>>][u] <= Oldest[u[1]]
    <3>1. back[<<s, d>>][u] <= Oldest[u[1]] /\ u \in Unit
      BY <1>1, <1>2, <2>3
    <3>2. ~(<<s, d>> = Here(p) /\ u[1] = item[p].mig)
      <4>1. ASSUME <<s, d>> = Here(p), u[1] = item[p].mig PROVE ClearedAgain(p)
        <5>1. s = item[p].store /\ d = points[s]
          BY <2>2, <4>1
        <5> QED  BY <2>3, <4>1, <5>1 DEF ClearedAgain
      <4> QED  BY <2>1, <2>3, <4>1
    <3>3. back'[<<s, d>>][u] = back[<<s, d>>][u]
      <4>1. CASE <<s, d>> = Here(p)
        <5>1. back'[<<s, d>>] = [v \in Unit |-> IF v[1] = item[p].mig THEN Today ELSE back[<<s, d>>][v]]
          BY <2>1, <2>2, <4>1
        <5> QED  BY <3>1, <3>2, <4>1, <5>1
      <4>2. CASE <<s, d>> # Here(p)
        BY <1>3, <2>1, <2>2, <4>2
      <4> QED  BY <4>1, <4>2
    <3> QED  BY <3>1, <3>3
  <2> QED  BY <1>2, <2>1, <2>3 DEF WalkedIsBack
<1>8. CASE WalkUnit(p)
  <2>1. /\ pc[p] = "walk" /\ ck' # None /\ ck'.walk = ck.walk /\ ck'.at = ck.at /\ gaps' = gaps
    BY <1>8, WalkUnitStep
  <2>2. PICK v \in UnitsOf(ck.walk) \ ck.done :
          /\ ck'.done = ck.done \cup {v}
          /\ back' = [at \in Place |->
                         IF at[2] = points[at[1]] /\ v[1] \in ck.walk.keep[at[1]]
                         THEN [back[at] EXCEPT ![v] = Written(v, @)] ELSE back[at]]
    BY <1>8, WalkUnitStep
  <2>3. ck # None /\ ck \in Ck /\ ck.walk.since \in Nat /\ \A s \in Store : points[s] \in ck.at[s]
    BY <2>1, WalkIs DEF Inv, Walking
  <2>4. v \in Unit /\ ck.walk.since <= Oldest[v[1]]
    <3>1. PICK s \in Store : v[1] \in ck.walk.keep[s]
      BY DEF UnitsOf
    <3> QED  BY <2>1, <3>1, WalkIs DEF UnitsOf
  <2>5. \A was \in Nat : Written(v, was) <= Oldest[v[1]]
    BY <1>3, <2>3, <2>4, ProcessAssumption, NoneApart DEF Written, Unit
  <2>6. ASSUME NEW s \in Store, NEW u \in ck'.done, NEW d \in Dest,
               ck'.at[s] = {d}, u[1] \in ck'.walk.keep[s], <<<<s, d>>, u[1]>> \notin gaps'
        PROVE  back'[<<s, d>>][u] <= Oldest[u[1]]
    <3>1. d = points[s]
      BY <2>1, <2>3, <2>6
    <3>2. u \in Unit
      BY <1>2, <2>2, <2>3, <2>4
    <3>3. CASE u = v
      <4>1. back'[<<s, d>>] = [back[<<s, d>>] EXCEPT ![v] = Written(v, back[<<s, d>>][v])]
        <5>1. v[1] \in ck.walk.keep[s]
          BY <2>1, <2>6, <3>3
        <5>2. <<s, d>> \in Place /\ <<s, d>>[1] = s /\ <<s, d>>[2] = d
          BY DEF Place
        <5> QED  BY <2>2, <3>1, <5>1, <5>2
      <4>2. back'[<<s, d>>][v] = Written(v, back[<<s, d>>][v])
        BY <1>3, <2>4, <4>1
      <4> QED  BY <1>3, <2>4, <2>5, <3>3, <4>2
    <3>4. CASE u # v
      <4>1. back[<<s, d>>][u] <= Oldest[u[1]]
        BY <1>2, <2>1, <2>2, <2>3, <2>6, <3>4
      <4>2. back'[<<s, d>>][u] <= back[<<s, d>>][u]
        <5>1. ~Clear(p)
          BY <2>1 DEF Clear
        <5> QED  BY <1>1, <1>3, <3>2, <5>1, BackGrows
      <4> QED  BY <1>3, <1>5, <3>2, <4>1, <4>2
    <3> QED  BY <3>3, <3>4
  <2> QED  BY <1>2, <2>1, <2>3, <2>6 DEF WalkedIsBack
<1>9. CASE OpenRefill(p)
  <2> DEFINE w == WalkOf(st[p])
  <2>1. /\ ck'.walk = w /\ ck'.done = KeptCk(w).done
        /\ \A s \in Store : ck'.at[s] = KeptCk(w).at[s] \cup {points[s]}
        /\ UNCHANGED back /\ ck' \in Ck
    BY <1>1, <1>9, OpenRefillStep DEF stores
  <2> HIDE DEF w
  <2>2. ASSUME NEW s \in Store, NEW u \in ck'.done, NEW d \in Dest,
               ck'.at[s] = {d}, u[1] \in ck'.walk.keep[s], <<<<s, d>>, u[1]>> \notin gaps'
        PROVE  back'[<<s, d>>][u] <= Oldest[u[1]]
    <3>1. ck # None /\ ck.walk = w /\ u \in ck.done /\ ck'.at[s] = ck.at[s] \cup {points[s]}
      <4>1. CASE ck # None /\ ck.walk = w
        BY <2>1, <2>2, <4>1 DEF KeptCk
      <4>2. CASE ~(ck # None /\ ck.walk = w)
        <5>1. KeptCk(w) = [walk |-> w, done |-> {}, at |-> [t \in Store |-> {}]]
          BY <4>2 DEF KeptCk
        <5>2. KeptCk(w).done = {}
          BY <5>1
        <5> QED  BY <2>1, <2>2, <5>2
      <4> QED  BY <4>1, <4>2
    <3>2. ck.at[s] = {d}
      BY <1>2, <2>2, <3>1
    <3>3. back[<<s, d>>][u] <= Oldest[u[1]]
      BY <1>1, <1>2, <2>1, <2>2, <3>1, <3>2
    <3> QED  BY <2>1, <3>3
  <2> QED  BY <2>1, <2>2 DEF WalkedIsBack
<1>10. CASE WalkEnds(p)
  BY <1>10 DEF WalkEnds, WalkedIsBack
<1>11. CASE ~Clear(p) /\ ~WalkUnit(p) /\ ~OpenRefill(p) /\ ~WalkEnds(p)
  <2>1. ck' = ck
    BY <1>11 DEF Run, StartHolding, StartOneShot, TakeLock, Owe, OnlyCopy, NotCleared, Answered, Settle,
           NothingOwed, WalkStops, Paid, Purge, Finish, End, Stop, Crash, Gone, lasting
  <2>2. CASE ck # None
    BY <1>6, <1>11, <2>1, <2>2
  <2>3. CASE ck = None
    BY <2>1, <2>3 DEF WalkedIsBack
  <2> QED  BY <2>2, <2>3
<1> QED  BY <1>7, <1>8, <1>9, <1>10, <1>11


\* A save forgets no debt of the state file that no process has dropped.
LEMMA SavingKeepsOne ==
    ASSUME Base, NEW p \in Process, NEW mine, Ready(p, mine), Saving(p, mine),
           NEW s \in Store, NEW d \in Dest, NEW m, m \in Debts(disk[s], d),
           \A q \in Process : m \notin Debts(loaded[q][s], d) \ Debts(st[q][s], d),
           Debts(st[p][s], d) \subseteq Debts(mine[s], d)
    PROVE  /\ m \in Debts(disk'[s], d)
           /\ \A q \in Process : m \notin Debts(loaded'[q][s], d) \ Debts(st'[q][s], d)
<1> DEFINE merged == Merged(p, mine)[s]
<1>1. Kept(Debts(loaded[p][s], d), Debts(mine[s], d), Debts(disk[s], d), Debts(merged, d))
  BY MergedSound DEF Base
<1>2. /\ \A q \in Process \ {p} : st'[q] = st[q] /\ loaded'[q] = loaded[q]
      /\ \/ /\ st'[p][s] = None /\ loaded'[p][s] = None
            /\ disk'[s] \in {disk[s], merged}
         \/ /\ loaded'[p][s] = loaded[p][s] /\ disk'[s] = disk[s]
            /\ st'[p][s] \in {st[p][s], merged}
         \/ /\ loaded'[p][s] = merged /\ disk'[s] = merged
            /\ st'[p][s] = merged
  BY SavingForms
<1>3. m \in Debts(merged, d)
  BY <1>1 DEF Kept
<1>4. Debts(None, d) = {}
  BY DEF Debts, OwedAt, MigsOf
<1> HIDE DEF merged
<1>5. m \in Debts(disk'[s], d)
  BY <1>2, <1>3
<1>6. ASSUME NEW q \in Process PROVE m \notin Debts(loaded'[q][s], d) \ Debts(st'[q][s], d)
  <2>1. CASE q = p
    BY <1>2, <1>3, <1>4, <2>1
  <2>2. CASE q # p
    BY <1>2, <2>2
  <2> QED  BY <2>1, <2>2
<1> QED  BY <1>5, <1>6

\* What is recorded as owed is on disk once that is saved, but where another
\* process has ended a debt this one records just as it had read it.
LEMMA OweOwed ==
    ASSUME Base, NEW p \in Process, pc[p] # "off", NEW i \in Item,
           ~OwedOnlyBefore(p, i.store, Owing(p, i))
    PROVE  i.mig \in Debts(Merged(p, Owing(p, i))[i.store], points[i.store])
<1> DEFINE s == i.store
           d == points[s]
           base == loaded[p][s]
           mine == Owing(p, i)[s]
           theirs == disk[s]
           merged == Merged(p, Owing(p, i))[s]
<1>1. Ready(p, Owing(p, i)) /\ s \in Store /\ d \in Dest
  BY OwingReady, TypeParts DEF Base, StoresType
<1>2. Kept(Debts(base, d), Debts(mine, d), Debts(theirs, d), Debts(merged, d))
  BY <1>1, MergedSound DEF Base
<1>3. /\ mine \in Record /\ mine.dest = d /\ base \in MaybeRecord /\ theirs \in MaybeRecord
      /\ theirs = base \/ (theirs # None /\ theirs.dest = d)
      /\ merged = MergeRecord(base, mine, theirs)
  BY <1>1 DEF Ready, Base, TypeOK, Pointed, Merged
<1>4. i.mig \in Debts(mine, d)
  <2>1. Debts(mine, d) = Debts(st[p][s], d) \cup (IF d = points[s] THEN {i.mig} ELSE {})
    BY <1>1, OwingReady
  <2> QED  BY <2>1
<1>5. mine.own \in Former /\ mine # None
  BY <1>3, NoneApart DEF Record
<1>6. i.mig \in MigsOf(mine.own.refill)
  BY <1>3, <1>4, <1>5 DEF Debts, OwedAt
<1>7. OwedAt(theirs, d) # OwedAt(base, d) => mine.own.refill # OwedAt(base, d)
  BY DEF OwedOnlyBefore
<1> HIDE DEF s, d, base, mine, theirs, merged
<1>8. CASE i.mig \notin Debts(base, d) \/ i.mig \in Debts(theirs, d)
  BY <1>2, <1>4, <1>8 DEF Kept, merged, s, d
<1>9. CASE i.mig \in Debts(base, d) /\ i.mig \notin Debts(theirs, d)
  <2>1. theirs # base /\ theirs # None /\ theirs \in Record /\ theirs.dest = d /\ base \in Record
    BY <1>3, <1>9 DEF Debts, OwedAt, MigsOf, MaybeRecord
  <2>2. mine.own.refill # OwedAt(base, d)
    BY <1>7, <1>9 DEF Debts
  <2>3. mine # base
    BY <1>3, <1>5, <2>2 DEF OwedAt
  <2>4. merged = MergeSame(base, mine, theirs)
    BY <1>3, <1>5, <2>1, <2>3 DEF MergeRecord
  <2> DEFINE b == IF base # None /\ base.dest = mine.dest THEN base ELSE NewRecord(mine.dest)
  <2>5. b.own \in Former /\ mine.own.refill # b.own.refill
    <3>1. CASE base.dest = d
      <4>1. b = base /\ base # None
        BY <1>3, <2>1, <3>1, NoneApart
      <4>2. OwedAt(base, d) = base.own.refill /\ base.own \in Former
        BY <2>1, <3>1, <4>1 DEF OwedAt, Record
      <4> HIDE DEF b
      <4> QED  BY <2>2, <4>1, <4>2
    <3>2. CASE base.dest # d
      BY <1>1, <1>3, <1>6, <2>1, <3>2, NewRecordSound, NothingSound DEF MigsOf
    <3> QED  BY <3>1, <3>2
  <2> HIDE DEF b
  <2>6. merged.dest = d /\ merged.own = MergeFields(b.own, mine.own, theirs.own)
    BY <1>3, <2>4 DEF MergeSame, b
  <2>7. merged.own.refill = MergeRefill(b.own.refill, mine.own.refill, theirs.own.refill)
    BY <2>6 DEF MergeFields
  <2>8. mine.own.refill \in MaybeRefill /\ theirs.own.refill \in MaybeRefill
    BY <1>5, <2>1 DEF Former, Record
  <2>9. i.mig \in MigsOf(merged.own.refill)
    BY <1>6, <2>5, <2>7, <2>8, UnionSound DEF MergeRefill
  <2>10. merged # None
    BY <1>1, MergedSound, NoneApart DEF Base, Ready, merged, s
  <2> QED  BY <2>6, <2>9, <2>10 DEF Debts, OwedAt, merged, s, d
<1> QED  BY <1>8, <1>9

LEMMA TouchingStep ==
    ASSUME Inv, NEW r \in Process, Run(r)
    PROVE  Touching'
<1>1. Base /\ points' = points /\ gaps \subseteq gaps'
  BY StepFrame DEF Inv
<1>2. ASSUME NEW p \in Process, pc'[p] = "touch", ~Lost(p)', p # r
      PROVE  LET s == item'[p].store IN
             /\ item'[p].mig \in Debts(disk'[s], points[s])
             /\ \A q \in Process : item'[p].mig \notin Debts(loaded'[q][s], points[s]) \ Debts(st'[q][s], points[s])
  <2> DEFINE s == item[p].store
             m == item[p].mig
             d == points[s]
  <2>1. pc[p] = "touch" /\ item'[p] = item[p]
    BY <1>1, <1>2, StepFrame
  <2>2. pc[r] \notin Working
    BY <1>1, <1>2, <2>1, OneWorks DEF Working
  <2>3. gaps' = gaps
    BY <1>1, <2>2, IdleFrame
  <2>4. ~Lost(p)
    BY <1>1, <1>2, <2>1, <2>3 DEF Lost, Here
  <2>5. /\ m \in Debts(disk[s], d) /\ s \in Store /\ d \in Dest
        /\ \A q \in Process : m \notin Debts(loaded[q][s], d) \ Debts(st[q][s], d)
    BY <1>1, <2>1, <2>4, HereType, TypeParts DEF Inv, Touching, Base, StoresType
  <2> HIDE DEF s, m, d
  <2>6. /\ m \in Debts(disk'[s], d)
        /\ \A q \in Process : m \notin Debts(loaded'[q][s], d) \ Debts(st'[q][s], d)
    <3>1. CASE UNCHANGED <<disk, st, loaded>>
      BY <2>5, <3>1
    <3>2. CASE Opened(r) /\ UNCHANGED disk
      <4>1. /\ st' = [st EXCEPT ![r] = OpenedRecords(r)] /\ loaded' = [loaded EXCEPT ![r] = disk]
            /\ Debts(disk[s], d) \subseteq Debts(OpenedRecords(r)[s], d)
        BY <1>1, <2>5, <3>2, OpenedSound DEF Base
      <4>2. /\ st'[r] = OpenedRecords(r) /\ loaded'[r] = disk
            /\ \A q \in Process \ {r} : st'[q] = st[q] /\ loaded'[q] = loaded[q]
        BY <1>1, <4>1, TypeParts DEF Base, Files
      <4>3. ASSUME NEW q \in Process PROVE m \notin Debts(loaded'[q][s], d) \ Debts(st'[q][s], d)
        <5>1. CASE q = r
          BY <4>1, <4>2, <5>1
        <5>2. CASE q # r
          BY <2>5, <4>2, <5>2
        <5> QED  BY <5>1, <5>2
      <4> QED  BY <2>5, <3>2, <4>3
    <3>3. ASSUME NEW mine, SaveSound(r, mine)
          PROVE  /\ m \in Debts(disk'[s], d)
                 /\ \A q \in Process : m \notin Debts(loaded'[q][s], d) \ Debts(st'[q][s], d)
      <4>1. Ready(r, mine) /\ Saving(r, mine) /\ Debts(st[r][s], d) \subseteq Debts(mine[s], d)
        BY <2>2, <2>5, <3>3 DEF SaveSound
      <4> QED  BY <1>1, <2>5, <4>1, SavingKeepsOne
    <3> QED  BY <3>1, <3>2, <3>3, StepKinds
  <2> QED  BY <2>1, <2>6 DEF s, m, d
<1>3. ASSUME pc'[r] = "touch", ~Lost(r)'
      PROVE  LET s == item'[r].store IN
             /\ item'[r].mig \in Debts(disk'[s], points[s])
             /\ \A q \in Process : item'[r].mig \notin Debts(loaded'[q][s], points[s]) \ Debts(st'[q][s], points[s])
  <2>1. Owe(r) /\ pc[r] = "apply"
    BY <1>1, <1>3, PcMoves
  <2>2. PICK i \in chosen[r] :
          /\ i \in Item /\ item' = [item EXCEPT ![r] = i]
          /\ gaps' = IF OwedOnlyBefore(r, i.store, Owing(r, i)) \/ EndedUnsaved(r, i.store, i.mig)
                     THEN gaps \cup {<<<<i.store, points[i.store]>>, i.mig>>} ELSE gaps
          /\ Saved(r, Owing(r, i)) \/ pc' = pc
    BY <1>1, <2>1, OweStep
  <2> DEFINE s == i.store
             m == i.mig
             d == points[s]
             merged == Merged(r, Owing(r, i))
  <2>3. item'[r] = i
    BY <1>1, <2>2, TypeParts DEF Base, InsideType
  <2>4. Saved(r, Owing(r, i))
    BY <1>3, <2>1, <2>2
  <2>5. <<<<s, d>>, m>> \notin gaps'
    BY <1>1, <1>3, <2>3 DEF Lost, Here
  <2>6. ~OwedOnlyBefore(r, s, Owing(r, i)) /\ ~EndedUnsaved(r, s, m)
    BY <2>2, <2>5
  <2>7. m \in Debts(merged[s], d)
    BY <1>1, <2>1, <2>2, <2>6, OweOwed
  <2>8. st' = [st EXCEPT ![r] = merged] /\ loaded' = [loaded EXCEPT ![r] = merged] /\ disk' = merged
    BY <2>4 DEF Saved
  <2>9. \A q \in Process \ {r} : m \notin Debts(loaded[q][s], d) \ Debts(st[q][s], d)
    BY <2>6 DEF EndedUnsaved, Debts
  <2> HIDE DEF s, m, d, merged
  <2>10. /\ st'[r] = merged /\ loaded'[r] = merged
         /\ \A q \in Process \ {r} : st'[q] = st[q] /\ loaded'[q] = loaded[q]
    BY <1>1, <2>8, TypeParts DEF Base, Files
  <2>11. ASSUME NEW q \in Process PROVE m \notin Debts(loaded'[q][s], d) \ Debts(st'[q][s], d)
    <3>1. CASE q = r
      BY <2>10, <3>1
    <3>2. CASE q # r
      BY <2>9, <2>10, <3>2
    <3> QED  BY <3>1, <3>2
  <2> QED  BY <2>3, <2>7, <2>8, <2>11 DEF s, m, d
<1>4. ASSUME NEW p \in Process, pc'[p] = "touch", ~Lost(p)'
      PROVE  LET s == item'[p].store IN
             /\ item'[p].mig \in Debts(disk'[s], points'[s])
             /\ \A q \in Process : item'[p].mig \notin Debts(loaded'[q][s], points'[s]) \ Debts(st'[q][s], points'[s])
  <2>1. CASE p = r
    BY <1>1, <1>3, <1>4, <2>1
  <2>2. CASE p # r
    BY <1>1, <1>2, <1>4, <2>2
  <2> QED  BY <2>1, <2>2
<1> QED  BY <1>4 DEF Touching, Debts, OwedAt, MigsOf

\* A save that replaces no record keeps what this one recorded.
LEMMA KeptIsMine ==
    ASSUME Base, NEW p \in Process, NEW mine, Ready(p, mine), NEW s \in Store, KeptByMerge(p, s, mine)
    PROVE  Merged(p, mine)[s] = mine[s]
<1>1. mine[s] # loaded[p][s] /\ disk[s] \in {loaded[p][s], None}
  BY DEF KeptByMerge
<1> QED  BY <1>1 DEF Merged, MergeRecord

LEMMA TakenBackStep ==
    ASSUME Inv, NEW r \in Process, Run(r)
    PROVE  TakenBack'
<1>1. Base /\ points' = points /\ gaps \subseteq gaps' /\ MissingOwed
  BY StepFrame, MissingIs DEF Inv, InTime
<1> DEFINE Safe(p) == LET s == item[p].store IN
               /\ Debts(st[p][s], points[s]) \subseteq MigsOf(before[p]) \cup {item[p].mig}
               /\ (pc[p] = "settle" => answer[p].said = "untouched") /\ item[p].mig \notin MigsOf(before[p]) /\ ~Lost(p)
                     => ~Missing(Here(p), item[p].mig)
<1>2. ASSUME NEW p \in Process, pc'[p] \in {"touch", "settle"}, ours'[p], p # r
      PROVE  Safe(p)'
  <2>1. /\ pc'[p] = pc[p] /\ item'[p] = item[p] /\ st'[p] = st[p] /\ ours'[p] = ours[p]
        /\ before'[p] = before[p] /\ answer'[p] = answer[p]
    BY <1>1, <1>2, StepFrame
  <2>2. pc[r] \notin Working
    BY <1>1, <1>2, <2>1, OneWorks DEF Working
  <2>3. UNCHANGED <<back, gaps>>
    BY <1>1, <2>2, IdleFrame
  <2>4. Safe(p)
    BY <1>2, <2>1 DEF Inv, TakenBack
  <2> QED  BY <1>1, <2>1, <2>3, <2>4 DEF Lost, Here, Missing, Debts, OwedAt, MigsOf
<1>3. ASSUME pc'[r] = "touch", ours'[r] PROVE Safe(r)'
  <2>1. Owe(r) /\ pc[r] = "apply"
    BY <1>1, <1>3, PcMoves
  <2>2. PICK i \in chosen[r] :
          /\ i \in Item /\ item' = [item EXCEPT ![r] = i]
          /\ before' = [before EXCEPT ![r] = st[r][i.store].own.refill]
          /\ ours' = [ours EXCEPT ![r] = KeptByMerge(r, i.store, Owing(r, i))]
          /\ Saved(r, Owing(r, i)) \/ pc' = pc
          /\ UNCHANGED back
    BY <1>1, <2>1, OweStep DEF stores
  <2> DEFINE s == i.store
             m == i.mig
             d == points[s]
  <2>3. /\ item'[r] = i /\ before'[r] = st[r][s].own.refill /\ KeptByMerge(r, s, Owing(r, i))
    BY <1>1, <1>3, <2>2, TypeParts DEF Base, InsideType
  <2>4. /\ Saved(r, Owing(r, i)) /\ Ready(r, Owing(r, i)) /\ Ready(r, st[r]) /\ s \in Store /\ m \in Migration
        /\ Debts(Owing(r, i)[s], d) = Debts(st[r][s], d) \cup {m}
    <3>1. Debts(Owing(r, i)[s], d) = Debts(st[r][s], d) \cup (IF d = points[i.store] THEN {i.mig} ELSE {})
      BY <1>1, <2>1, <2>2, OwingReady, TypeParts DEF Base, StoresType
    <3>2. Debts(Owing(r, i)[s], d) = Debts(st[r][s], d) \cup {m}
      BY <3>1
    <3>3. Saved(r, Owing(r, i))
      BY <1>3, <2>1, <2>2
    <3> QED  BY <1>1, <2>1, <2>2, <3>2, <3>3, OwingReady
  <2>5. Merged(r, Owing(r, i))[s] = Owing(r, i)[s]
    BY <1>1, <2>3, <2>4, KeptIsMine
  <2>6. st'[r][s] = Owing(r, i)[s]
    BY <1>1, <2>4, <2>5, TypeParts DEF Saved, Base, Files
  <2>7. Debts(st[r][s], d) = MigsOf(before'[r])
    <3>1. st[r][s].dest = d /\ st[r][s] # None
      BY <2>4, NoneApart DEF Ready
    <3> QED  BY <2>3, <3>1 DEF Debts, OwedAt
  <2>8. d \in Dest /\ <<s, d>> \in Place
    BY <1>1, <2>4, TypeParts DEF Base, StoresType, Place
  <2>9. ASSUME m \notin MigsOf(before'[r]), <<<<s, d>>, m>> \notin gaps', Missing(<<s, d>>, m) PROVE FALSE
    <3>1. <<<<s, d>>, m>> \notin gaps
      BY <1>1, <2>9
    <3>2. m \in Debts(disk[s], d)
      BY <1>1, <2>4, <2>8, <2>9, <3>1 DEF MissingOwed
    <3>3. disk[s] = loaded[r][s]
      BY <2>3, <3>2 DEF KeptByMerge, Debts, OwedAt, MigsOf
    <3>4. Debts(loaded[r][s], d) \ Debts(st[r][s], d) \subseteq Over(<<s, d>>)
      BY <2>4, <2>8 DEF Inv, Drops, Within
    <3>5. m \in Over(<<s, d>>)
      BY <2>7, <2>9, <3>2, <3>3, <3>4
    <3>6. <<<<s, d>>, m>> \in ended
      BY <3>1, <3>5 DEF Over
    <3> QED  BY <2>4, <2>8, <2>9, <3>1, <3>6 DEF Inv, EndedIsBack
  <2>10. Missing(<<s, d>>, m)' <=> Missing(<<s, d>>, m)
    BY <1>1, <2>2 DEF Missing
  <2>11. Lost(r)' <=> <<<<s, d>>, m>> \in gaps'
    BY <1>1, <2>3 DEF Lost, Here
  <2>12. Here(r)' = <<s, d>>
    BY <1>1, <2>3 DEF Here
  <2>13. Debts(st'[r][s], d) \subseteq MigsOf(before'[r]) \cup {m}
    BY <2>4, <2>6, <2>7
  <2>14. /\ Debts(st'[r][item'[r].store], points'[item'[r].store]) \subseteq MigsOf(before'[r]) \cup {item'[r].mig}
         /\ item'[r].mig \notin MigsOf(before'[r]) /\ ~Lost(r)' => ~Missing(Here(r), item[r].mig)'
    <3>1. Debts(st'[r][item'[r].store], points'[item'[r].store]) \subseteq MigsOf(before'[r]) \cup {item'[r].mig}
      BY <1>1, <2>3, <2>13
    <3>2. Missing(Here(r), item[r].mig)' <=> Missing(<<s, d>>, m)
      <4>1. Missing(Here(r), item[r].mig)' <=> \E x \in Repo : back'[<<s, d>>][<<m, x>>] > Oldest[m]
        BY <2>3, <2>12 DEF Missing
      <4>2. Missing(<<s, d>>, m) <=> \E x \in Repo : back'[<<s, d>>][<<m, x>>] > Oldest[m]
        BY <2>2 DEF Missing
      <4> QED  BY <4>1, <4>2
    <3> QED  BY <2>3, <2>9, <2>11, <3>1, <3>2
  <2> QED  BY <2>14 DEF Debts, OwedAt, MigsOf
<1>4. ASSUME pc'[r] = "settle", ours'[r] PROVE Safe(r)'
  <2>1. /\ Clear(r) \/ OnlyCopy(r) \/ NotCleared(r)
        /\ UNCHANGED <<st, item, ours, before>> /\ pc[r] = "touch"
    BY <1>1, <1>4, PcMoves DEF Clear, OnlyCopy, NotCleared, Answered
  <2>2. Safe(r)
    BY <1>4, <2>1 DEF Inv, TakenBack
  <2>3. CASE Clear(r)
    <3>1. answer'[r].said # "untouched"
      BY <1>1, <2>3, TypeParts DEF Clear, Answered, Base, InsideType
    <3> QED  BY <1>1, <1>4, <2>1, <2>2, <3>1 DEF Debts, OwedAt, MigsOf
  <2>4. CASE OnlyCopy(r) \/ NotCleared(r)
    <3>1. UNCHANGED <<back, gaps>>
      BY <2>4 DEF OnlyCopy, NotCleared
    <3> QED  BY <1>1, <2>1, <2>2, <3>1 DEF Lost, Here, Missing, Debts, OwedAt, MigsOf
  <2> QED  BY <2>1, <2>3, <2>4
<1>5. ASSUME NEW p \in Process, pc'[p] \in {"touch", "settle"}, ours'[p] PROVE Safe(p)'
  <2>1. CASE p = r
    BY <1>3, <1>4, <1>5, <2>1
  <2>2. CASE p # r
    BY <1>2, <1>5, <2>2
  <2> QED  BY <2>1, <2>2
<1> QED  BY <1>5 DEF TakenBack

-----------------------------------------------------------------------------
(* The invariant, and what follows from it.                                *)

LEMMA InitInv == Init => Inv
<1> SUFFICES ASSUME Init PROVE Inv
  OBVIOUS
<1>1. Base
  BY InitBase
<1>2. /\ \A s \in Store : disk[s] = None
      /\ \A q \in Process, s \in Store : st[q][s] = None /\ loaded[q][s] = None
      /\ \A q \in Process : before[q] = None /\ chosen[q] = {} /\ pc[q] = "off"
      /\ ended = {} /\ gaps = {} /\ ck = None
  BY DEF Init, NoRecords
<1>3. \A at \in Place, m \in Migration, r \in Repo : back[at][<<m, r>>] = Oldest[m]
  BY DEF Init, Unit
<1>4. InTime
  BY <1>2 DEF InTime, FilesReach, BeforeReach, ChosenReach, RecordReaches, Reaches, MigsOf
<1>5. OldIsWhole
  BY <1>1, <1>3, TypeParts DEF OldIsWhole, Base, StoresType
<1>6. Drops
  BY <1>2 DEF Drops, Within, NamedAt, Debts, OwedAt, MigsOf
<1>7. EndedIsBack /\ Touching /\ TakenBack /\ Walking /\ WalkedIsBack /\ AllPaid
  BY <1>2 DEF EndedIsBack, Touching, TakenBack, Walking, WalkedIsBack, AllPaid
<1>8. \A at \in Place, m \in Migration : ~Missing(at, m)
  <2>1. \A m \in Migration : Oldest[m] \in 1..(Today - 1)
    BY ProcessAssumption
  <2>2. \A m \in Migration : ~(Oldest[m] > Oldest[m])
    <3>1. \A n \in 1..(Today - 1) : ~(n > n)
      BY NoneApart
    <3> QED  BY <2>1, <3>1
  <2> QED  BY <1>3, <2>2 DEF Missing
<1>9. MissingIsOwed
  BY <1>8 DEF MissingIsOwed, Place
<1> QED  BY <1>1, <1>4, <1>5, <1>6, <1>7, <1>9 DEF Inv

\* A step of a process keeps the invariant.
LEMMA RunInv ==
    ASSUME Inv, NEW p \in Process, Run(p)
    PROVE  Inv'
<1>1. Base'
  BY StepBase DEF Inv, Next
<1>2. InTime' /\ OldIsWhole'
  BY FilesReachStep, BeforeReachStep, ChosenReachStep, OldIsWholeStep DEF Inv, InTime
<1>3. Drops' /\ EndedIsBack' /\ Touching' /\ TakenBack' /\ Walking' /\ WalkedIsBack' /\ AllPaid'
  BY DropsStep, EndedIsBackStep, TouchingStep, TakenBackStep, WalkingStep, WalkedIsBackStep, AllPaidStep
<1>4. MissingIsOwed'
  <2>1. MissingOwed'
    BY <1>3, MissingStep
  <2>2. disk' \in [Store -> MaybeRecord] /\ \A s \in Store : RecordReaches(disk'[s])
    BY <1>1, <1>2 DEF Base, TypeOK, InTime, FilesReach, RecordReaches, FormerReaches, Reaches, MigsOf
  <2>3. ASSUME NEW s \in Store, NEW d \in Dest, NEW m \in Migration,
               Missing(<<s, d>>, m)', <<<<s, d>>, m>> \notin gaps'
        PROVE  m \in MigsOf(OwedAt(disk'[s], d)) /\ OwedAt(disk'[s], d).since <= Oldest[m]
    <3>1. m \in Debts(disk'[s], d)
      BY <2>1, <2>3 DEF MissingOwed, Debts, OwedAt, MigsOf
    <3>2. OwedAt(disk'[s], d).since <= Oldest[m]
      BY <2>2, <3>1, OwedReaches
    <3> QED  BY <3>1, <3>2 DEF Debts
  <2> QED  BY <2>3 DEF MissingIsOwed, OwedAt, MigsOf
<1> QED  BY <1>1, <1>2, <1>3, <1>4 DEF Inv

\* The configuration is changed while nothing runs.
LEMMA MoveInv ==
    ASSUME Inv, Move
    PROVE  Inv'
<1>1. Base'
  BY MoveBase DEF Inv
<1>2. /\ \A p \in Process : pc[p] = "off"
      /\ UNCHANGED <<disk, back, old, copies, letGo, ck, lock, pc, st, loaded, chosen, item, ours, before, answer,
                     paid, ended, gaps>>
  BY DEF Move, stores, inside, marks
<1>3. InTime' /\ OldIsWhole'
  BY <1>2 DEF Inv, InTime, FilesReach, BeforeReach, ChosenReach, OldIsWhole
<1>4. Drops'
  <2>1. [at \in Place |-> Over(at)]' = [at \in Place |-> Over(at)]
    BY <1>2 DEF Over
  <2> QED  BY <1>2, <2>1 DEF Inv, Drops, Within
<1>5. EndedIsBack' /\ WalkedIsBack'
  BY <1>2 DEF Inv, EndedIsBack, WalkedIsBack, Missing
<1>6. Touching' /\ TakenBack' /\ Walking' /\ AllPaid'
  BY <1>2 DEF Touching, TakenBack, Walking, AllPaid
<1>7. MissingIsOwed'
  BY <1>2 DEF Inv, MissingIsOwed, Missing
<1> QED  BY <1>1, <1>3, <1>4, <1>5, <1>6, <1>7 DEF Inv

LEMMA StutterInv ==
    ASSUME Inv, UNCHANGED vars
    PROVE  Inv'
<1>1. Base'
  BY StepBase DEF Inv
<1>2. UNCHANGED <<disk, back, old, copies, letGo, ck, points, lock, pc, st, loaded, chosen, item, ours, before,
                  answer, paid, ended, gaps>>
  BY DEF vars, lasting, stores, inside, marks
<1>3. InTime' /\ OldIsWhole'
  BY <1>2 DEF Inv, InTime, FilesReach, BeforeReach, ChosenReach, OldIsWhole
<1>4. Drops'
  <2>1. [at \in Place |-> Over(at)]' = [at \in Place |-> Over(at)]
    BY <1>2 DEF Over
  <2> QED  BY <1>2, <2>1 DEF Inv, Drops, Within
<1>5. EndedIsBack' /\ WalkedIsBack' /\ MissingIsOwed'
  BY <1>2 DEF Inv, EndedIsBack, WalkedIsBack, MissingIsOwed, Missing
<1>6. Touching' /\ TakenBack'
  BY <1>2 DEF Inv, Touching, TakenBack, Lost, Here, Missing
<1>7. Walking'
  <2>1. \A q \in Process : WalkOf(st[q])' = WalkOf(st[q]) /\ (Owed(st[q])' <=> Owed(st[q]))
    BY <1>2, WalkOfSame
  <2>2. \A s \in Store : Over(<<s, points[s]>>)' = Over(<<s, points[s]>>)
    BY <1>2 DEF Over
  <2> QED  BY <1>2, <2>1, <2>2 DEF Inv, Walking
<1>8. AllPaid'
  BY <1>2 DEF Inv, AllPaid, Over
<1> QED  BY <1>1, <1>3, <1>4, <1>5, <1>6, <1>7, <1>8 DEF Inv

LEMMA StepInv == Inv /\ [Next]_vars => Inv'
BY RunInv, MoveInv, StutterInv DEF Next

\* The invariant is one, for every instance of the constants.
THEOREM AlwaysInv == Spec => []Inv
BY InitInv, StepInv, PTL DEF Spec

\* History that a store lost to a clear is owed on disk as far back as it
\* went, wherever runs stopped and whoever saved the state file: for any
\* number of processes, sinks, destinations, migrations, repositories, stops
\* and failures.
THEOREM AlwaysOwed == Spec => []MissingIsOwed
<1>1. Inv => MissingIsOwed
  BY DEF Inv
<1> QED  BY <1>1, AlwaysInv, PTL

\* What a step takes from the state file's debts and copies.
LEMMA StepTakes ==
    ASSUME Inv, [Next]_vars
    PROVE  \A s \in Store, d \in Dest :
              /\ NamedAt(disk[s], d) \ NamedAt(disk'[s], d) \subseteq letGo'[<<s, d>>]
              /\ Debts(disk[s], d) \ Debts(disk'[s], d)
                     \subseteq {m \in Migration : <<<<s, d>>, m>> \in ended' \cup gaps}
<1>1. CASE UNCHANGED disk
  BY <1>1
<1>2. CASE Move \/ UNCHANGED vars
  <2>1. UNCHANGED disk
    BY <1>2 DEF Move, vars, lasting
  <2> QED  BY <1>1, <2>1
<1>3. ASSUME NEW p \in Process, Run(p)
      PROVE  \A s \in Store, d \in Dest :
                /\ NamedAt(disk[s], d) \ NamedAt(disk'[s], d) \subseteq letGo'[<<s, d>>]
                /\ Debts(disk[s], d) \ Debts(disk'[s], d)
                       \subseteq {m \in Migration : <<<<s, d>>, m>> \in ended' \cup gaps}
  <2>1. CASE UNCHANGED disk
    BY <1>1, <2>1
  <2>2. ASSUME NEW mine, SaveSound(p, mine)
        PROVE  \A s \in Store, d \in Dest :
                  /\ NamedAt(disk[s], d) \ NamedAt(disk'[s], d) \subseteq letGo'[<<s, d>>]
                  /\ Debts(disk[s], d) \ Debts(disk'[s], d)
                         \subseteq {m \in Migration : <<<<s, d>>, m>> \in ended' \cup gaps}
    BY <1>3, <2>2, SaveDrops
  <2> QED  BY <1>3, <2>1, <2>2, StepKinds
<1> QED  BY <1>2, <1>3 DEF Next

\* A debt leaves the state file only when a run read its store back to the
\* end, or took back the debt of a store that says it was left as it was.
THEOREM AlwaysPaid == Spec => DebtOnlyPaid
<1>1. Inv /\ [Next]_vars => [\A s \in Store, d \in Dest :
                                MigsOf(OwedAt(disk[s], d)) \ MigsOf(OwedAt(disk'[s], d))
                                    \subseteq {m \in Migration : <<<<s, d>>, m>> \in ended' \cup gaps}]_vars
  BY StepTakes DEF Debts
<1> QED  BY <1>1, AlwaysInv, PTL DEF Spec, DebtOnlyPaid

\* A copy the state file names stays named until it was let go of, purged by this
\* program or due in a store that purges its own or keeps them for good: no
\* merge, change of destination or failed save forgets one before (merge.go,
\* mergeAsides; purge.go, purge).
THEOREM AlwaysNamed == Spec => NamedUntilLetGo
<1>1. Inv /\ [Next]_vars => [\A s \in Store, d \in Dest :
                                NamedAt(disk[s], d) \ NamedAt(disk'[s], d) \subseteq letGo'[<<s, d>>]]_vars
  BY StepTakes
<1> QED  BY <1>1, AlwaysInv, PTL DEF Spec, NamedUntilLetGo
=============================================================================
