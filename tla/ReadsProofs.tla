----------------------------- MODULE ReadsProofs -----------------------------
(***************************************************************************)
(* Proofs about what a sweep reads since a cursor or a mark.  Feeds, for   *)
(* every size and number of pages: what the cursor steps over was given    *)
(* out, was on a page GitHub would not give, or came late.  Windows, for   *)
(* any repositories, cadence, day and moves: a day's read leaves nothing   *)
(* behind it, and passes join up but for what is excused by name.          *)
(*                                                                         *)
(* Expanded, for any runs and stores: a run whose jobs are not listed      *)
(* again has them in every store of the process.  While no process runs,   *)
(* the promise lies in the cache file, so the invariant is about it: what  *)
(* it claims is held by every store it names but those emptied since, and  *)
(* a ledger that remembers something vouches for there being none.         *)
(***************************************************************************)
EXTENDS Feeds, Windows, Expanded, FiniteSetTheorems, SequenceTheorems, TLAPS

FeedsType ==
    /\ happened \in Nat
    /\ feed \in Seq(1 .. happened) /\ Len(feed) <= Room
    /\ cursor \in 0 .. happened /\ cursorSaved \in 0 .. happened
    /\ page \in 0 .. Delivering
    /\ newest \in 0 .. happened

Accounted(i) == feed[i] \in offered \cup skipped \cup late

Reached(e) == \A i \in 1 .. Len(feed) : Behind(e, i) => Accounted(i)

\* What was read so far is all there is from the newest on, on as many pages,
\* but for what came late; the feed only moves the rest further back.
Reading ==
    page \in 1 .. Pages =>
        /\ after \in {0, cursor}
        /\ \A i \in 1 .. Len(feed) :
              Behind(newest, i) =>
                  feed[i] \in brought \cup late \/ i > (page - 1) * PageSize

\* Before the rows are given out, what the cursor steps over is in hand.
InHand ==
    page = Delivering =>
        \A i \in 1 .. Len(feed) : Behind(cursor, i) => Accounted(i) \/ feed[i] \in brought

FeedsInv ==
    /\ FeedsType
    /\ Reached(cursorSaved)
    /\ page # Delivering => Reached(cursor)
    /\ Reading /\ InHand

LEMMA FeedsInitially == FeedsInit => FeedsInv
<1> SUFFICES ASSUME FeedsInit PROVE FeedsInv
  OBVIOUS
<1>1. feed \in Seq(1 .. 0) /\ Len(feed) = 0
  BY DEF FeedsInit
<1>2. Room \in Nat /\ Pages \in Nat /\ Delivering \in Nat
  BY FeedAssumption DEF Room, Delivering
<1>3. FeedsType
  BY <1>1, <1>2 DEF FeedsInit, FeedsType
<1> QED  BY <1>1, <1>3 DEF FeedsInit, FeedsInv, Reached, Reading, InHand

\* On the feed an event is where it was, or a place further back, or new; what
\* is behind the new one was behind the one before it.
LEMMA HappensMoves ==
    ASSUME FeedsType, NEW i \in 1 .. Room, Happens(i)
    PROVE  /\ happened' = happened + 1
           /\ feed' \in Seq(1 .. happened') /\ Len(feed') <= Room
           /\ \A k \in 1 .. Len(feed') :
                 \/ k < i /\ k \in 1 .. Len(feed) /\ feed'[k] = feed[k]
                 \/ k = i /\ k - 1 \in 0 .. Len(feed) /\ feed'[k] = happened + 1
                 \/ k > i /\ k - 1 \in 1 .. Len(feed) /\ feed'[k] = feed[k - 1]
<1> DEFINE last == IF Len(feed) < Room THEN Len(feed) + 1 ELSE Room
           moved == [k \in 1 .. last |-> IF k < i THEN feed[k]
                                         ELSE IF k = i THEN happened + 1 ELSE feed[k - 1]]
<1>1. /\ happened \in Nat /\ feed \in Seq(1 .. happened) /\ Len(feed) \in Nat /\ Room \in Nat
      /\ Len(feed) <= Room
  BY FeedAssumption DEF FeedsType, Room
<1>2. /\ happened' = happened + 1 /\ i \in 1 .. Len(feed) + 1 /\ feed' = moved
  BY <1>1 DEF Happens
<1>3. last \in Nat /\ last <= Room /\ last <= Len(feed) + 1
  BY <1>1
<1>4. \A k \in 1 .. Len(feed) : feed[k] \in 1 .. happened
  BY <1>1
<1> HIDE DEF last
<1>5. \A k \in 1 .. last :
          \/ k < i /\ k \in 1 .. Len(feed) /\ moved[k] = feed[k]
          \/ k = i /\ k - 1 \in 0 .. Len(feed) /\ moved[k] = happened + 1
          \/ k > i /\ k - 1 \in 1 .. Len(feed) /\ moved[k] = feed[k - 1]
  BY <1>1, <1>2, <1>3
<1>6. moved = [k \in 1 .. last |-> moved[k]]
  OBVIOUS
<1> HIDE DEF moved
<1>7. moved \in [1 .. last -> 1 .. happened + 1]
  <2>1. ASSUME NEW k \in 1 .. last PROVE moved[k] \in 1 .. happened + 1
    <3>1. moved[k] = happened + 1 \/ \E m \in 1 .. Len(feed) : moved[k] = feed[m]
      <4>1. k < i => k \in 1 .. Len(feed) /\ moved[k] = feed[k]
        BY <1>2, <1>3, <1>5
      <4>2. k = i => moved[k] = happened + 1
        BY <1>2, <1>3, <1>5
      <4>3. k > i => k - 1 \in 1 .. Len(feed) /\ moved[k] = feed[k - 1]
        BY <1>2, <1>3, <1>5
      <4> QED  BY <1>2, <1>3, <4>1, <4>2, <4>3
    <3>2. happened + 1 \in 1 .. happened + 1
      BY <1>1
    <3>3. 1 .. happened \subseteq 1 .. happened + 1
      BY <1>1
    <3> QED  BY <1>4, <3>1, <3>2, <3>3, Zenon
  <2> QED  BY <1>6, <2>1, Zenon
<1>8. moved \in Seq(1 .. happened + 1) /\ Len(moved) = last
  <2>1. moved \in Seq(1 .. happened + 1)
    BY <1>3, <1>7, SeqDef, Zenon
  <2>2. DOMAIN moved = 1 .. last
    BY <1>6, Zenon
  <2> QED  BY <1>3, <2>1, <2>2, LenProperties
<1> QED  BY <1>2, <1>3, <1>5, <1>8

\* An event already there is behind another as it was.
LEMMA HappensBehind ==
    ASSUME FeedsType, NEW i \in 1 .. Room, Happens(i), NEW e \in 0 .. happened,
           NEW k \in 1 .. Len(feed'), Behind(e, k)'
    PROVE  /\ k < i => k \in 1 .. Len(feed) /\ Behind(e, k)
           /\ k >= i => Behind(e, k - 1)
<1>1. PICK j \in 1 .. k : feed'[j] = e
  BY DEF Behind
<1>2. happened \in Nat /\ Len(feed) \in Nat /\ Len(feed') \in Nat
  BY HappensMoves DEF FeedsType
<1>3. j \in 1 .. Len(feed') /\ e # happened + 1
  BY <1>1, <1>2
<1>4. \/ j < i /\ j \in 1 .. Len(feed) /\ feed[j] = e
      \/ j > i /\ j - 1 \in 1 .. Len(feed) /\ feed[j - 1] = e
  BY <1>1, <1>3, HappensMoves
<1>5. k < i => k \in 1 .. Len(feed)
  BY HappensMoves
<1> QED  BY <1>1, <1>2, <1>4, <1>5 DEF Behind

LEMMA HappensKept == ASSUME FeedsInv, NEW i \in 1 .. Room, Happens(i) PROVE FeedsInv'
<1>1. UNCHANGED <<cursor, cursorSaved, page, after, newest, brought, offered, skipped>>
  BY DEF Happens, reading
<1>2. /\ FeedsType /\ happened \in Nat /\ happened' = happened + 1
      /\ i \in Nat /\ Len(feed) \in Nat /\ Len(feed') \in Nat
      /\ PageSize \in Nat /\ page \in Nat /\ (page - 1) * PageSize \in Int
  BY HappensMoves, FeedAssumption DEF FeedsInv, FeedsType, Room, Delivering
<1>3. FeedsType'
  BY <1>1, <1>2, HappensMoves DEF FeedsType, Room, Delivering
<1>4. late \subseteq late' /\ (ServedBefore(i) => happened + 1 \in late')
  BY <1>2 DEF Happens
<1>5. ASSUME NEW e \in {cursor, cursorSaved, newest}, NEW k \in 1 .. Len(feed'), Behind(e, k)'
      PROVE  \/ feed'[k] \in late'
             \/ \E m \in 1 .. Len(feed) : m <= k /\ Behind(e, m) /\ feed'[k] = feed[m]
  <2>1. e \in 0 .. happened
    BY <1>2 DEF FeedsType
  <2>2. /\ k < i => k \in 1 .. Len(feed) /\ Behind(e, k)
        /\ k >= i => Behind(e, k - 1)
    BY <1>2, <1>5, <2>1, HappensBehind
  <2>3. CASE k < i
    BY <1>2, <2>2, <2>3, HappensMoves
  <2>4. CASE k = i
    <3>1. ServedBefore(i)
      BY <1>5, <2>2, <2>4 DEF ServedBefore
    <3> QED  BY <1>2, <1>4, <2>4, <3>1, HappensMoves
  <2>5. CASE k > i
    <3>1. k - 1 \in 1 .. Len(feed) /\ feed'[k] = feed[k - 1] /\ Behind(e, k - 1) /\ k - 1 <= k
      BY <1>2, <2>2, <2>5, HappensMoves
    <3> QED  BY <3>1
  <2> QED  BY <1>2, <2>3, <2>4, <2>5
<1>6. ASSUME NEW e \in {cursor, cursorSaved}, Reached(e) PROVE Reached(e)'
  <2>1. ASSUME NEW k \in 1 .. Len(feed'), Behind(e, k)' PROVE Accounted(k)'
    BY <1>1, <1>4, <1>5, <1>6, <2>1 DEF Reached, Accounted
  <2> QED  BY <1>1, <2>1 DEF Reached
<1>7. Reached(cursorSaved)'
  BY <1>1, <1>6 DEF FeedsInv, Reached, Accounted, Behind
<1>8. (page # Delivering => Reached(cursor))'
  BY <1>1, <1>6 DEF FeedsInv, Reached, Accounted, Behind, Delivering
<1>9. Reading'
  <2>1. SUFFICES ASSUME page \in 1 .. Pages, NEW k \in 1 .. Len(feed'), Behind(newest, k)'
                 PROVE  feed'[k] \in brought \cup late' \/ k > (page - 1) * PageSize
    BY <1>1 DEF FeedsInv, Reading
  <2>2. CASE feed'[k] \in late'
    BY <2>2
  <2>3. CASE \E m \in 1 .. Len(feed) : m <= k /\ Behind(newest, m) /\ feed'[k] = feed[m]
    <3>1. PICK m \in 1 .. Len(feed) : m <= k /\ Behind(newest, m) /\ feed'[k] = feed[m]
      BY <2>3
    <3>2. feed[m] \in brought \cup late \/ m > (page - 1) * PageSize
      BY <2>1, <3>1 DEF FeedsInv, Reading
    <3> QED  BY <1>2, <1>4, <3>1, <3>2
  <2>4. \/ feed'[k] \in late'
        \/ \E m \in 1 .. Len(feed) : m <= k /\ Behind(newest, m) /\ feed'[k] = feed[m]
    BY <1>1, <1>5, <2>1 DEF Behind
  <2> QED  BY <2>2, <2>3, <2>4
<1>10. InHand'
  <2>1. SUFFICES ASSUME page = Delivering, NEW k \in 1 .. Len(feed'), Behind(cursor, k)'
                 PROVE  feed'[k] \in offered \cup skipped \cup late' \cup brought
    BY <1>1 DEF InHand, Accounted, Delivering
  <2>2. \/ feed'[k] \in late'
        \/ \E m \in 1 .. Len(feed) : m <= k /\ Behind(cursor, m) /\ feed'[k] = feed[m]
    BY <1>1, <1>5, <2>1 DEF Behind
  <2> QED  BY <1>4, <2>1, <2>2 DEF FeedsInv, InHand, Accounted
<1> QED  BY <1>3, <1>7, <1>8, <1>9, <1>10 DEF FeedsInv

LEMMA AgesKept == ASSUME FeedsInv, Ages PROVE FeedsInv'
<1>1. UNCHANGED <<happened, cursor, cursorSaved, page, after, newest, brought, offered, skipped, late>>
  BY DEF Ages, reading
<1>2. /\ feed \in Seq(1 .. happened) /\ feed # <<>> /\ feed' = SubSeq(feed, 1, Len(feed) - 1)
      /\ Len(feed) \in Nat \ {0}
  BY DEF Ages, FeedsInv, FeedsType
<1>3. /\ feed' \in Seq(1 .. happened) /\ Len(feed') = Len(feed) - 1
      /\ \A k \in 1 .. Len(feed') : k \in 1 .. Len(feed) /\ feed'[k] = feed[k]
  <2> DEFINE last == Len(feed) - 1
  <2>1. last \in Nat /\ Len(feed) = last + 1
    BY <1>2
  <2>2. \A k \in 1 .. Len(feed) : feed[k] \in 1 .. happened
    BY <1>2, ElementOfSeq
  <2> HIDE DEF last
  <2>3. \A k \in 1 .. last : k \in 1 .. Len(feed) /\ feed[k] \in 1 .. happened
    BY <2>1, <2>2
  <2>4. /\ SubSeq(feed, 1, last) \in Seq(1 .. happened)
        /\ Len(SubSeq(feed, 1, last)) = (IF 1 <= last THEN last - 1 + 1 ELSE 0)
        /\ \A k \in 1 .. last - 1 + 1 : SubSeq(feed, 1, last)[k] = feed[1 + k - 1]
    BY <2>1, <2>3, SubSeqProperties
  <2>5. feed' = SubSeq(feed, 1, last)
    BY <1>2 DEF last
  <2> HIDE DEF last
  <2>6. /\ feed' \in Seq(1 .. happened) /\ Len(feed') = last
        /\ \A k \in 1 .. last : feed'[k] = feed[k]
    BY <2>1, <2>4, <2>5
  <2> QED  BY <2>1, <2>3, <2>6
<1>4. FeedsType'
  BY <1>1, <1>2, <1>3, FeedAssumption DEF FeedsInv, FeedsType, Room, Delivering
<1>5. ASSUME NEW e, NEW k \in 1 .. Len(feed')
      PROVE  Behind(e, k)' => Behind(e, k)
  <2>1. \A j \in 1 .. k : j \in 1 .. Len(feed')
    BY <1>2, <1>3
  <2> QED  BY <1>3, <2>1 DEF Behind
<1>6. \A k \in 1 .. Len(feed') : k \in 1 .. Len(feed) /\ feed'[k] = feed[k]
  BY <1>3
<1>7. Reached(cursorSaved)'
  BY <1>1, <1>5, <1>6 DEF FeedsInv, Reached, Accounted, Behind
<1>8. (page # Delivering => Reached(cursor))'
  BY <1>1, <1>5, <1>6 DEF FeedsInv, Reached, Accounted, Behind, Delivering
<1>9. Reading'
  BY <1>1, <1>5, <1>6 DEF FeedsInv, Reading, Behind
<1>10. InHand'
  BY <1>1, <1>5, <1>6 DEF FeedsInv, InHand, Accounted, Behind, Delivering
<1> QED  BY <1>4, <1>7, <1>8, <1>9, <1>10 DEF FeedsInv

LEMMA BeginReadKept == ASSUME FeedsInv, NEW whole \in BOOLEAN, BeginRead(whole) PROVE FeedsInv'
<1>1. /\ page = 0 /\ page' = 1 /\ newest' = 0 /\ brought' = {} /\ after' \in {0, cursor}
      /\ UNCHANGED <<feed, happened, cursor, cursorSaved, offered, skipped, late>>
  BY DEF BeginRead
<1>2. Pages \in Nat \ {0} /\ PageSize \in Nat /\ Delivering = Pages + 1
  BY FeedAssumption DEF Delivering
<1>3. FeedsType'
  BY <1>1, <1>2 DEF FeedsInv, FeedsType, Room, Delivering
<1>4. Reached(cursorSaved)' /\ Reached(cursor)'
  BY <1>1, <1>2 DEF FeedsInv, Reached, Accounted, Behind
<1>5. Reading'
  <2>1. (page' - 1) * PageSize = 0
    BY <1>1, <1>2
  <2>2. \A i \in 1 .. Len(feed) : i > 0
    BY DEF FeedsInv, FeedsType
  <2> QED  BY <1>1, <2>1, <2>2 DEF Reading
<1>6. InHand'
  BY <1>1, <1>2 DEF InHand, Delivering
<1> QED  BY <1>3, <1>4, <1>5, <1>6 DEF FeedsInv

\* After page n, what is behind the newest seen is in hand, came late, or is
\* further back than page n.
LEMMA PageBrings ==
    ASSUME FeedsInv, ReadPage,
           NEW seen, seen = (IF page = 1 /\ feed # <<>> THEN feed[1] ELSE newest),
           NEW i \in 1 .. Len(feed), Behind(seen, i)
    PROVE  feed[i] \in brought' \cup late \/ i > page * PageSize
<1>1. /\ PageSize \in Nat /\ page \in 1 .. Pages /\ Pages \in Nat /\ Len(feed) \in Nat
      /\ feed \in Seq(1 .. happened)
  BY FeedAssumption DEF FeedsInv, FeedsType, ReadPage
<1>2. /\ (page - 1) * PageSize \in Int /\ page * PageSize \in Int
      /\ page = 1 => (page - 1) * PageSize = 0
  BY <1>1
<1>3. feed[i] \in brought \cup late \/ i > (page - 1) * PageSize
  <2>1. CASE page = 1
    BY <1>1, <1>2, <2>1
  <2>2. CASE page # 1
    BY <1>1, <2>2 DEF FeedsInv, Reading
  <2> QED  BY <2>1, <2>2
<1>4. brought' = brought \cup Page(page)
  BY DEF ReadPage
<1>5. i > (page - 1) * PageSize /\ i <= page * PageSize => feed[i] \in Page(page)
  BY <1>1 DEF Page
<1> QED  BY <1>1, <1>2, <1>3, <1>4, <1>5

LEMMA ReadPageKept == ASSUME FeedsInv, ReadPage PROVE FeedsInv'
<1> DEFINE batch == Page(page)
           seen  == IF page = 1 /\ feed # <<>> THEN feed[1] ELSE newest
<1>1. /\ page \in 1 .. Pages /\ newest' = seen
      /\ IF LastPage(batch) THEN ReadOver(seen) ELSE page' = page + 1 /\ UNCHANGED cursor
      /\ UNCHANGED <<feed, happened, cursorSaved, after, offered, skipped, late>>
  BY DEF ReadPage
<1>2. /\ PageSize \in Nat /\ Pages \in Nat \ {0} /\ Delivering = Pages + 1 /\ Len(feed) \in Nat
      /\ feed \in Seq(1 .. happened) /\ happened \in Nat /\ Room = Pages * PageSize
      /\ cursor \in 0 .. happened /\ cursorSaved \in 0 .. happened
      /\ newest \in 0 .. happened /\ Len(feed) <= Room
  BY FeedAssumption DEF FeedsInv, FeedsType, Delivering, Room
<1>3. \A i \in 1 .. Len(feed) : feed[i] \in 1 .. happened
  BY <1>2
<1>4. seen \in 0 .. happened
  <2>1. feed # <<>> => 1 \in 1 .. Len(feed)
    BY <1>2
  <2> QED  BY <1>2, <1>3, <2>1
<1>5. page # Delivering /\ Reached(cursor) /\ Reached(cursorSaved)
  BY <1>1, <1>2 DEF FeedsInv
<1>6. \A i \in 1 .. Len(feed) :
          Behind(seen, i) => feed[i] \in brought' \cup late \/ i > page * PageSize
  BY PageBrings
<1> HIDE DEF seen
<1>7. Reached(cursorSaved)'
  BY <1>1, <1>5 DEF Reached, Accounted, Behind
<1>8. CASE ~LastPage(batch)
  <2>1. page' = page + 1 /\ cursor' = cursor
    BY <1>1, <1>8
  <2>2. page # Pages
    BY <1>8 DEF LastPage
  <2>3. page' \in 1 .. Pages /\ page' # Delivering /\ page' - 1 = page
    BY <1>1, <1>2, <2>1, <2>2
  <2>4. FeedsType'
    BY <1>1, <1>2, <1>4, <2>1, <2>3 DEF FeedsInv, FeedsType, Delivering, Room
  <2>5. Reached(cursor)'
    BY <1>1, <1>5, <2>1 DEF Reached, Accounted, Behind
  <2>6. Reading'
    <3>1. after' \in {0, cursor'}
      BY <1>1, <2>1 DEF FeedsInv, Reading
    <3>2. \A i \in 1 .. Len(feed') : Behind(newest, i)' =>
              feed'[i] \in brought' \cup late' \/ i > (page' - 1) * PageSize
      BY <1>1, <1>6, <2>3 DEF Behind
    <3> QED  BY <3>1, <3>2 DEF Reading
  <2>7. InHand'
    BY <2>3 DEF InHand, Delivering
  <2> QED  BY <1>7, <2>4, <2>5, <2>6, <2>7 DEF FeedsInv
<1>9. CASE LastPage(batch)
  <2>1. page' = Delivering /\ cursor' = (IF seen = 0 THEN cursor ELSE seen)
    BY <1>1, <1>9 DEF ReadOver
  <2>2. page' \notin 1 .. Pages /\ page' \in 0 .. Delivering
    BY <1>2, <2>1
  <2>3. FeedsType'
    BY <1>1, <1>2, <1>4, <2>1, <2>2 DEF FeedsType, Room, Delivering
  <2>4. ASSUME NEW i \in 1 .. Len(feed), Behind(cursor', i)
        PROVE  Accounted(i) \/ feed[i] \in brought'
    <3>1. CASE cursor' = cursor
      BY <1>5, <2>4, <3>1 DEF Reached
    <3>2. CASE cursor' = seen /\ i > page * PageSize
      <4>1. page # Pages /\ ~(Len(feed) < page * PageSize)
        BY <1>1, <1>2, <3>2
      <4>2. after \in batch
        BY <1>9, <4>1 DEF LastPage
      <4>3. PICK j \in 1 .. Len(feed) : after = feed[j] /\ j <= page * PageSize
        BY <1>2, <4>2 DEF Page
      <4>4. after # 0 /\ after \in {0, cursor}
        BY <1>1, <1>3, <4>3 DEF FeedsInv, Reading
      <4>5. j \in 1 .. i
        BY <1>1, <1>2, <3>2, <4>3
      <4>6. Behind(cursor, i)
        BY <4>3, <4>4, <4>5 DEF Behind
      <4> QED  BY <1>5, <4>6 DEF Reached
    <3>3. CASE cursor' = seen /\ ~(i > page * PageSize)
      BY <1>6, <2>4, <3>3 DEF Accounted
    <3> QED  BY <2>1, <3>1, <3>2, <3>3
  <2>5. InHand'
    BY <1>1, <2>4 DEF InHand, Accounted, Behind
  <2> QED  BY <1>7, <2>1, <2>2, <2>3, <2>5 DEF FeedsInv, Reading, Delivering
<1> QED  BY <1>8, <1>9

LEMMA SkipPageKept == ASSUME FeedsInv, SkipPage PROVE FeedsInv'
<1> DEFINE left == {i \in DOMAIN feed : Behind(newest, i) /\ ~Behind(cursor, i)}
<1>1. /\ page \in 1 .. Pages /\ page' = Delivering
      /\ cursor' = (IF newest = 0 THEN cursor ELSE newest)
      /\ skipped' = skipped \cup ({feed[i] : i \in left} \ brought)
      /\ UNCHANGED <<feed, happened, cursorSaved, after, newest, brought, offered, late>>
  BY DEF SkipPage, ReadOver
<1>2. Pages \in Nat \ {0} /\ Delivering = Pages + 1 /\ DOMAIN feed = 1 .. Len(feed)
  BY FeedAssumption DEF FeedsInv, FeedsType, Delivering
<1>3. page # Delivering /\ Reached(cursor) /\ Reached(cursorSaved)
  BY <1>1, <1>2 DEF FeedsInv
<1>4. FeedsType'
  BY <1>1, <1>2 DEF FeedsInv, FeedsType, Room, Delivering
<1>5. Reached(cursorSaved)'
  BY <1>1, <1>3 DEF Reached, Accounted, Behind
<1>6. ASSUME NEW i \in 1 .. Len(feed), Behind(cursor', i)
      PROVE  feed[i] \in offered \cup skipped' \cup late \cup brought
  <2>1. CASE Behind(cursor, i)
    BY <1>1, <1>3, <2>1 DEF Reached, Accounted
  <2>2. CASE ~Behind(cursor, i)
    <3>1. i \in left
      BY <1>1, <1>2, <1>6, <2>2
    <3> QED  BY <1>1, <3>1
  <2> QED  BY <2>1, <2>2
<1>7. InHand'
  BY <1>1, <1>6 DEF InHand, Accounted, Behind
<1>8. Reading' /\ page' = Delivering'
  BY <1>1, <1>2 DEF Reading, Delivering
<1> QED  BY <1>4, <1>5, <1>7, <1>8 DEF FeedsInv

LEMMA FailPageKept == ASSUME FeedsInv, FailPage PROVE FeedsInv'
<1>1. /\ page \in 1 .. Pages /\ page' = Delivering
      /\ UNCHANGED <<feed, happened, cursor, cursorSaved, after, newest, brought,
                     offered, skipped, late>>
  BY DEF FailPage
<1>2. Pages \in Nat \ {0} /\ Delivering = Pages + 1
  BY FeedAssumption DEF Delivering
<1>3. FeedsType' /\ page' \notin 1 .. Pages /\ page # Delivering
  BY <1>1, <1>2 DEF FeedsInv, FeedsType, Room, Delivering
<1>4. Reached(cursor)' /\ Reached(cursorSaved)'
  BY <1>1, <1>3 DEF FeedsInv, Reached, Accounted, Behind
<1> QED  BY <1>3, <1>4 DEF FeedsInv, Reading, InHand, Reached

LEMMA DeliverKept == ASSUME FeedsInv, Deliver PROVE FeedsInv'
<1>1. /\ page = Delivering /\ page' = 0 /\ newest' = 0
      /\ offered' = offered \cup brought
      /\ skipped' = skipped \ brought /\ late' = late \ brought
      /\ UNCHANGED <<feed, happened, cursor, cursorSaved>>
  BY DEF Deliver, ReadDone
<1>2. Pages \in Nat \ {0} /\ Delivering = Pages + 1
  BY FeedAssumption DEF Delivering
<1>3. FeedsType' /\ page' \notin 1 .. Pages /\ page' # Delivering'
  BY <1>1, <1>2 DEF FeedsInv, FeedsType, Room, Delivering
<1>4. offered' \cup skipped' \cup late' = offered \cup skipped \cup late \cup brought
  BY <1>1
<1>5. Reached(cursorSaved)'
  BY <1>1, <1>4 DEF FeedsInv, Reached, Accounted, Behind
<1>6. Reached(cursor)'
  BY <1>1, <1>4 DEF FeedsInv, InHand, Reached, Accounted, Behind
<1> QED  BY <1>3, <1>5, <1>6 DEF FeedsInv, Reading, InHand

LEMMA BetweenReadsKept == ASSUME FeedsInv, SaveCursor \/ ReaderStops PROVE FeedsInv'
<1>1. Pages \in Nat \ {0} /\ Delivering = Pages + 1
  BY FeedAssumption DEF Delivering
<1>2. /\ page' = 0 /\ newest' \in 0 .. happened
      /\ cursor' \in {cursor, cursorSaved} /\ cursorSaved' \in {cursor, cursorSaved}
      /\ cursor' = cursor \/ cursorSaved' = cursor \/ cursor' = cursorSaved
      /\ UNCHANGED <<feed, happened, offered, skipped, late>>
  BY DEF FeedsInv, FeedsType, SaveCursor, ReaderStops, ReadDone, reading
<1>3. FeedsType' /\ page' \notin 1 .. Pages /\ page' # Delivering'
  BY <1>1, <1>2 DEF FeedsInv, FeedsType, Room, Delivering
<1>4. Reached(cursorSaved)' /\ Reached(cursor)'
  <2>1. CASE SaveCursor
    <3>1. page # Delivering /\ cursor' = cursor /\ cursorSaved' = cursor
      BY <1>1, <2>1 DEF SaveCursor, reading
    <3> QED  BY <1>2, <3>1 DEF FeedsInv, Reached, Accounted, Behind
  <2>2. CASE ReaderStops
    <3>1. cursor' = cursorSaved /\ cursorSaved' = cursorSaved
      BY <2>2 DEF ReaderStops
    <3> QED  BY <1>2, <3>1 DEF FeedsInv, Reached, Accounted, Behind
  <2> QED  BY <2>1, <2>2
<1> QED  BY <1>3, <1>4 DEF FeedsInv, Reading, InHand

LEMMA FeedsStep == FeedsInv /\ [FeedsNext]_feeds => FeedsInv'
<1> SUFFICES ASSUME FeedsInv, [FeedsNext]_feeds PROVE FeedsInv'
  OBVIOUS
<1>1. CASE UNCHANGED feeds
  BY <1>1 DEF feeds, reading, FeedsInv, FeedsType, Room, Delivering, Reached, Accounted,
              Behind, Reading, InHand
<1>2. CASE \E i \in 1 .. Room : Happens(i)
  BY <1>2, HappensKept
<1>3. CASE \E whole \in BOOLEAN : BeginRead(whole)
  BY <1>3, BeginReadKept
<1>4. CASE ReadPage \/ SkipPage \/ FailPage
  BY <1>4, ReadPageKept, SkipPageKept, FailPageKept
<1>5. CASE Ages \/ Deliver \/ SaveCursor \/ ReaderStops
  BY <1>5, AgesKept, DeliverKept, BetweenReadsKept
<1> QED  BY <1>1, <1>2, <1>3, <1>4, <1>5 DEF FeedsNext

\* The cursor steps over no event but those every store was given, those of a
\* page GitHub would not give, and those that reached the feed behind an event
\* a read had been served already and were on no page read since: on the feed
\* the order is anything, and only its place tells an event from one written
\* before (Events.Collect, events, family).
THEOREM NothingIsSteppedOver == FeedsSpec => []SteppedOverIsOffered
<1>1. FeedsSpec => []FeedsInv
  BY FeedsInitially, FeedsStep, PTL DEF FeedsSpec
<1>2. FeedsInv => SteppedOverIsOffered
  <2> SUFFICES ASSUME FeedsInv PROVE SteppedOverIsOffered
    OBVIOUS
  <2>1. DOMAIN feed = 1 .. Len(feed)
    BY DEF FeedsInv, FeedsType
  <2> QED  BY <2>1 DEF FeedsInv, Reached, Accounted, SteppedOverIsOffered
<1> QED  BY <1>1, <1>2, PTL

-----------------------------------------------------------------------------
(* Windows.                                                                *)

AllMoves == Repos \X Nat
Times    == 0 .. clock \cup {Never}

Sweeps == [at : Nat, prime : BOOLEAN, family : Families \cup {"over", "none"}, open : BOOLEAN,
           seen : UNION {[answered -> SUBSET AllMoves] : answered \in SUBSET Repos},
           todo : SUBSET Repos, failed : SUBSET Repos, answered : SUBSET Repos,
           found : SUBSET AllMoves, spent : BOOLEAN]

WindowsType ==
    /\ clock \in Nat /\ moves \in SUBSET (Repos \X (0 .. clock))
    /\ ran \in [Families -> Times] /\ ranSaved \in [Families -> Times]
    /\ dayRead \in [Repos -> Times] /\ dayReadSaved \in [Repos -> Times]
    /\ missed \in [Families -> SUBSET Repos] /\ missedSaved \in [Families -> SUBSET Repos]
    /\ given \in [Families -> SUBSET AllMoves] /\ promised \in [Families -> SUBSET AllMoves]
    /\ excused \in [Families -> SUBSET AllMoves]
    /\ sweep \in Sweeps

\* Every move of r before t is one of ms.
All(r, t, ms) == \A m \in MovesOf(r) : m[2] < t => m \in ms

\* What issues found that is not given out yet.
IssuesInHand == IF sweep.family = "issues" THEN sweep.found ELSE {}

\* What lies before a day's read was given out, or is about to be.
DayReads ==
    \A r \in Repos :
        /\ dayReadSaved[r] # Never => All(r, dayReadSaved[r], given["issues"])
        /\ dayRead[r] # Never => All(r, dayRead[r], given["issues"] \cup IssuesInHand)

\* What lies before a mark was given out or is excused, but of the repositories
\* that did not answer to it.
Marked ==
    \A f \in Families, r \in Repos :
        /\ r \notin missed[f] /\ ran[f] # Never
              => All(r, ran[f], given[f] \cup excused[f])
        /\ r \notin missedSaved[f] /\ ranSaved[f] # Never
              => All(r, ranSaved[f], given[f] \cup excused[f])

\* The window every read reaches back to, whatever else it does.
Within(f, m) ==
    \/ m[2] >= SinceLastRun(f, clock)
    \/ f = "issueevents" /\ ran[f] = Never

\* A sweep is of now; it was told at least of all moves before now, and found
\* all there are in the windows of those that answered.
UnderWay ==
    /\ sweep # NoSweep => sweep.at = clock
    /\ \A r \in DOMAIN sweep.seen : All(r, clock, sweep.seen[r])
    /\ sweep.open => sweep.family \in Families
    /\ ~sweep.open => sweep.found = {} /\ sweep.answered = {}
    /\ \A r \in sweep.answered : \A m \in MovesOf(r) :
          m[2] < clock /\ Within(sweep.family, m) => m \in sweep.found

WindowsInv == WindowsType /\ DayReads /\ Marked /\ UnderWay /\ PassesJoin

LEMMA NoSweepType ==
    /\ NoSweep \in Sweeps /\ NoSweep.family = "none" /\ ~NoSweep.open
    /\ NoSweep.found = {} /\ NoSweep.answered = {} /\ DOMAIN NoSweep.seen = {}
<1> DEFINE none == [r \in {} |-> {}]
<1>1. none \in UNION {[answered -> SUBSET AllMoves] : answered \in SUBSET Repos}
  BY ZenonT(60)
<1>2. DOMAIN none = {}
  OBVIOUS
<1> HIDE DEF none
<1> QED  BY <1>1, <1>2 DEF NoSweep, SweepOf, Sweeps, none

LEMMA WindowsInitially == WindowsInit => WindowsInv
BY NoSweepType
   DEF WindowsInit, WindowsInv, WindowsType, DayReads, Marked, UnderWay, PassesJoin, Times,
       Families, AllMoves

\* A window reaches back to the last run.
LEMMA SinceBeforeRun ==
    ASSUME WindowsType, NEW f \in Families
    PROVE  /\ SinceLastRun(f, clock) \in Int
           /\ ran[f] # Never => SinceLastRun(f, clock) <= ran[f]
BY WindowsAssumption DEF WindowsType, Times, SinceLastRun

\* Each window reaches back to the last run's, and the day's to the day's read
\* before it.
LEMMA SinceReaches ==
    ASSUME WindowsType, NEW f \in Families, NEW r \in Repos
    PROVE  /\ Since(f, r, clock) \in Int
           /\ \A m \in MovesOf(r) : Within(f, m) => m[2] >= Since(f, r, clock)
           /\ f = "issues" /\ DayReadDue(r, clock) /\ dayRead[r] # Never
                 => Since(f, r, clock) <= dayRead[r]
           /\ f = "issues" /\ DayReadDue(r, clock) /\ dayRead[r] = Never
                 => Since(f, r, clock) <= 0
<1> DEFINE last == SinceLastRun(f, clock)
<1>1. last \in Int
  BY SinceBeforeRun
<1>2. Cadence \in Nat /\ Never \notin Int
  BY WindowsAssumption
<1>3. /\ dayRead[r] # Never => dayRead[r] \in Nat /\ DayReadFrom(r) = dayRead[r] - Cadence
      /\ dayRead[r] = Never => DayReadFrom(r) = 0
  BY <1>2 DEF WindowsType, Times, DayReadFrom, MonthBack
<1>4. \A m \in MovesOf(r) : m[2] \in Nat
  BY DEF WindowsType, MovesOf
<1>5. CASE f = "issues"
  <2>1. \/ DayReadDue(r, clock) /\ Since(f, r, clock) = Earlier(last, DayReadFrom(r))
        \/ ~DayReadDue(r, clock) /\ Since(f, r, clock) = last
    BY <1>5 DEF Since
  <2> HIDE DEF last
  <2> QED  BY <1>1, <1>2, <1>3, <1>4, <1>5, <2>1 DEF Earlier, Within, last
<1>6. CASE f = "issueevents"
  <2>1. Since(f, r, clock) = IF ran[f] = Never THEN 0 ELSE last
    BY <1>6 DEF Since, MonthBack
  <2> QED  BY <1>1, <1>4, <1>6, <2>1 DEF Within
<1> QED  BY <1>5, <1>6 DEF Families

\* A step of the sweep that gives nothing out keeps the rest as it is.
LEMMA QuietKept ==
    ASSUME WindowsInv, UNCHANGED <<clock, moves, ran, dayRead, onDisk, history>>,
           sweep' \in Sweeps, UnderWay', IssuesInHand' = IssuesInHand
    PROVE  WindowsInv'
<1>1. UNCHANGED <<ranSaved, dayReadSaved, missedSaved, given, missed, promised, excused>>
  BY DEF onDisk, history
<1>2. WindowsType'
  BY <1>1 DEF WindowsInv, WindowsType, Times, Sweeps
<1>3. DayReads' /\ Marked' /\ PassesJoin'
  BY <1>1 DEF WindowsInv, DayReads, Marked, PassesJoin, All, MovesOf
<1> QED  BY <1>2, <1>3 DEF WindowsInv

LEMMA BeginSweepKept == ASSUME WindowsInv, BeginSweep PROVE WindowsInv'
<1>1. PICK prime \in BOOLEAN, seen \in Movements : StartSweep(prime, seen)
  BY DEF BeginSweep
<1>2. /\ sweep = NoSweep
      /\ sweep' = SweepOf("issues", clock, prime, seen)
      /\ UNCHANGED <<clock, moves, ran, dayRead, onDisk, history>>
  BY <1>1 DEF StartSweep
<1>3. PICK asked \in SUBSET Repos : seen = [r \in asked |-> MovesOf(r)]
  BY DEF Movements
<1>4. \A r \in asked : MovesOf(r) \in SUBSET AllMoves
  BY DEF MovesOf, AllMoves, WindowsInv, WindowsType
<1>5. seen \in UNION {[answered -> SUBSET AllMoves] : answered \in SUBSET Repos}
  BY <1>3, <1>4
<1>6. sweep' \in Sweeps
  <2> HIDE DEF AllMoves
  <2> QED  BY <1>2, <1>5 DEF Sweeps, SweepOf, Families, WindowsInv, WindowsType
<1>7. UnderWay'
  BY <1>2, <1>3 DEF UnderWay, SweepOf, All, MovesOf
<1>8. IssuesInHand' = {} /\ IssuesInHand = {}
  BY <1>2 DEF IssuesInHand, SweepOf, NoSweep
<1> QED  BY <1>2, <1>6, <1>7, <1>8, QuietKept

LEMMA PassOverKept == ASSUME WindowsInv, PassOver PROVE WindowsInv'
<1>1. PICK f \in Families :
        /\ f \in Families /\ sweep.family = f /\ ~sweep.open
        /\ sweep' = [sweep EXCEPT !.family = After(f)]
        /\ UNCHANGED <<clock, moves, ran, dayRead, onDisk, swept, history>>
  BY DEF PassOver, InFamily
<1>2. /\ sweep \in Sweeps /\ sweep.found = {} /\ sweep.answered = {}
      /\ sweep # NoSweep
  BY <1>1, NoSweepType DEF WindowsInv, WindowsType, UnderWay, Families
<1>3. After(f) \in Families \cup {"over"}
  BY DEF After, Families
<1>4. sweep' \in Sweeps /\ ~sweep'.open /\ sweep'.found = {} /\ sweep'.answered = {}
      /\ sweep'.at = sweep.at /\ sweep'.seen = sweep.seen
  BY <1>1, <1>2, <1>3 DEF Sweeps
<1>5. UnderWay'
  BY <1>1, <1>2, <1>4 DEF WindowsInv, UnderWay, All, MovesOf
<1>6. IssuesInHand' = {} /\ IssuesInHand = {}
  BY <1>2, <1>4 DEF IssuesInHand
<1> QED  BY <1>1, <1>4, <1>5, <1>6, QuietKept

LEMMA OpenFamilyKept == ASSUME WindowsInv, OpenFamily PROVE WindowsInv'
<1>1. PICK f \in Families :
        /\ f \in Families /\ sweep.family = f /\ ~sweep.open
        /\ sweep' = [sweep EXCEPT !.open = TRUE, !.todo = Repos]
        /\ UNCHANGED <<clock, moves, ran, dayRead, onDisk, swept, history>>
  BY DEF OpenFamily, InFamily
<1>2. /\ sweep \in Sweeps /\ sweep.found = {} /\ sweep.answered = {}
      /\ sweep # NoSweep
  BY <1>1, NoSweepType DEF WindowsInv, WindowsType, UnderWay, Families
<1>3. sweep' \in Sweeps /\ sweep'.found = {} /\ sweep'.answered = {}
      /\ sweep'.at = sweep.at /\ sweep'.seen = sweep.seen /\ sweep'.open /\ sweep'.family = f
  BY <1>1, <1>2 DEF Sweeps
<1>4. UnderWay'
  BY <1>1, <1>2, <1>3 DEF WindowsInv, UnderWay, All, MovesOf
<1>5. IssuesInHand' = {} /\ IssuesInHand = {}
  BY <1>2, <1>3 DEF IssuesInHand
<1> QED  BY <1>1, <1>3, <1>4, <1>5, QuietKept

LEMMA BudgetEndsKept == ASSUME WindowsInv, BudgetEnds PROVE WindowsInv'
<1>1. PICK refused \in BOOLEAN :
        /\ sweep.open
        /\ sweep' = [sweep EXCEPT !.todo = {}, !.spent = refused]
        /\ UNCHANGED <<clock, moves, ran, dayRead, onDisk, swept, history>>
  BY DEF BudgetEnds
<1>2. sweep \in Sweeps /\ sweep # NoSweep
  BY <1>1, NoSweepType DEF WindowsInv, WindowsType
<1>3. sweep' \in Sweeps /\ sweep'.found = sweep.found /\ sweep'.answered = sweep.answered
      /\ sweep'.at = sweep.at /\ sweep'.seen = sweep.seen /\ sweep'.open
      /\ sweep'.family = sweep.family
  BY <1>1, <1>2 DEF Sweeps
<1>4. \A f, m : Within(f, m)' = Within(f, m)
  BY <1>1 DEF Within, SinceLastRun
<1>5. UnderWay'
  <2>1. \A r : MovesOf(r)' = MovesOf(r)
    BY <1>1 DEF MovesOf
  <2> QED  BY <1>1, <1>2, <1>3, <1>4, <2>1 DEF WindowsInv, UnderWay, All
<1>6. IssuesInHand' = IssuesInHand
  BY <1>1, <1>3 DEF IssuesInHand
<1> QED  BY <1>1, <1>3, <1>5, <1>6, QuietKept

\* A read that answered brought all there is in its window; the day's brought
\* all that the day's read before it had not.
LEMMA ReadRepoKept == ASSUME WindowsInv, ReadNext PROVE WindowsInv'
<1>1. PICK r \in sweep.todo : ReadRepo(r)
  BY DEF ReadNext
<1> DEFINE f     == sweep.family
           since == Since(f, r, clock)
           asDay == f = "issues" /\ DayReadDue(r, clock)
<1>2. /\ sweep.open /\ sweep \in Sweeps /\ f \in Families
      /\ sweep # NoSweep /\ sweep.at = clock /\ r \in Repos
  BY <1>1, NoSweepType DEF ReadNext, WindowsInv, WindowsType, UnderWay, Sweeps
<1>3. PICK openRead \in BOOLEAN, ok \in BOOLEAN, got \in SUBSET MovesOf(r) :
        /\ got \in IF StayedPut(r, since) THEN {{}} ELSE MayBring(r, since, ok)
        /\ StayedPut(r, since) => ok
        /\ dayRead' = IF asDay /\ openRead /\ ok THEN [dayRead EXCEPT ![r] = clock] ELSE dayRead
        /\ sweep' = [sweep EXCEPT
              !.todo = @ \ {r}, !.found = @ \cup got,
              !.failed = IF openRead /\ ok THEN @ ELSE @ \cup {r},
              !.answered = IF ok THEN @ \cup {r} ELSE @]
        /\ UNCHANGED <<clock, moves, ran, onDisk, swept, history>>
  BY <1>1, <1>2, ZenonT(60) DEF ReadRepo, MayBring, InWindow
<1>4. /\ WindowsType /\ DayReads /\ UnderWay /\ clock \in Nat
      /\ \A m \in MovesOf(r) : m[2] \in Nat /\ m \in AllMoves
  BY DEF WindowsInv, WindowsType, MovesOf, AllMoves
<1>5. /\ since \in Int
      /\ \A m \in MovesOf(r) : Within(f, m) => m[2] >= since
      /\ asDay /\ dayRead[r] # Never => since <= dayRead[r]
      /\ asDay /\ dayRead[r] = Never => since <= 0
  BY <1>2, <1>4, SinceReaches
<1> HIDE DEF since, asDay
<1>6. got \subseteq MovesOf(r)
  OBVIOUS
<1>7. ASSUME ok, NEW m \in MovesOf(r), m[2] < clock, m[2] >= since PROVE m \in got
  <2>1. CASE StayedPut(r, since)
    <3>1. m \in sweep.seen[r] /\ m[2] < since
      BY <1>4, <1>7, <2>1 DEF StayedPut, UnderWay, All
    <3> QED  BY <1>4, <1>5, <1>7, <3>1
  <2>2. CASE ~StayedPut(r, since)
    BY <1>2, <1>3, <1>7, <2>2 DEF MayBring, InWindow
  <2> QED  BY <2>1, <2>2
<1>8. sweep.found \cup got \in SUBSET AllMoves
  BY <1>2, <1>4, <1>6 DEF Sweeps
<1>9. /\ sweep' \in Sweeps /\ sweep'.at = clock /\ sweep'.family = f /\ sweep'.open
      /\ sweep'.seen = sweep.seen /\ sweep'.found = sweep.found \cup got
      /\ sweep'.answered = IF ok THEN sweep.answered \cup {r} ELSE sweep.answered
  <2> HIDE DEF AllMoves
  <2> QED  BY <1>2, <1>3, <1>8 DEF Sweeps
<1>10. /\ UNCHANGED <<ranSaved, dayReadSaved, missedSaved, given, missed, promised, excused>>
       /\ UNCHANGED <<clock, moves, ran>> /\ \A s : MovesOf(s)' = MovesOf(s)
       /\ \A g, m : Within(g, m)' = Within(g, m)
  BY <1>3 DEF onDisk, history, MovesOf, Within, SinceLastRun
<1>11. UnderWay'
  <2>1. ASSUME NEW s \in sweep'.answered, NEW m \in MovesOf(s), m[2] < clock, Within(f, m)
        PROVE  m \in sweep'.found
    <3>1. CASE s \in sweep.answered
      BY <1>4, <1>9, <2>1, <3>1 DEF UnderWay
    <3>2. CASE s \notin sweep.answered
      BY <1>5, <1>7, <1>9, <2>1, <3>2
    <3> QED  BY <3>1, <3>2
  <2> QED  BY <1>2, <1>4, <1>9, <1>10, <2>1 DEF UnderWay, All
<1>12. dayRead' \in [Repos -> Times]
  BY <1>2, <1>3, <1>4 DEF WindowsType, Times
<1>13. DayReads'
  <2>1. IssuesInHand' = IF f = "issues" THEN IssuesInHand \cup got ELSE {}
    BY <1>9 DEF IssuesInHand
  <2>2. IssuesInHand \subseteq IssuesInHand'
    BY <2>1 DEF IssuesInHand
  <2>3. ASSUME NEW s \in Repos, dayRead'[s] # Never
        PROVE  All(s, dayRead'[s], given["issues"] \cup IssuesInHand')
    <3>1. CASE s # r \/ ~(asDay /\ openRead /\ ok)
      <4>1. dayRead'[s] = dayRead[s]
        BY <1>2, <1>3, <1>4, <3>1 DEF WindowsType
      <4> QED  BY <1>4, <2>2, <2>3, <4>1 DEF DayReads, All
    <3>2. CASE s = r /\ asDay /\ openRead /\ ok
      <4>1. dayRead'[s] = clock /\ f = "issues"
        BY <1>2, <1>3, <1>4, <3>2 DEF WindowsType, asDay
      <4>2. ASSUME NEW m \in MovesOf(r), m[2] < clock
            PROVE  m \in given["issues"] \cup IssuesInHand'
        <5>1. CASE m[2] >= since
          BY <1>7, <2>1, <3>2, <4>1, <4>2, <5>1
        <5>2. CASE ~(m[2] >= since)
          <6>1. dayRead[r] # Never /\ dayRead[r] \in Nat
            BY <1>2, <1>4, <1>5, <3>2, <5>2 DEF WindowsType, Times
          <6>2. m[2] < dayRead[r]
            BY <1>4, <1>5, <3>2, <5>2, <6>1
          <6> QED  BY <1>2, <1>4, <2>2, <6>1, <6>2 DEF DayReads, All
        <5> QED  BY <5>1, <5>2
      <4> QED  BY <3>2, <4>1, <4>2 DEF All
    <3> QED  BY <3>1, <3>2
  <2> QED  BY <1>4, <1>10, <2>3 DEF DayReads, All
<1>14. WindowsType'
  BY <1>4, <1>9, <1>10, <1>12 DEF WindowsType, Times, Sweeps
<1>15. Marked' /\ PassesJoin'
  BY <1>10 DEF WindowsInv, Marked, PassesJoin, All
<1> QED  BY <1>11, <1>13, <1>14, <1>15 DEF WindowsInv

\* A pass that answered for a repository leaves no move before it that was not
\* given out or excused: what it did not find lies before the mark it read from.
LEMMA CloseFamilyKept == ASSUME WindowsInv, CloseFamily PROVE WindowsInv'
<1>1. PICK f \in Families :
        /\ sweep.family = f /\ sweep.open
        /\ ran' = IF Marks(f) THEN [ran EXCEPT ![f] = sweep.at] ELSE ran
        /\ given' = [given EXCEPT ![f] = @ \cup sweep.found]
        /\ missed' = [missed EXCEPT ![f] =
                         (IF Marks(f) THEN Repos ELSE @) \ sweep.answered]
        /\ excused' = [excused EXCEPT ![f] = @ \cup
                (Before(sweep.answered \cap Unmarked(f), sweep.at) \ (given'[f] \cup promised[f]))]
        /\ promised' = [promised EXCEPT ![f] = @ \cup (Before(sweep.answered, sweep.at) \ excused'[f])]
        /\ sweep' = [sweep EXCEPT !.family = After(f), !.open = FALSE, !.found = {},
                                  !.failed = {}, !.answered = {}, !.spent = FALSE]
        /\ UNCHANGED <<clock, moves, dayRead, onDisk>>
  BY DEF CloseFamily, InFamily
<1>2. /\ WindowsType /\ DayReads /\ Marked /\ UnderWay /\ PassesJoin /\ clock \in Nat
      /\ sweep \in Sweeps /\ sweep # NoSweep /\ sweep.at = clock
  BY <1>1, NoSweepType DEF WindowsInv, WindowsType, UnderWay
<1> DEFINE answered == sweep.answered
<1>3. answered \in SUBSET Repos /\ sweep.found \in SUBSET AllMoves
  BY <1>2 DEF Sweeps
<1>4. \A rs, t : Before(rs, t) \in SUBSET AllMoves
  BY <1>2 DEF Before, WindowsType, AllMoves
<1>5. /\ given'[f] = given[f] \cup sweep.found
      /\ missed'[f] = (IF Marks(f) THEN Repos ELSE missed[f]) \ answered
      /\ excused'[f] = excused[f] \cup
             (Before(answered \cap Unmarked(f), clock) \ (given'[f] \cup promised[f]))
      /\ promised'[f] = promised[f] \cup (Before(answered, clock) \ excused'[f])
      /\ ran'[f] = IF Marks(f) THEN clock ELSE ran[f]
  BY <1>1, <1>2 DEF WindowsType
<1>6. \A g \in Families \ {f} :
        /\ given'[g] = given[g] /\ missed'[g] = missed[g] /\ excused'[g] = excused[g]
        /\ promised'[g] = promised[g] /\ ran'[g] = ran[g]
  BY <1>1, <1>2 DEF WindowsType
<1>7. UNCHANGED <<clock, moves, dayRead, ranSaved, dayReadSaved, missedSaved>>
      /\ \A r : MovesOf(r)' = MovesOf(r)
  BY <1>1 DEF onDisk, MovesOf
<1>8. \A g \in Families : given[g] \subseteq given'[g] /\ excused[g] \subseteq excused'[g]
  BY <1>5, <1>6
<1>9. ASSUME NEW r \in answered, NEW m \in MovesOf(r), m[2] < clock
      PROVE  m \in given'[f] \cup excused'[f]
  <2>1. CASE r \in Unmarked(f)
    <3>1. m \in Before(answered \cap Unmarked(f), clock)
      BY <1>9, <2>1 DEF Before, MovesOf
    <3> QED  BY <1>2, <1>5, <3>1 DEF PassesJoin
  <2>2. CASE r \notin Unmarked(f)
    <3>1. r \in Repos /\ r \notin missed[f] /\ (ran[f] = Never => f = "issueevents")
      BY <1>3, <2>2 DEF Unmarked, Families
    <3>2. CASE Within(f, m)
      BY <1>1, <1>2, <1>5, <1>9, <3>2 DEF UnderWay
    <3>3. CASE ~Within(f, m)
      <4>1. ran[f] # Never /\ ~(m[2] >= SinceLastRun(f, clock))
        BY <3>1, <3>3 DEF Within
      <4>2. SinceLastRun(f, clock) \in Int /\ SinceLastRun(f, clock) <= ran[f]
        BY <1>2, <4>1, SinceBeforeRun
      <4>3. m[2] \in Nat /\ ran[f] \in Nat
        BY <1>2, <4>1 DEF WindowsType, Times, MovesOf
      <4>4. m[2] < ran[f]
        BY <4>1, <4>2, <4>3
      <4> QED  BY <1>2, <1>8, <3>1, <4>1, <4>4 DEF Marked, All
    <3> QED  BY <3>2, <3>3
  <2> QED  BY <2>1, <2>2
<1>10. PassesJoin'
  <2>1. promised'[f] \subseteq given'[f]
    <3> SUFFICES ASSUME NEW m \in Before(answered, clock), m \notin excused'[f]
                 PROVE  m \in given'[f]
      BY <1>2, <1>5, <1>8 DEF PassesJoin
    <3>1. m[1] \in answered /\ m \in MovesOf(m[1]) /\ m[2] < clock
      BY DEF Before, MovesOf
    <3> QED  BY <1>9, <3>1
  <2> QED  BY <1>2, <1>6, <2>1 DEF PassesJoin
<1>11. Marked'
  <2>1. ASSUME NEW r \in Repos, r \notin missed'[f], ran'[f] # Never
        PROVE  All(r, ran'[f], given'[f] \cup excused'[f])
    <3>1. CASE r \in answered
      <4>1. ran'[f] \in Nat /\ ran'[f] <= clock
        BY <1>2, <1>5, <2>1 DEF WindowsType, Times
      <4>2. \A m \in MovesOf(r) : m[2] \in Nat
        BY <1>2 DEF WindowsType, MovesOf
      <4> QED  BY <1>2, <1>9, <3>1, <4>1, <4>2 DEF All
    <3>2. CASE r \notin answered
      <4>1. ~Marks(f) /\ r \notin missed[f] /\ ran'[f] = ran[f]
        BY <1>5, <2>1, <3>2
      <4> QED  BY <1>2, <1>8, <2>1, <4>1 DEF Marked, All
    <3> QED  BY <3>1, <3>2
  <2>2. ASSUME NEW g \in Families, NEW r \in Repos, r \notin missed'[g], ran'[g] # Never
        PROVE  All(r, ran'[g], given'[g] \cup excused'[g])
    BY <1>2, <1>6, <2>1, <2>2 DEF Marked
  <2>3. ASSUME NEW g \in Families, NEW r \in Repos, r \notin missedSaved[g], ranSaved[g] # Never
        PROVE  All(r, ranSaved[g], given'[g] \cup excused'[g])
    BY <1>2, <1>8, <2>3 DEF Marked, All
  <2> QED  BY <1>7, <2>2, <2>3 DEF Marked, All
<1>12. sweep' \in Sweeps /\ ~sweep'.open /\ sweep'.found = {} /\ sweep'.answered = {}
       /\ sweep'.at = clock /\ sweep'.seen = sweep.seen /\ sweep'.family # "issues"
  <2>1. After(f) \in {"issueevents", "over"}
    BY DEF After
  <2> HIDE DEF AllMoves
  <2> QED  BY <1>1, <1>2, <2>1 DEF Sweeps, Families
<1>13. UnderWay'
  BY <1>2, <1>7, <1>12 DEF UnderWay, All
<1>14. DayReads'
  <2>1. given["issues"] \cup IssuesInHand \subseteq given'["issues"] \cup IssuesInHand'
    BY <1>1, <1>5, <1>8 DEF IssuesInHand, Families
  <2> QED  BY <1>2, <1>7, <2>1, <1>8 DEF DayReads, All, Families
<1>15. WindowsType'
  <2>1. ran' \in [Families -> Times]
    BY <1>1, <1>2 DEF WindowsType, Times
  <2>2. given' \in [Families -> SUBSET AllMoves] /\ missed' \in [Families -> SUBSET Repos]
    BY <1>1, <1>2, <1>3 DEF WindowsType
  <2>3. excused' \in [Families -> SUBSET AllMoves]
    BY <1>1, <1>2, <1>4 DEF WindowsType
  <2>4. promised' \in [Families -> SUBSET AllMoves]
    BY <1>1, <1>2, <1>4 DEF WindowsType
  <2> QED  BY <1>2, <1>7, <1>12, <2>1, <2>2, <2>3, <2>4 DEF WindowsType, Times, Sweeps
<1> QED  BY <1>10, <1>11, <1>13, <1>14, <1>15 DEF WindowsInv

\* With no sweep under way nothing is in hand.
LEMMA NothingUnderWay ==
    ASSUME sweep' = NoSweep PROVE UnderWay' /\ sweep' \in Sweeps /\ IssuesInHand' = {}
BY NoSweepType DEF UnderWay, IssuesInHand

LEMMA EndSweepKept == ASSUME WindowsInv, EndSweep PROVE WindowsInv'
<1>1. /\ sweep.family = "over" /\ sweep' = NoSweep
      /\ \/ ranSaved' = ran /\ dayReadSaved' = dayRead /\ missedSaved' = missed
         \/ UNCHANGED <<ranSaved, dayReadSaved, missedSaved>>
      /\ UNCHANGED <<clock, moves, ran, dayRead, given, missed, promised, excused>>
  BY DEF EndSweep, onDisk, history
<1>2. IssuesInHand = {}
  BY <1>1 DEF IssuesInHand
<1>3. DayReads'
  BY <1>1, <1>2, NothingUnderWay DEF WindowsInv, DayReads, All, MovesOf
<1>4. Marked' /\ PassesJoin'
  BY <1>1 DEF WindowsInv, Marked, PassesJoin, All, MovesOf
<1>5. WindowsType'
  BY <1>1, NothingUnderWay DEF WindowsInv, WindowsType, Times, Sweeps
<1> QED  BY <1>1, <1>3, <1>4, <1>5, NothingUnderWay DEF WindowsInv

\* What the file says was given out all the same.
LEMMA ProcessEndsKept == ASSUME WindowsInv, ProcessEnds PROVE WindowsInv'
<1>1. /\ sweep' = NoSweep
      /\ ran' = ranSaved /\ dayRead' = dayReadSaved /\ missed' = missedSaved
      /\ UNCHANGED <<clock, moves, ranSaved, dayReadSaved, missedSaved, given, promised, excused>>
  BY DEF ProcessEnds, onDisk
<1>2. DayReads'
  BY <1>1, NothingUnderWay DEF WindowsInv, DayReads, All, MovesOf
<1>3. Marked' /\ PassesJoin'
  BY <1>1 DEF WindowsInv, Marked, PassesJoin, All, MovesOf
<1>4. WindowsType'
  BY <1>1, NothingUnderWay DEF WindowsInv, WindowsType, Times, Sweeps
<1> QED  BY <1>1, <1>2, <1>3, <1>4, NothingUnderWay DEF WindowsInv

LEMMA BackfilledKept == ASSUME WindowsInv, Backfilled PROVE WindowsInv'
<1>1. PICK f \in Families, answered \in SUBSET Repos, marks \in BOOLEAN :
        \E read \in SUBSET Before(answered, clock) :
          /\ given' = [given EXCEPT ![f] = @ \cup read]
          /\ IF marks
             THEN /\ ran' = [ran EXCEPT ![f] = clock]
                  /\ missed' = [missed EXCEPT ![f] = Repos \ answered]
                  /\ excused' = [excused EXCEPT ![f] = @ \cup
                        (Before(answered, clock) \ (given'[f] \cup promised[f]))]
                  /\ promised' = [promised EXCEPT ![f] = @ \cup
                        (Before(answered, clock) \ excused'[f])]
             ELSE UNCHANGED <<ran, missed, excused, promised>>
  <2>1. PICK f \in Families, answered \in SUBSET Repos \ {{}},
             backTo \in 0 .. clock, marks \in BOOLEAN :
             \E readAt \in [answered -> 0 .. clock] :
          /\ given' = [given EXCEPT ![f] = @ \cup
                {m \in Before(answered, clock) : backTo <= m[2] /\ m[2] < readAt[m[1]]}]
          /\ IF marks
             THEN /\ ran' = [ran EXCEPT ![f] = clock]
                  /\ missed' = [missed EXCEPT ![f] = Repos \ answered]
                  /\ excused' = [excused EXCEPT ![f] = @ \cup
                        (Before(answered, clock) \ (given'[f] \cup promised[f]))]
                  /\ promised' = [promised EXCEPT ![f] = @ \cup
                        (Before(answered, clock) \ excused'[f])]
             ELSE UNCHANGED <<ran, missed, excused, promised>>
    BY Zenon DEF Backfilled
  <2>2. PICK readAt : given' = [given EXCEPT ![f] = @ \cup
                {m \in Before(answered, clock) : backTo <= m[2] /\ m[2] < readAt[m[1]]}]
    BY <2>1, Zenon
  <2>3. {m \in Before(answered, clock) : backTo <= m[2] /\ m[2] < readAt[m[1]]}
           \in SUBSET Before(answered, clock)
    BY Zenon
  <2> QED  BY <2>1, <2>2, <2>3, Zenon
<1>2. /\ sweep = NoSweep /\ sweep' = NoSweep
      /\ ranSaved' = ran' /\ missedSaved' = missed'
      /\ UNCHANGED <<clock, moves, dayRead, dayReadSaved>>
  BY DEF Backfilled
<1>3. PICK read \in SUBSET Before(answered, clock) : given' = [given EXCEPT ![f] = @ \cup read]
  BY <1>1
<1>4. WindowsType /\ DayReads /\ Marked /\ PassesJoin /\ IssuesInHand = {} /\ clock \in Nat
  BY <1>2, NoSweepType DEF WindowsInv, WindowsType, IssuesInHand
<1>5. \A r : MovesOf(r)' = MovesOf(r)
  BY <1>2 DEF MovesOf
<1>6. Before(answered, clock) \in SUBSET AllMoves
  BY <1>4 DEF Before, WindowsType, AllMoves
<1>7. /\ given' \in [Families -> SUBSET AllMoves]
      /\ \A g \in Families : given[g] \subseteq given'[g]
  BY <1>3, <1>4, <1>6 DEF WindowsType
<1>8. DayReads'
  BY <1>2, <1>4, <1>5, <1>7, NothingUnderWay DEF DayReads, All, Families
<1>9. CASE ~marks
  <2>1. UNCHANGED <<ran, missed, excused, promised>>
    BY <1>1, <1>9
  <2>2. PassesJoin'
    BY <1>4, <1>7, <2>1 DEF PassesJoin
  <2>3. Marked'
    BY <1>2, <1>4, <1>5, <1>7, <2>1 DEF Marked, All
  <2>4. WindowsType'
    BY <1>2, <1>4, <1>7, <2>1, NothingUnderWay DEF WindowsType, Times, Sweeps
  <2> QED  BY <1>2, <1>8, <2>2, <2>3, <2>4, NothingUnderWay DEF WindowsInv
<1>10. CASE marks
  <2>1. /\ ran' = [ran EXCEPT ![f] = clock]
        /\ missed' = [missed EXCEPT ![f] = Repos \ answered]
        /\ excused' = [excused EXCEPT ![f] = @ \cup
              (Before(answered, clock) \ (given'[f] \cup promised[f]))]
        /\ promised' = [promised EXCEPT ![f] = @ \cup
              (Before(answered, clock) \ excused'[f])]
    BY <1>1, <1>10
  <2>2. /\ excused' \in [Families -> SUBSET AllMoves]
        /\ promised' \in [Families -> SUBSET AllMoves]
        /\ \A g \in Families : excused[g] \subseteq excused'[g]
    BY <1>4, <1>6, <2>1 DEF WindowsType
  <2>3. Before(answered, clock) \subseteq given'[f] \cup promised[f] \cup excused'[f]
    BY <1>4, <2>1 DEF WindowsType
  <2>4. PassesJoin'
    <3>1. \A g \in Families : promised[g] \subseteq given'[g]
      BY <1>4, <1>7 DEF PassesJoin
    <3>2. promised'[f] \subseteq given'[f]
      BY <1>4, <2>1, <2>3, <3>1 DEF WindowsType
    <3>3. \A g \in Families : g # f => promised'[g] = promised[g]
      BY <1>4, <2>1 DEF WindowsType
    <3> QED  BY <3>1, <3>2, <3>3 DEF PassesJoin
  <2>5. Marked'
    <3>1. ASSUME NEW r \in Repos, r \notin missed'[f]
          PROVE  All(r, clock, given'[f] \cup excused'[f])
      <4>1. r \in answered
        BY <1>4, <2>1, <3>1 DEF WindowsType
      <4>2. promised[f] \subseteq given'[f]
        BY <1>4, <1>7 DEF PassesJoin
      <4> QED  BY <2>3, <4>1, <4>2 DEF All, Before, MovesOf
    <3>2. /\ ran'[f] = clock
          /\ \A g \in Families : g # f => ran'[g] = ran[g] /\ missed'[g] = missed[g]
      BY <1>4, <2>1 DEF WindowsType
    <3>3. ASSUME NEW g \in Families, NEW r \in Repos, r \notin missed'[g], ran'[g] # Never
          PROVE  All(r, ran'[g], given'[g] \cup excused'[g])
      <4>1. CASE g = f
        BY <3>1, <3>2, <3>3, <4>1
      <4>2. CASE g # f
        <5>1. All(r, ran[g], given[g] \cup excused[g])
          BY <1>4, <3>2, <3>3, <4>2 DEF Marked
        <5> QED  BY <1>7, <2>2, <3>2, <4>2, <5>1 DEF All
      <4> QED  BY <4>1, <4>2
    <3> QED  BY <1>2, <1>5, <3>3 DEF Marked, All
  <2>6. ran' \in [Families -> Times] /\ missed' \in [Families -> SUBSET Repos]
    BY <1>4, <2>1 DEF WindowsType, Times
  <2>7. WindowsType'
    BY <1>2, <1>4, <1>7, <2>2, <2>6, NothingUnderWay DEF WindowsType, Times, Sweeps
  <2> QED  BY <1>2, <1>8, <2>4, <2>5, <2>7, NothingUnderWay DEF WindowsInv
<1> QED  BY <1>9, <1>10

\* What moves now is behind no mark and no read.
LEMMA MovedKept == ASSUME WindowsInv, Moved PROVE WindowsInv'
<1>1. PICK r \in Repos : moves' = moves \cup {<<r, clock>>}
  BY DEF Moved
<1>2. UNCHANGED <<clock, ran, dayRead, ranSaved, dayReadSaved, missedSaved, sweep,
                  given, missed, promised, excused>>
  BY DEF Moved, onDisk, history
<1>3. WindowsType /\ DayReads /\ Marked /\ UnderWay /\ PassesJoin /\ clock \in Nat
  BY DEF WindowsInv, WindowsType
<1>4. WindowsType'
  BY <1>1, <1>2, <1>3 DEF WindowsType, Times, Sweeps
<1>5. \A s : \A m \in MovesOf(s)' : m[2] < clock => m \in MovesOf(s)
  BY <1>1, <1>3 DEF MovesOf
<1>6. clock \in 0 .. clock
  BY <1>3
<1>7. \A s, t, ms : t \in 0 .. clock /\ All(s, t, ms) =>
         \A m \in MovesOf(s)' : m[2] < t => m \in ms
  BY <1>1, <1>3 DEF All, MovesOf
<1>8. \A t \in Times : t # Never => t \in 0 .. clock
  BY DEF Times
<1>9. DayReads'
  BY <1>2, <1>3, <1>7, <1>8 DEF DayReads, WindowsType, All, IssuesInHand
<1>10. Marked'
  BY <1>2, <1>3, <1>7, <1>8 DEF Marked, WindowsType, All
<1>11. UnderWay'
  <2>1. \A g, m : Within(g, m)' = Within(g, m)
    BY <1>2 DEF Within, SinceLastRun
  <2> QED  BY <1>2, <1>3, <1>5, <1>6, <1>7, <2>1 DEF UnderWay, All
<1>12. PassesJoin'
  BY <1>2, <1>3 DEF PassesJoin
<1> QED  BY <1>4, <1>9, <1>10, <1>11, <1>12 DEF WindowsInv

LEMMA TimePassesKept == ASSUME WindowsInv, TimePasses PROVE WindowsInv'
<1>1. /\ sweep' = NoSweep /\ sweep = NoSweep /\ clock' = clock + 1
      /\ UNCHANGED <<moves, ran, dayRead, ranSaved, dayReadSaved, missedSaved,
                     given, missed, promised, excused>>
  BY DEF TimePasses, onDisk, history
<1>2. /\ WindowsType /\ DayReads /\ Marked /\ PassesJoin
      /\ clock \in Nat /\ IssuesInHand = {}
  BY <1>1, NoSweepType DEF WindowsInv, WindowsType, IssuesInHand
<1>3. 0 .. clock \subseteq 0 .. clock' /\ Times \subseteq Times' /\ clock' \in Nat
  BY <1>1, <1>2 DEF Times
<1>4. WindowsType'
  BY <1>1, <1>2, <1>3, NothingUnderWay DEF WindowsType, Sweeps
<1>5. DayReads' /\ Marked' /\ PassesJoin'
  BY <1>1, <1>2, NothingUnderWay DEF DayReads, Marked, PassesJoin, All, MovesOf
<1> QED  BY <1>1, <1>4, <1>5, NothingUnderWay DEF WindowsInv

LEMMA WindowsStep == WindowsInv /\ [WindowsNext]_windows => WindowsInv'
<1> SUFFICES ASSUME WindowsInv, [WindowsNext]_windows PROVE WindowsInv'
  OBVIOUS
<1>1. CASE UNCHANGED windows
  <2>1. UNCHANGED <<clock, moves, ran, dayRead, onDisk, history>> /\ sweep' = sweep
    BY <1>1 DEF windows
  <2>2. sweep' \in Sweeps /\ IssuesInHand' = IssuesInHand
    BY <2>1 DEF WindowsInv, WindowsType, IssuesInHand
  <2>3. UnderWay'
    BY <2>1 DEF WindowsInv, UnderWay, All, MovesOf, Within, SinceLastRun
  <2> QED  BY <2>1, <2>2, <2>3, QuietKept
<1>2. CASE WindowsNext
  BY <1>2, BeginSweepKept, PassOverKept, OpenFamilyKept, ReadRepoKept, BudgetEndsKept,
     CloseFamilyKept, EndSweepKept, ProcessEndsKept, BackfilledKept, MovedKept,
     TimePassesKept DEF WindowsNext
<1> QED  BY <1>1, <1>2

\* Once a day's read is on record in the state file, no move of that repository
\* before it is left out (sinceWindow, dayReadFrom).
THEOREM DayReadsCatchUp == WindowsSpec => []DayReadCatchesUp
<1>1. WindowsSpec => []WindowsInv
  BY WindowsInitially, WindowsStep, PTL DEF WindowsSpec
<1>2. WindowsInv => DayReadCatchesUp
  <2> SUFFICES ASSUME WindowsInv, NEW m \in moves, m \notin given["issues"],
                      dayReadSaved[m[1]] # Never
               PROVE  m[2] >= dayReadSaved[m[1]]
    BY DEF DayReadCatchesUp
  <2>1. /\ m[1] \in Repos /\ m[2] \in Nat /\ m \in MovesOf(m[1])
        /\ dayReadSaved[m[1]] \in Nat
    BY DEF WindowsInv, WindowsType, Times, MovesOf
  <2>2. ~(m[2] < dayReadSaved[m[1]])
    BY <2>1 DEF WindowsInv, DayReads, All
  <2> QED  BY <2>1, <2>2
<1> QED  BY <1>1, <1>2, PTL

\* Two passes in a row that answered for a repository leave nothing between
\* them, but what a pass marked without it left, or, of issues, what no mark
\* covers yet (pulls, issueEvents).
THEOREM PassesDoJoin == WindowsSpec => []PassesJoin
<1>1. WindowsSpec => []WindowsInv
  BY WindowsInitially, WindowsStep, PTL DEF WindowsSpec
<1>2. WindowsInv => PassesJoin
  BY DEF WindowsInv
<1> QED  BY <1>1, <1>2, PTL

-----------------------------------------------------------------------------
(* Expanded: what is not listed again.                                      *)

MemoryType ==
    /\ phase \in {"down", "idle", "collected"}
    /\ stores \in SUBSET Stores /\ ledger \in BOOLEAN
    /\ expanded \in SUBSET Runs /\ kept \in SUBSET Runs /\ rows \in SUBSET Runs
    /\ jobs \in [Stores -> SUBSET Runs]
    /\ claims \in Claims \cup {NoFile}

\* What the file claims is held, but by a store emptied since.
ClaimsHeld ==
    claims # NoFile =>
        \A s \in claims.stores \ (orphaned \cup cleared \cup replaced) : claims.runs \subseteq jobs[s]

\* With no process to write the file again, a store emptied by hand is not
\* believed: the ledger is empty, or what filled it counted the store out.
EmptiedIsKnown == phase = "down" /\ ledger => replaced \subseteq orphaned

\* Rows are in hand from a collection to its end.
RowsInHand == phase # "collected" => rows = {}

Vouched == MemoryType /\ RowsInHand /\ RememberedIsHeld /\ ClaimsHeld /\ EmptiedIsKnown

LEMMA InitVouched == MemoryInit => Vouched
<1> SUFFICES ASSUME MemoryInit PROVE Vouched
  OBVIOUS
<1>1. MemoryType
  BY DEF MemoryInit, MemoryType
<1> QED  BY <1>1 DEF MemoryInit, Vouched, RowsInHand, RememberedIsHeld, ClaimsHeld, EmptiedIsKnown

LEMMA StartVouched ==
    ASSUME Vouched, NEW ss \in SUBSET Stores \ {{}}, Start(ss)
    PROVE  Vouched'
<1>1. /\ phase = "down" /\ phase' = "idle" /\ stores' = ss /\ kept' = expanded'
      /\ orphaned' = orphaned \cup cleared /\ cleared' = {}
      /\ UNCHANGED <<rows, claims, jobs, ledger, owed, replaced>>
  BY DEF Start
<1>2. expanded' = {} \/ (claims # NoFile /\ ledger /\ ss \subseteq claims.stores
                         /\ expanded' = claims.runs)
  BY DEF Start, Believed
<1>3. expanded' \in SUBSET Runs
  BY <1>2 DEF Vouched, MemoryType, Claims
<1>4. MemoryType' /\ RowsInHand' /\ EmptiedIsKnown' /\ ClaimsHeld'
  BY <1>1, <1>3 DEF Vouched, MemoryType, RowsInHand, EmptiedIsKnown, ClaimsHeld
<1>5. ASSUME NEW s \in ss \ orphaned' PROVE expanded' \subseteq jobs[s]
  <2>1. CASE expanded' = {}
    BY <2>1
  <2>2. CASE expanded' # {}
    <3>1. claims # NoFile /\ ledger /\ s \in claims.stores /\ expanded' = claims.runs
      BY <1>2, <2>2
    <3>2. replaced \subseteq orphaned
      BY <1>1, <3>1 DEF Vouched, EmptiedIsKnown
    <3> QED  BY <1>1, <1>5, <3>1, <3>2 DEF Vouched, ClaimsHeld
  <2> QED  BY <2>1, <2>2
<1>6. RememberedIsHeld'
  BY <1>1, <1>5 DEF RememberedIsHeld
<1> QED  BY <1>4, <1>6 DEF Vouched

LEMMA CollectVouched == ASSUME Vouched, Collect PROVE Vouched'
<1>1. PICK new \in SUBSET (Runs \ expanded) : rows' = new /\ expanded' = expanded \cup new
  BY DEF Collect
<1>2. /\ phase = "idle" /\ phase' = "collected"
      /\ UNCHANGED <<stores, kept, claims, jobs, ledger, owed, cleared, replaced, orphaned>>
  BY DEF Collect, world
<1>3. MemoryType'
  BY <1>1, <1>2 DEF Vouched, MemoryType
<1>4. RowsInHand' /\ ClaimsHeld' /\ EmptiedIsKnown'
  BY <1>2 DEF Vouched, RowsInHand, ClaimsHeld, EmptiedIsKnown
<1>5. RememberedIsHeld'
  <2>1. expanded' \ rows' \subseteq expanded \ rows
    BY <1>1, <1>2 DEF Vouched, RowsInHand
  <2>2. \A s \in stores \ orphaned : (expanded \ rows) \cup kept \subseteq jobs[s]
    BY <1>2 DEF Vouched, RememberedIsHeld
  <2> QED  BY <1>2, <2>1, <2>2 DEF RememberedIsHeld
<1> QED  BY <1>3, <1>4, <1>5 DEF Vouched

\* Whatever the sinks made of the rows, what is remembered after is held by
\* all of them.
LEMMA EmitVouched == ASSUME Vouched, Emit PROVE Vouched'
<1>1. PICK took \in SUBSET stores, failed \in SUBSET stores :
        /\ stores \subseteq took \cup failed
        /\ jobs' = [s \in Stores |-> IF s \in took THEN jobs[s] \cup rows ELSE jobs[s]]
        /\ Settle(rows = {} \/ failed = {})
        /\ ledger' \in {ledger, ledger \/ (rows # {} /\ failed # stores)}
  BY DEF Emit
<1>2. /\ phase = "collected" /\ phase' = "idle" /\ rows' = {}
      /\ UNCHANGED <<stores, claims, owed, cleared, replaced, orphaned>>
  BY DEF Emit
<1>3. /\ \A s \in Stores : jobs[s] \subseteq jobs'[s]
      /\ \A s \in took : rows \subseteq jobs'[s]
      /\ jobs' \in [Stores -> SUBSET Runs]
  BY <1>1 DEF Vouched, MemoryType
<1>4. \/ (rows = {} \/ stores = took) /\ kept' = expanded /\ expanded' = expanded
      \/ expanded' = kept /\ kept' = kept
  BY <1>1 DEF Settle
<1>5. ledger' \in BOOLEAN
  BY <1>1, Zenon DEF Vouched, MemoryType
<1>6. MemoryType'
  BY <1>2, <1>3, <1>4, <1>5 DEF Vouched, MemoryType
<1>7. RememberedIsHeld'
  <2>1. stores \in SUBSET Stores /\ \A s \in stores \ orphaned : (expanded \ rows) \cup kept \subseteq jobs[s]
    BY <1>2 DEF Vouched, MemoryType, RememberedIsHeld
  <2>2. ASSUME NEW s \in stores \ orphaned PROVE expanded' \cup kept' \subseteq jobs'[s]
    <3>1. (expanded \ rows) \cup kept \subseteq jobs'[s]
      BY <1>3, <2>1
    <3>2. CASE (rows = {} \/ stores = took) /\ kept' = expanded /\ expanded' = expanded
      BY <1>3, <3>1, <3>2
    <3>3. CASE expanded' = kept /\ kept' = kept
      BY <3>1, <3>3
    <3> QED  BY <1>4, <3>2, <3>3
  <2> QED  BY <1>2, <2>2 DEF RememberedIsHeld
<1>8. ClaimsHeld'
  <2>1. \A s \in claims.stores : claims # NoFile => s \in Stores
    BY DEF Vouched, MemoryType, Claims
  <2> QED  BY <1>2, <1>3, <2>1 DEF Vouched, ClaimsHeld
<1>9. RowsInHand' /\ EmptiedIsKnown'
  BY <1>2 DEF RowsInHand, EmptiedIsKnown
<1> QED  BY <1>6, <1>7, <1>8, <1>9 DEF Vouched

\* The file is written from what was delivered.
LEMMA SaveVouched ==
    ASSUME Vouched, phase # "down", SaveCache, UNCHANGED <<jobs, ledger, cleared, orphaned>>
    PROVE  /\ claims' \in Claims \cup {NoFile} /\ ClaimsHeld' /\ EmptiedIsKnown'
<1>1. PICK gone \in SUBSET kept : claims' = [runs |-> kept \ gone, stores |-> stores]
  BY DEF SaveCache
<1>2. claims' \in Claims
  BY <1>1 DEF Vouched, MemoryType, Claims
<1>3. ClaimsHeld'
  BY <1>1 DEF Vouched, RememberedIsHeld, ClaimsHeld
<1>4. EmptiedIsKnown'
  BY DEF SaveCache, EmptiedIsKnown
<1> QED  BY <1>2, <1>3, <1>4

LEMMA SaveBetweenVouched == ASSUME Vouched, SaveBetween PROVE Vouched'
<1>1. /\ phase = "idle" /\ SaveCache
      /\ UNCHANGED <<phase, stores, expanded, kept, rows, jobs, ledger, owed, cleared, orphaned>>
  BY DEF SaveBetween, memory
<1>2. claims' \in Claims \cup {NoFile} /\ ClaimsHeld' /\ EmptiedIsKnown'
  BY <1>1, SaveVouched
<1>3. MemoryType' /\ RowsInHand' /\ RememberedIsHeld'
  BY <1>1, <1>2 DEF Vouched, MemoryType, RowsInHand, RememberedIsHeld
<1> QED  BY <1>2, <1>3 DEF Vouched

LEMMA StopVouched == ASSUME Vouched, Stop PROVE Vouched'
<1>1. /\ phase # "down" /\ SaveCache /\ ProcessOver
      /\ UNCHANGED <<jobs, ledger, owed, cleared, orphaned>>
  BY DEF Stop
<1>2. claims' \in Claims \cup {NoFile} /\ ClaimsHeld' /\ EmptiedIsKnown'
  BY <1>1, SaveVouched
<1>3. MemoryType' /\ RowsInHand' /\ RememberedIsHeld'
  BY <1>1, <1>2 DEF Vouched, MemoryType, RowsInHand, RememberedIsHeld, ProcessOver
<1> QED  BY <1>2, <1>3 DEF Vouched

LEMMA CrashVouched == ASSUME Vouched, Crash PROVE Vouched'
<1>1. /\ ProcessOver /\ orphaned' = IF ledger THEN orphaned \cup replaced ELSE orphaned
      /\ UNCHANGED <<claims, jobs, ledger, owed, cleared, replaced>>
  BY DEF Crash
<1>2. MemoryType' /\ RowsInHand' /\ RememberedIsHeld'
  BY <1>1 DEF Vouched, MemoryType, RowsInHand, RememberedIsHeld, ProcessOver
<1>3. ClaimsHeld' /\ EmptiedIsKnown'
  BY <1>1 DEF Vouched, ClaimsHeld, EmptiedIsKnown
<1> QED  BY <1>2, <1>3 DEF Vouched

\* What happens to the stores while no process runs.
LEMMA ClearVouched == ASSUME Vouched, NEW s \in Stores, Clear(s) PROVE Vouched'
<1>1. /\ phase = "down" /\ cleared = {} /\ jobs' = [jobs EXCEPT ![s] = {}] /\ cleared' = {s}
      /\ UNCHANGED <<phase, stores, expanded, kept, rows, claims, ledger, replaced, orphaned>>
  BY DEF Clear, memory
<1>2. MemoryType' /\ RowsInHand' /\ RememberedIsHeld'
  BY <1>1 DEF Vouched, MemoryType, RowsInHand, RememberedIsHeld
<1>3. ClaimsHeld' /\ EmptiedIsKnown'
  BY <1>1 DEF Vouched, MemoryType, Claims, ClaimsHeld, EmptiedIsKnown
<1> QED  BY <1>2, <1>3 DEF Vouched

LEMMA ForgetVouched == ASSUME Vouched, ForgetInCache PROVE Vouched'
<1>1. /\ phase = "down" /\ cleared' = {} /\ replaced' = {}
      /\ claims' = IF claims = NoFile THEN claims ELSE [claims EXCEPT !.runs = {}]
      /\ UNCHANGED <<phase, stores, expanded, kept, rows, jobs, ledger, owed, orphaned>>
  BY DEF ForgetInCache, memory
<1>2. claims' \in Claims \cup {NoFile} /\ (claims' # NoFile => claims'.runs = {})
  BY <1>1 DEF Vouched, MemoryType, Claims
<1>3. MemoryType' /\ RowsInHand' /\ RememberedIsHeld'
  BY <1>1, <1>2 DEF Vouched, MemoryType, RowsInHand, RememberedIsHeld
<1>4. ClaimsHeld' /\ EmptiedIsKnown'
  BY <1>1, <1>2 DEF ClaimsHeld, EmptiedIsKnown
<1> QED  BY <1>3, <1>4 DEF Vouched

LEMMA RefillVouched == ASSUME Vouched, NEW s \in Stores, Refill(s) PROVE Vouched'
<1>1. /\ phase = "down" /\ jobs' = [jobs EXCEPT ![s] = Runs] /\ ledger' \in {ledger, TRUE}
      /\ cleared' = cleared \ {s} /\ replaced' = replaced \ {s}
      /\ orphaned' = (IF ledger' THEN orphaned \cup replaced ELSE orphaned) \ {s}
      /\ UNCHANGED <<phase, stores, expanded, kept, rows, claims>>
  BY DEF Refill, memory
<1>5. ledger' \in BOOLEAN
  BY <1>1, Zenon DEF Vouched, MemoryType
<1>2. MemoryType' /\ RowsInHand' /\ RememberedIsHeld'
  BY <1>1, <1>5 DEF Vouched, MemoryType, RowsInHand, RememberedIsHeld
<1>3. ClaimsHeld'
  <2>1. SUFFICES ASSUME claims # NoFile,
                        NEW x \in claims.stores \ (orphaned' \cup cleared' \cup replaced')
                 PROVE  claims.runs \subseteq jobs'[x]
    BY <1>1 DEF ClaimsHeld
  <2>2. x \in Stores /\ claims.runs \subseteq Runs
    BY <2>1 DEF Vouched, MemoryType, Claims
  <2>3. CASE x = s
    BY <1>1, <2>2, <2>3 DEF Vouched, MemoryType
  <2>4. CASE x # s
    <3>1. jobs'[x] = jobs[x] /\ x \notin orphaned \cup cleared \cup replaced
      BY <1>1, <2>1, <2>2, <2>4 DEF Vouched, MemoryType
    <3> QED  BY <2>1, <3>1 DEF Vouched, ClaimsHeld
  <2> QED  BY <2>3, <2>4
<1>4. EmptiedIsKnown'
  BY <1>1 DEF EmptiedIsKnown
<1> QED  BY <1>2, <1>3, <1>4 DEF Vouched

LEMMA BackfillVouched == ASSUME Vouched, Backfill PROVE Vouched'
<1>1. PICK some \in [Stores -> SUBSET Runs] : jobs' = [s \in Stores |-> jobs[s] \cup some[s]]
  BY DEF Backfill
<1>2. UNCHANGED <<phase, stores, expanded, kept, rows, claims, ledger, owed, cleared,
                  replaced, orphaned>>
  BY DEF Backfill, memory
<1>3. jobs' \in [Stores -> SUBSET Runs] /\ \A s \in Stores : jobs[s] \subseteq jobs'[s]
  BY <1>1 DEF Vouched, MemoryType
<1>4. MemoryType' /\ RowsInHand' /\ RememberedIsHeld'
  BY <1>2, <1>3 DEF Vouched, MemoryType, RowsInHand, RememberedIsHeld
<1>5. ClaimsHeld'
  <2>1. \A s \in claims.stores : claims # NoFile => s \in Stores
    BY DEF Vouched, MemoryType, Claims
  <2> QED  BY <1>2, <1>3, <2>1 DEF Vouched, ClaimsHeld
<1>6. EmptiedIsKnown'
  BY <1>2 DEF Vouched, EmptiedIsKnown
<1> QED  BY <1>4, <1>5, <1>6 DEF Vouched

LEMMA ReplaceVouched == ASSUME Vouched, NEW s \in Stores, Replace(s) PROVE Vouched'
<1>1. /\ phase = "down" /\ jobs' = [jobs EXCEPT ![s] = {}] /\ ledger' = FALSE
      /\ replaced' = replaced \cup {s}
      /\ UNCHANGED <<phase, stores, expanded, kept, rows, claims, owed, cleared, orphaned>>
  BY DEF Replace, memory
<1>2. MemoryType' /\ RowsInHand' /\ RememberedIsHeld'
  BY <1>1 DEF Vouched, MemoryType, RowsInHand, RememberedIsHeld
<1>3. ClaimsHeld' /\ EmptiedIsKnown'
  BY <1>1 DEF Vouched, MemoryType, Claims, ClaimsHeld, EmptiedIsKnown
<1> QED  BY <1>2, <1>3 DEF Vouched

LEMMA StepVouched == Vouched /\ [MemoryNext]_remembered => Vouched'
<1> SUFFICES ASSUME Vouched, [MemoryNext]_remembered PROVE Vouched'
  OBVIOUS
<1>1. CASE \E ss \in SUBSET Stores \ {{}} : Start(ss)
  BY <1>1, StartVouched
<1>2. CASE Collect \/ Emit
  BY <1>2, CollectVouched, EmitVouched
<1>3. CASE SaveBetween \/ Stop \/ Crash
  BY <1>3, SaveBetweenVouched, StopVouched, CrashVouched
<1>4. CASE ForgetInCache \/ Backfill
  BY <1>4, ForgetVouched, BackfillVouched
<1>5. CASE \E s \in Stores : Clear(s) \/ Refill(s) \/ Replace(s)
  BY <1>5, ClearVouched, RefillVouched, ReplaceVouched
<1>6. CASE UNCHANGED remembered
  BY <1>6 DEF remembered, memory, world, Vouched, MemoryType, RowsInHand, RememberedIsHeld,
              ClaimsHeld, EmptiedIsKnown
<1> QED  BY <1>1, <1>2, <1>3, <1>4, <1>5, <1>6 DEF MemoryNext

\* A run whose jobs are not listed again has them in every store of the
\* process (settleExpanded, loadCache, ForgetInCache).
THEOREM RememberedRunsAreHeld == MemorySpec => []RememberedIsHeld
<1>1. Vouched => RememberedIsHeld
  BY DEF Vouched
<1> QED  BY <1>1, InitVouched, StepVouched, PTL DEF MemorySpec

=============================================================================
