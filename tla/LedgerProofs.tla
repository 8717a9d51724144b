---------------------------- MODULE LedgerProofs ----------------------------
(***************************************************************************)
(* Proofs about Ledger, for every set of stores, rows and values, every    *)
(* horizon and size: its variables keep their types, a row held back is a  *)
(* row in the store, what is remembered of it is what the store holds, and *)
(* what was offered today is remembered.                                   *)
(***************************************************************************)
EXTENDS Ledger, FiniteSetTheorems, WellFoundedInduction, TLAPS

-----------------------------------------------------------------------------
(* The map.                                                                *)

\* The empty map is a map.
LEMMA NothingType == Nothing \in Seen
BY DEF Nothing, Seen

\* An identity is a key, no two rows of a store share one, no two stores do.
LEMMA IdentityKey ==
    ASSUME NEW s \in Sink, NEW i \in Row, salts \in [Sink -> Salt]
    PROVE  /\ Identity(s, i) \in Key
           /\ Identity(s, i)[1] = s /\ Identity(s, i)[2] = i /\ Identity(s, i)[3] = salts[s]
           /\ \A t \in Sink, j \in Row : Identity(t, j) = Identity(s, i) => t = s /\ j = i
BY DEF Identity, Key

\* Whatever the day, entries are dropped and none is made.
LEMMA DroppingDrops ==
    ASSUME NEW m \in Seen, NEW d
    PROVE  /\ Dropping(m, d) \in Seen
           /\ \A k \in Key : Dropping(m, d)[k] = None \/ Dropping(m, d)[k] = m[k]
BY DEF Dropping, Seen

\* A save drops entries and makes none.
LEMMA PrunedDrops ==
    ASSUME NEW m \in Seen
    PROVE  /\ Pruned(m) \in Seen
           /\ \A k \in Key : Pruned(m)[k] = None \/ Pruned(m)[k] = m[k]
<1> DEFINE first == IF today > Horizon THEN today - Horizon ELSE 0
           young == Dropping(m, first)
<1>1. young \in Seen /\ \A k \in Key : young[k] = None \/ young[k] = m[k]
  <2> HIDE DEF first
  <2> QED  BY DroppingDrops
<1>2. /\ Dropping(young, Cut(young)) \in Seen
      /\ \A k \in Key : \/ Dropping(young, Cut(young))[k] = None
                        \/ Dropping(young, Cut(young))[k] = young[k]
  <2> DEFINE cut == Cut(young)
  <2> HIDE DEF cut, young
  <2> QED  BY <1>1, DroppingDrops DEF cut
<1> HIDE DEF young
<1>3. Pruned(m) = IF Cardinality(Remembered(young)) > MaxEntries
                  THEN Dropping(young, Cut(young)) ELSE young
  BY DEF Pruned, young
<1> QED  BY <1>1, <1>2, <1>3

\* What a commit makes of the entries: the offered rows' are of the value and
\* the day, every other is the one it was.
LEMMA CommittedType ==
    ASSUME TypeOK, NEW s \in Sink, NEW offered \in SUBSET Row
    PROVE  /\ Committed(s, offered) \in Seen
           /\ \A k \in Key : \/ Committed(s, offered)[k] = seen[k]
                             \/ \E i \in offered : k = Identity(s, i)
           /\ \A i \in offered :
                 Committed(s, offered)[Identity(s, i)] = [value |-> source[i], day |-> today]
<1>1. \A i \in Row : Identity(s, i) \in Key /\ Identity(s, i)[2] = i
  BY IdentityKey DEF TypeOK
<1>2. \A i \in Row : [value |-> source[i], day |-> today] \in Entry
  BY DEF TypeOK, Entry
<1> QED  BY <1>1, <1>2 DEF Committed, Seen, TypeOK

\* Whichever way it goes, memory and file hold what the map or the file held.
LEMMA SaveDrops ==
    ASSUME NEW m \in Seen, file \in Seen, NEW changed \in BOOLEAN, NEW how \in Saves,
           MaybeSave(m, changed, how)
    PROVE  /\ seen' \in Seen /\ file' \in Seen /\ dirty' \in BOOLEAN
           /\ \A k \in Key : seen'[k] = None \/ seen'[k] = m[k]
           /\ \A k \in Key : \/ file'[k] = None \/ file'[k] = m[k] \/ file'[k] = file[k]
BY PrunedDrops DEF MaybeSave

\* What a store holds once it took some rows.
LEMMA PutType ==
    ASSUME TypeOK, NEW s \in Sink, NEW rows \in SUBSET Row
    PROVE  /\ Put(s, rows) \in [Sink -> [Row -> Value \cup {None}]]
           /\ \A t \in Sink, j \in Row :
                 Put(s, rows)[t][j] = IF t = s /\ j \in rows THEN source[j] ELSE store[t][j]
BY DEF Put, TypeOK

\* The rows of one store.
LEMMA OfPairs ==
    ASSUME NEW s \in Sink, NEW rows \in SUBSET Row
    PROVE  /\ Of(s, rows) \subseteq Sink \X Row
           /\ \A t \in Sink, j \in Row : <<t, j>> \in Of(s, rows) <=> t = s /\ j \in rows
BY DEF Of

-----------------------------------------------------------------------------
(* Types.                                                                  *)

\* The first state has its types.
LEMMA TypeInitially == Init => TypeOK
<1> SUFFICES ASSUME Init PROVE TypeOK
  OBVIOUS
<1>1. /\ 0 \in Salt /\ 0 \in 0..LastDay
      /\ 0 \in 0..MaxMishaps /\ 0 \in 0..MaxLosses
  BY LedgerAssumption DEF Salt
<1>2. /\ store \in [Sink -> [Row -> Value \cup {None}]]
      /\ salts \in [Sink -> Salt]
  BY <1>1 DEF Init
<1> QED  BY <1>1, <1>2, NothingType DEF Init, TypeOK

\* No step loses them: one case per operation.
LEMMA TypeKept == TypeOK /\ [Next]_vars => TypeOK'
<1> SUFFICES ASSUME TypeOK, [Next]_vars PROVE TypeOK'
  OBVIOUS
<1> USE LedgerAssumption
<1>1. ASSUME NEW s \in Sink, NEW offered \in SUBSET Row, NEW how \in Saves,
             Accepted(s, offered, how)
      PROVE  TypeOK'
  <2> DEFINE m == Committed(s, offered)
             keep == Keep(s, offered)
  <2>1. m \in Seen /\ keep \in SUBSET Row
    BY CommittedType DEF Keep
  <2>2. MaybeSave(m, dirty \/ m # seen, how)
    BY <1>1 DEF Accepted
  <2> HIDE DEF m
  <2>3. seen' \in Seen /\ file' \in Seen /\ dirty' \in BOOLEAN
    BY <2>1, <2>2, SaveDrops DEF TypeOK
  <2>4. store' \in [Sink -> [Row -> Value \cup {None}]]
    BY <1>1, <2>1, PutType DEF Accepted
  <2> QED  BY <1>1, <2>3, <2>4 DEF Accepted, Loss, TypeOK
<1>2. ASSUME NEW s \in Sink, NEW offered \in SUBSET Row, NEW landed \in SUBSET offered,
             NEW how \in Saves, Partly(s, offered, landed, how)
      PROVE  TypeOK'
  <2> DEFINE m == Committed(s, offered)
             keep == Keep(s, offered)
  <2>1. m \in Seen /\ keep \in SUBSET Row
    BY CommittedType DEF Keep
  <2>2. MaybeSave(m, dirty \/ m # seen, how)
    BY <1>2 DEF Partly
  <2> HIDE DEF m
  <2>3. seen' \in Seen /\ file' \in Seen /\ dirty' \in BOOLEAN
    BY <2>1, <2>2, SaveDrops DEF TypeOK
  <2>4. store' \in [Sink -> [Row -> Value \cup {None}]]
    BY <1>2, <2>1, PutType DEF Partly
  <2>5. Of(s, keep \ landed) \subseteq Sink \X Row
    BY <2>1, OfPairs
  <2>6. rejected' \subseteq Sink \X Row /\ uncertain' \subseteq Sink \X Row
    BY <1>2, <2>5 DEF Partly, TypeOK
  <2>7. mishaps' \in 0..MaxMishaps /\ losses' = losses
    BY <1>2 DEF Partly, Mishap, TypeOK
  <2> QED  BY <1>2, <2>3, <2>4, <2>6, <2>7 DEF Partly, TypeOK
<1>3. ASSUME NEW s \in Sink, NEW offered \in SUBSET Row, NEW landed \in SUBSET offered,
             Refused(s, offered, landed)
      PROVE  TypeOK'
  <2>1. store' \in [Sink -> [Row -> Value \cup {None}]]
    BY <1>3, PutType DEF Refused
  <2>2. Of(s, landed) \subseteq Sink \X Row
    BY OfPairs
  <2> QED  BY <1>3, <2>1, <2>2 DEF Refused, Mishap, TypeOK
<1>4. ASSUME NEW s \in Sink, SetAside(s) PROVE TypeOK'
  <2>1. salts' \in [Sink -> Salt]
    BY <1>4 DEF SetAside, TypeOK, Salt
  <2>2. store' \in [Sink -> [Row -> Value \cup {None}]]
    BY <1>4 DEF SetAside, TypeOK
  <2> QED  BY <1>4, <2>1, <2>2 DEF SetAside, TypeOK
<1>5. ASSUME NEW saved \in BOOLEAN, Stop(saved) PROVE TypeOK'
  <2>1. file' \in Seen /\ seen' \in Seen
    BY <1>5, PrunedDrops, NothingType DEF Stop, TypeOK
  <2>2. uncertain' \subseteq Sink \X Row
    BY <1>5 DEF Stop, TypeOK, Outdated
  <2>3. losses' \in 0..MaxLosses
    BY <1>5 DEF Stop, Loss, TypeOK
  <2> QED  BY <1>5, <2>1, <2>2, <2>3 DEF Stop, Loss, TypeOK
<1>6. ASSUME Crash PROVE TypeOK'
  <2>1. uncertain' \subseteq Sink \X Row
    BY <1>6 DEF Crash, TypeOK, Outdated
  <2>2. losses' \in 0..MaxLosses
    BY <1>6 DEF Crash, Loss, TypeOK
  <2> QED  BY <1>6, <2>1, <2>2, NothingType DEF Crash, Loss, TypeOK
<1>7. ASSUME NEW readable \in BOOLEAN, StartUp(readable) PROVE TypeOK'
  BY <1>7, NothingType DEF StartUp, TypeOK
<1>8. ASSUME NEW i \in Row, NEW v \in Value, Move(i, v) PROVE TypeOK'
  BY <1>8 DEF Move, TypeOK
<1>9. ASSUME NextDay PROVE TypeOK'
  BY <1>9 DEF NextDay, TypeOK
<1>10. CASE UNCHANGED vars
  BY <1>10 DEF vars, TypeOK
<1> QED
  BY <1>1, <1>2, <1>3, <1>4, <1>5, <1>6, <1>7, <1>8, <1>9, <1>10
     DEF Next, Write, Process, Offers

\* Every variable keeps its type, whatever is offered, refused, saved, lost
\* and read back.
THEOREM LedgerTypeCorrect == Spec => []TypeOK
BY TypeInitially, TypeKept, PTL DEF Spec

-----------------------------------------------------------------------------
(* What is held back.                                                      *)

\* No entry is salted as a table that is yet to come.
FutureUnknown ==
    \A k \in Key, m \in {seen, file} : k[3] > salts[k[1]] => m[k] = None

\* What a start is about to read back is what the stores hold.
DownIsKnown ==
    up \/ \A s \in Sink, i \in Row :
             LET e == file[Identity(s, i)]
             IN  \/ e = None \/ e.value = store[s][i]
                 \/ <<s, i>> \in rejected \cup uncertain

\* The file alone says nothing of what a store holds while the process runs,
\* and everything at the next start: hence DownIsKnown. A table set aside is
\* empty while the entries of the old one stay: hence FutureUnknown.
IInv == /\ TypeOK
        /\ HeldBackIsThere
        /\ RememberedIsHeld
        /\ FutureUnknown
        /\ DownIsKnown

\* A write in general: the rows of W are in the store, what was offered is
\* remembered or dropped again, and a row is either of W, or was held back, or
\* is refused; whatever is of W without being offered is uncertain.
LEMMA WriteKeeps ==
    ASSUME IInv, TypeOK', NEW s \in Sink, NEW offered \in SUBSET Row, NEW W \in SUBSET Row,
           up, up' = up, salts' = salts, store' = Put(s, W),
           \A k \in Key : seen'[k] = None \/ seen'[k] = Committed(s, offered)[k],
           \A k \in Key : \/ file'[k] = None \/ file'[k] = file[k]
                          \/ file'[k] = Committed(s, offered)[k],
           \A t \in Sink, j \in Row :
              /\ <<t, j>> \in rejected => <<t, j>> \in rejected' \/ (t = s /\ j \in W)
              /\ <<t, j>> \in uncertain => <<t, j>> \in uncertain' \/ (t = s /\ j \in W),
           \A j \in offered : j \in W \/ j \notin Keep(s, offered) \/ <<s, j>> \in rejected',
           \A j \in W : j \in offered \/ <<s, j>> \in uncertain'
    PROVE  IInv'
<1> DEFINE m == Committed(s, offered)
<1>1. /\ \A k \in Key : m[k] = seen[k] \/ \E j \in offered : k = Identity(s, j)
      /\ \A j \in offered : m[Identity(s, j)] = [value |-> source[j], day |-> today]
  BY CommittedType DEF IInv
<1>2. \A t \in Sink, j \in Row :
         /\ Identity(t, j) \in Key /\ Identity(t, j)' = Identity(t, j)
         /\ \A i \in Row : Identity(t, j) = Identity(s, i) => t = s /\ j = i
         /\ Identity(t, j)[1] = t /\ Identity(t, j)[3] = salts[t]
  BY IdentityKey DEF IInv, TypeOK, Identity
<1>3. \A t \in Sink, j \in Row :
         store'[t][j] = IF t = s /\ j \in W THEN source[j] ELSE store[t][j]
  BY PutType DEF IInv
<1>4. \A j \in Row : source[j] \in Value /\ source[j] # None
  BY LedgerAssumption DEF IInv, TypeOK
<1>5. \A j \in offered : j \notin Keep(s, offered) =>
         seen[Identity(s, j)] # None /\ seen[Identity(s, j)].value = source[j]
  BY DEF Keep
<1>6. \A t \in Sink, j \in Row :
         m[Identity(t, j)] = seen[Identity(t, j)] \/ (t = s /\ j \in offered)
  BY <1>1, <1>2
<1> HIDE DEF m
<1>7. HeldBackIsThere'
  <2> SUFFICES ASSUME NEW t \in Sink, NEW j \in Row, NEW n \in {seen', file'},
                      n[Identity(t, j)] # None
               PROVE  store'[t][j] # None \/ <<t, j>> \in rejected'
    BY <1>2 DEF HeldBackIsThere
  <2>1. \/ seen[Identity(t, j)] # None \/ file[Identity(t, j)] # None
        \/ t = s /\ j \in offered
    BY <1>2, <1>6 DEF m
  <2>2. CASE t = s /\ j \in W
    BY <2>2, <1>3, <1>4
  <2>3. CASE ~(t = s /\ j \in W) /\ (seen[Identity(t, j)] # None \/ file[Identity(t, j)] # None)
    BY <2>3, <1>3 DEF IInv, HeldBackIsThere
  <2>4. CASE t = s /\ j \in offered /\ j \notin W
    BY <2>4, <1>3, <1>5 DEF IInv, HeldBackIsThere
  <2> QED  BY <2>1, <2>2, <2>3, <2>4
<1>8. RememberedIsHeld'
  <2> SUFFICES ASSUME NEW t \in Sink, NEW j \in Row, seen'[Identity(t, j)] # None
               PROVE  \/ seen'[Identity(t, j)].value = store'[t][j]
                      \/ <<t, j>> \in rejected' \cup uncertain'
    BY DEF RememberedIsHeld, Identity
  <2>1. seen'[Identity(t, j)] = m[Identity(t, j)]
    BY <1>2 DEF m
  <2>2. CASE t = s /\ j \in offered
    <3>1. m[Identity(t, j)] = [value |-> source[j], day |-> today]
      BY <2>2, <1>1, Zenon
    <3>2. seen'[Identity(t, j)].value = source[j]
      BY <2>1, <3>1
    <3>3. CASE j \in W
      BY <2>2, <3>2, <3>3, <1>3
    <3>4. CASE j \notin W /\ j \notin Keep(s, offered)
      BY <2>2, <3>2, <3>4, <1>3, <1>5 DEF IInv, RememberedIsHeld
    <3> QED  BY <2>2, <3>3, <3>4
  <2>3. CASE ~(t = s /\ j \in offered)
    <3>1. seen'[Identity(t, j)] = seen[Identity(t, j)]
      BY <2>1, <2>3, <1>6
    <3> QED  BY <2>3, <3>1, <1>3 DEF IInv, RememberedIsHeld
  <2> QED  BY <2>2, <2>3
<1>9. FutureUnknown'
  <2> SUFFICES ASSUME NEW k \in Key, NEW n \in {seen', file'}, k[3] > salts[k[1]]
               PROVE  n[k] = None
    BY DEF FutureUnknown
  <2>1. seen[k] = None /\ file[k] = None
    BY DEF IInv, FutureUnknown
  <2>2. \A j \in offered : k # Identity(s, j)
    BY <1>2 DEF IInv, TypeOK, Salt
  <2> QED  BY <1>1, <2>1, <2>2 DEF m
<1>10. DownIsKnown'
  BY DEF DownIsKnown
<1> QED  BY <1>7, <1>8, <1>9, <1>10 DEF IInv

\* What a write saves, for the three writes that save nothing, all or a part.
LEMMA SavedIsCommitted ==
    ASSUME IInv, NEW s \in Sink, NEW offered \in SUBSET Row, NEW changed \in BOOLEAN,
           NEW how \in Saves, MaybeSave(Committed(s, offered), changed, how)
    PROVE  /\ \A k \in Key : seen'[k] = None \/ seen'[k] = Committed(s, offered)[k]
           /\ \A k \in Key : \/ file'[k] = None \/ file'[k] = file[k]
                             \/ file'[k] = Committed(s, offered)[k]
<1> DEFINE m == Committed(s, offered)
<1>1. m \in Seen /\ file \in Seen
  BY CommittedType DEF IInv, TypeOK
<1> HIDE DEF m
<1>2. MaybeSave(m, changed, how)
  BY DEF m
<1>3. /\ \A k \in Key : seen'[k] = None \/ seen'[k] = m[k]
      /\ \A k \in Key : file'[k] = None \/ file'[k] = m[k] \/ file'[k] = file[k]
  BY <1>1, <1>2, SaveDrops
<1> QED  BY <1>3 DEF m

\* Every row that is new is in the store.
LEMMA AcceptedKeeps ==
    ASSUME IInv, TypeOK', NEW s \in Sink, NEW offered \in SUBSET Row, NEW how \in Saves,
           Accepted(s, offered, how)
    PROVE  IInv'
<1> DEFINE m == Committed(s, offered)
           keep == Keep(s, offered)
<1>1. keep \in SUBSET Row /\ keep \subseteq offered
  BY DEF Keep
<1>2. MaybeSave(m, dirty \/ m # seen, how)
  BY DEF Accepted
<1>3. /\ \A k \in Key : seen'[k] = None \/ seen'[k] = m[k]
      /\ \A k \in Key : file'[k] = None \/ file'[k] = file[k] \/ file'[k] = m[k]
  <2>1. (dirty \/ m # seen) \in BOOLEAN
    OBVIOUS
  <2> QED  BY <1>2, <2>1, SavedIsCommitted
<1>4. \A t \in Sink, j \in Row : <<t, j>> \in Of(s, keep) <=> t = s /\ j \in keep
  BY <1>1, OfPairs
<1>5. /\ up /\ up' = up /\ salts' = salts /\ store' = Put(s, keep)
      /\ rejected' = rejected \ Of(s, keep) /\ uncertain' = uncertain \ Of(s, keep)
  BY DEF Accepted
<1>6. /\ \A t \in Sink, j \in Row :
            /\ <<t, j>> \in rejected => <<t, j>> \in rejected' \/ (t = s /\ j \in keep)
            /\ <<t, j>> \in uncertain => <<t, j>> \in uncertain' \/ (t = s /\ j \in keep)
  BY <1>4, <1>5
<1> HIDE DEF keep
<1>7. \A j \in offered : j \in keep \/ j \notin Keep(s, offered) \/ <<s, j>> \in rejected'
  BY DEF keep
<1>8. \A j \in keep : j \in offered \/ <<s, j>> \in uncertain'
  BY <1>1
<1> QED  BY <1>1, <1>3, <1>5, <1>6, <1>7, <1>8, WriteKeeps

\* The rows that are not are refused.
LEMMA PartlyKeeps ==
    ASSUME IInv, TypeOK', NEW s \in Sink, NEW offered \in SUBSET Row,
           NEW landed \in SUBSET offered, NEW how \in Saves, Partly(s, offered, landed, how)
    PROVE  IInv'
<1> DEFINE m == Committed(s, offered)
           keep == Keep(s, offered)
<1>1. landed \in SUBSET Row /\ (keep \ landed) \in SUBSET Row
  BY DEF Keep
<1>2. MaybeSave(m, dirty \/ m # seen, how)
  BY DEF Partly
<1>3. /\ \A k \in Key : seen'[k] = None \/ seen'[k] = m[k]
      /\ \A k \in Key : file'[k] = None \/ file'[k] = file[k] \/ file'[k] = m[k]
  <2>1. (dirty \/ m # seen) \in BOOLEAN
    OBVIOUS
  <2> QED  BY <1>2, <2>1, SavedIsCommitted
<1>4. \A t \in Sink, j \in Row :
         /\ <<t, j>> \in Of(s, landed) <=> t = s /\ j \in landed
         /\ <<t, j>> \in Of(s, keep \ landed) <=> t = s /\ j \in keep \ landed
  BY <1>1, OfPairs
<1>5. /\ up /\ up' = up /\ salts' = salts /\ store' = Put(s, landed)
      /\ rejected' = (rejected \ Of(s, landed)) \cup Of(s, keep \ landed)
      /\ uncertain' = uncertain \ Of(s, landed)
  BY DEF Partly
<1>6. \A t \in Sink, j \in Row :
         /\ <<t, j>> \in rejected => <<t, j>> \in rejected' \/ (t = s /\ j \in landed)
         /\ <<t, j>> \in uncertain => <<t, j>> \in uncertain' \/ (t = s /\ j \in landed)
  BY <1>4, <1>5
<1>7. \A j \in offered : j \in landed \/ j \notin Keep(s, offered) \/ <<s, j>> \in rejected'
  BY <1>4, <1>5
<1>8. \A j \in landed : j \in offered \/ <<s, j>> \in uncertain'
  OBVIOUS
<1> QED  BY <1>1, <1>3, <1>5, <1>6, <1>7, <1>8, WriteKeeps

\* Nothing is remembered, and what landed is uncertain.
LEMMA RefusedKeeps ==
    ASSUME IInv, TypeOK', NEW s \in Sink, NEW offered \in SUBSET Row,
           NEW landed \in SUBSET offered, Refused(s, offered, landed)
    PROVE  IInv'
<1>1. landed \in SUBSET Row /\ {} \in SUBSET Row
  OBVIOUS
<1>2. \A k \in Key : Committed(s, {})[k] = seen[k]
  BY CommittedType DEF IInv
<1>3. /\ up /\ up' = up /\ salts' = salts /\ store' = Put(s, landed)
      /\ seen' = seen /\ file' = file /\ rejected' = rejected
      /\ uncertain' = uncertain \cup Of(s, landed)
  BY DEF Refused
<1>4. \A j \in landed : <<s, j>> \in uncertain'
  BY <1>1, <1>3, OfPairs
<1> QED  BY <1>1, <1>2, <1>3, <1>4, WriteKeeps

\* The table is empty, and no entry says otherwise.
LEMMA SetAsideKeeps ==
    ASSUME IInv, TypeOK', NEW s \in Sink, SetAside(s)
    PROVE  IInv'
<1>1. /\ up /\ up' = up /\ seen' = seen /\ file' = file
      /\ salts' = [salts EXCEPT ![s] = @ + 1]
      /\ store' = [store EXCEPT ![s] = [i \in Row |-> None]]
      /\ rejected' = rejected \ Of(s, Row) /\ uncertain' = uncertain \ Of(s, Row)
  BY DEF SetAside
<1>2. /\ \A k \in Key : k[1] \in Sink /\ k[3] \in Nat
      /\ \A t \in Sink : salts[t] \in Nat /\ salts'[t] \in Salt
      /\ \A t \in Sink : salts'[t] = IF t = s THEN salts[s] + 1 ELSE salts[t]
  BY <1>1, LedgerAssumption DEF IInv, TypeOK, Key, Salt
<1>3. FutureUnknown'
  BY <1>1, <1>2 DEF IInv, FutureUnknown
<1>4. \A i \in Row : LET k == <<s, i, salts'[s]>>
                     IN  seen[k] = None /\ file[k] = None
  <2> SUFFICES ASSUME NEW i \in Row
               PROVE  LET k == <<s, i, salts'[s]>>
                      IN  seen[k] = None /\ file[k] = None
    OBVIOUS
  <2>1. <<s, i, salts'[s]>> \in Key
    BY <1>2 DEF Key
  <2> QED  BY <2>1, <1>2 DEF IInv, FutureUnknown
<1>5. \A t \in Sink, j \in Row : t # s =>
         /\ <<t, j, salts'[t]>> = <<t, j, salts[t]>> /\ store'[t][j] = store[t][j]
         /\ <<t, j>> \in rejected => <<t, j>> \in rejected'
         /\ <<t, j>> \in uncertain => <<t, j>> \in uncertain'
  BY <1>1, <1>2, OfPairs DEF IInv, TypeOK
<1>6. HeldBackIsThere'
  BY <1>1, <1>4, <1>5 DEF IInv, HeldBackIsThere, Identity
<1>7. RememberedIsHeld'
  <2> SUFFICES ASSUME NEW t \in Sink, NEW j \in Row, seen[<<t, j, salts'[t]>>] # None
               PROVE  \/ seen[<<t, j, salts'[t]>>].value = store'[t][j]
                      \/ <<t, j>> \in rejected' \cup uncertain'
    BY <1>1 DEF RememberedIsHeld, Identity
  <2>1. t # s
    BY <1>4
  <2> QED  BY <2>1, <1>5 DEF IInv, RememberedIsHeld, Identity
<1> QED  BY <1>1, <1>3, <1>6, <1>7 DEF IInv, DownIsKnown

\* The file left behind is a map that was in memory or the one that was there,
\* and the rows it is wrong about are uncertain from here on.
LEMMA EndKeeps ==
    ASSUME IInv, TypeOK', ~up', seen' = Nothing,
           store' = store, salts' = salts, rejected' = rejected,
           uncertain' = uncertain \cup Outdated(file'),
           \A k \in Key : file'[k] = None \/ file'[k] = file[k] \/ file'[k] = seen[k]
    PROVE  IInv'
<1>1. \A t \in Sink, j \in Row : Identity(t, j) \in Key /\ Identity(t, j)' = Identity(t, j)
  BY IdentityKey DEF IInv, TypeOK, Identity
<1>2. \A k \in Key : seen'[k] = None
  BY DEF Nothing
<1>3. HeldBackIsThere'
  BY <1>1, <1>2 DEF IInv, HeldBackIsThere
<1>4. RememberedIsHeld'
  BY <1>1, <1>2 DEF RememberedIsHeld
<1>5. FutureUnknown'
  BY <1>2 DEF IInv, FutureUnknown
<1>6. DownIsKnown'
  <2> SUFFICES ASSUME NEW t \in Sink, NEW j \in Row, file'[Identity(t, j)] # None,
                      file'[Identity(t, j)].value # store[t][j]
               PROVE  <<t, j>> \in uncertain'
    BY <1>1 DEF DownIsKnown
  <2> QED  BY DEF Outdated
<1> QED  BY <1>3, <1>4, <1>5, <1>6 DEF IInv

\* The invariant survives every step.
LEMMA IInvKept == IInv /\ [Next]_vars => IInv'
<1> SUFFICES ASSUME IInv, [Next]_vars PROVE IInv'
  OBVIOUS
<1>1. TypeOK /\ TypeOK'
  BY TypeKept DEF IInv
<1>2. ASSUME NEW s \in Sink, Write(s) PROVE IInv'
  BY <1>1, <1>2, AcceptedKeeps, PartlyKeeps, RefusedKeeps DEF Write, Offers
<1>3. ASSUME NEW s \in Sink, SetAside(s) PROVE IInv'
  BY <1>1, <1>3, SetAsideKeeps
<1>4. ASSUME NEW saved \in BOOLEAN, Stop(saved) PROVE IInv'
  <2>1. \A k \in Key : file'[k] = None \/ file'[k] = file[k] \/ file'[k] = seen[k]
    BY <1>1, <1>4, PrunedDrops DEF Stop, TypeOK
  <2> QED  BY <1>1, <1>4, <2>1, EndKeeps DEF Stop
<1>5. ASSUME Crash PROVE IInv'
  BY <1>1, <1>5, EndKeeps DEF Crash
<1>6. ASSUME NEW readable \in BOOLEAN, StartUp(readable) PROVE IInv'
  <2>1. /\ ~up /\ up' /\ file' = file /\ store' = store /\ salts' = salts
        /\ rejected' = rejected /\ uncertain' = uncertain
        /\ \A k \in Key : seen'[k] = None \/ seen'[k] = file[k]
    BY <1>6 DEF StartUp, Nothing
  <2>2. \A t \in Sink, j \in Row : Identity(t, j) \in Key /\ Identity(t, j)' = Identity(t, j)
    BY <2>1, <1>1, IdentityKey DEF TypeOK, Identity
  <2>3. HeldBackIsThere'
    BY <2>1, <2>2 DEF IInv, HeldBackIsThere
  <2>4. RememberedIsHeld'
    BY <2>1, <2>2 DEF IInv, DownIsKnown, RememberedIsHeld
  <2>5. FutureUnknown'
    BY <2>1 DEF IInv, FutureUnknown
  <2> QED  BY <1>1, <2>1, <2>3, <2>4, <2>5 DEF IInv, DownIsKnown
<1>7. ASSUME UNCHANGED <<store, seen, file, salts, up, rejected, uncertain>> PROVE IInv'
  BY <1>1, <1>7 DEF IInv, HeldBackIsThere, RememberedIsHeld, FutureUnknown, DownIsKnown, Identity
<1>8. ASSUME NEW i \in Row, NEW v \in Value, Move(i, v) PROVE IInv'
  BY <1>7, <1>8 DEF Move
<1>9. ASSUME NextDay PROVE IInv'
  BY <1>7, <1>9 DEF NextDay
<1>10. CASE UNCHANGED vars
  BY <1>7, <1>10 DEF vars
<1> QED  BY <1>2, <1>3, <1>4, <1>5, <1>6, <1>8, <1>9, <1>10 DEF Next, Process

\* Hence in every state a run of it reaches.
LEMMA IInvHolds == Spec => []IInv
<1>1. Init => IInv
  BY TypeInitially, NothingType, LedgerAssumption
     DEF Init, IInv, HeldBackIsThere, RememberedIsHeld, FutureUnknown, DownIsKnown,
         Nothing, Identity, Key, Salt
<1> QED  BY <1>1, IInvKept, PTL DEF Spec

\* Whatever was refused, crashed, lost or set aside, in whatever order: a row
\* some ledger holds back is in the store, or the store refused it.
THEOREM HeldBackRowsAreThere == Spec => []HeldBackIsThere
BY IInvHolds, PTL DEF IInv

\* The value the ledger holds a row back for is the store's own, but for the
\* rows it refused and those nobody can be certain of.
THEOREM RememberedValuesAreHeld == Spec => []RememberedIsHeld
BY IInvHolds, PTL DEF IInv

-----------------------------------------------------------------------------
(* What was offered today is kept.                                         *)

\* A set of days has a last one: the days after it are the fewest.
LEMMA LastOfDays ==
    ASSUME NEW n \in Nat, NEW days \in SUBSET (0..n), days # {}
    PROVE  \E d \in days : \A e \in days : e <= d
<1> DEFINE After(d) == {e \in 0..n : e > d}
           T == {After(d) : d \in days}
<1>1. IsFiniteSet(0..n)
  BY FS_Interval
<1>2. IsWellFoundedOn(StrictSubsetOrdering(0..n), FiniteSubsetsOf(0..n))
  BY FS_StrictSubsetOrderingWellFounded
<1>3. T \subseteq FiniteSubsetsOf(0..n) /\ T # {}
  <2>1. FiniteSubsetsOf(0..n) = SUBSET (0..n)
    BY <1>1, FS_FiniteSubsetsOfFinite
  <2>2. \A d \in days : After(d) \in SUBSET (0..n)
    OBVIOUS
  <2>3. T # {}
    OBVIOUS
  <2> HIDE DEF After
  <2>4. \A x \in T : x \in SUBSET (0..n)
    BY <2>2
  <2> QED  BY <2>1, <2>3, <2>4
<1> HIDE DEF T
<1>4. \E x \in T : \A y \in T : <<y, x>> \notin StrictSubsetOrdering(0..n)
  BY <1>2, <1>3, WFMin
<1>5. PICK d \in days : \A e \in days : <<After(e), After(d)>> \notin StrictSubsetOrdering(0..n)
  BY <1>4 DEF T
<1>6. ASSUME NEW e \in days, e > d PROVE FALSE
  <2>1. e \in After(d) /\ e \notin After(e)
    BY <1>6
  <2>2. After(e) \subseteq After(d) /\ After(e) # After(d)
    BY <1>6, <2>1
  <2> QED  BY <1>5, <2>2 DEF StrictSubsetOrdering
<1> QED  BY <1>6

LEMMA KeysFinite == IsFiniteSet(Key)
<1> DEFINE pairs == Sink \X Row
           f == [x \in pairs \X Salt |-> <<x[1][1], x[1][2], x[2]>>]
<1>1. IsFiniteSet(Salt)
  BY FS_Interval, LedgerAssumption DEF Salt
<1>2. IsFiniteSet(pairs)
  BY FS_Product, LedgerAssumption
<1>3. IsFiniteSet(pairs \X Salt)
  <2> HIDE DEF pairs
  <2> QED  BY <1>1, <1>2, FS_Product
<1>4. f \in Surjection(pairs \X Salt, Key)
  <2>1. f \in [pairs \X Salt -> Key]
    BY DEF Key
  <2>2. ASSUME NEW k \in Key PROVE \E x \in pairs \X Salt : f[x] = k
    <3>1. <<<<k[1], k[2]>>, k[3]>> \in pairs \X Salt
      BY DEF Key
    <3>2. f[<<<<k[1], k[2]>>, k[3]>>] = k
      BY <3>1 DEF Key
    <3> QED  BY <3>1, <3>2
  <2> QED  BY <2>1, <2>2 DEF Surjection
<1> QED  BY <1>3, <1>4, FS_Surjection

\* No entry is of a day to come.
DaysPast(m) == \A k \in Key : m[k] # None => m[k].day <= today

\* Where there are more entries than the size, the cut is a day already begun.
LEMMA CutIsPast ==
    ASSUME NEW m \in Seen, today \in 0..LastDay, DaysPast(m),
           Cardinality(Remembered(m)) > MaxEntries
    PROVE  Cut(m) \in 0..LastDay /\ Cut(m) <= today
<1> DEFINE days == {d \in 0..LastDay : Cardinality(Since(m, d)) >= MaxEntries}
<1>1. \A d \in 0..LastDay : Cardinality(Since(m, d)) \in Nat
  <2> SUFFICES ASSUME NEW d \in 0..LastDay PROVE Cardinality(Since(m, d)) \in Nat
    OBVIOUS
  <2>1. Since(m, d) \in SUBSET Key
    BY DEF Since, Remembered
  <2> QED  BY <2>1, KeysFinite, FS_Subset, FS_CardinalityType
<1>2. LastDay \in Nat /\ MaxEntries \in Nat \ {0} /\ 0 \in 0..LastDay
  BY LedgerAssumption
<1>3. 0 \in days
  <2>1. Since(m, 0) = Remembered(m)
    BY DEF Since, Remembered, Seen, Entry
  <2> QED  BY <1>1, <1>2, <2>1
<1>4. PICK d \in days : \A e \in days : e <= d
  BY <1>2, <1>3, LastOfDays
<1>5. \A e \in (d + 1)..LastDay : Cardinality(Since(m, e)) < MaxEntries
  <2> SUFFICES ASSUME NEW e \in (d + 1)..LastDay PROVE Cardinality(Since(m, e)) < MaxEntries
    OBVIOUS
  <2>1. e \in 0..LastDay /\ e \notin days
    BY <1>2, <1>4
  <2> QED  BY <1>1, <1>2, <2>1
<1>6. /\ Cut(m) \in 0..LastDay
      /\ Cardinality(Since(m, Cut(m))) >= MaxEntries
  BY <1>4, <1>5 DEF Cut
<1>7. ASSUME Cut(m) > today PROVE FALSE
  <2>1. Since(m, Cut(m)) = {}
    <3> SUFFICES ASSUME NEW k \in Since(m, Cut(m)) PROVE FALSE
      OBVIOUS
    <3>1. k \in Key /\ m[k] # None /\ m[k].day >= Cut(m) /\ m[k].day <= today
      BY DEF Since, Remembered, DaysPast
    <3>2. m[k].day \in 0..LastDay
      BY <3>1 DEF Seen, Entry
    <3> QED  BY <1>2, <1>6, <1>7, <3>1, <3>2
  <2> QED  BY <1>2, <1>6, <2>1, FS_EmptySet
<1> QED  BY <1>2, <1>6, <1>7

\* Hence a save keeps what was offered today, whatever it drops.
LEMMA PrunedKeepsToday ==
    ASSUME NEW m \in Seen, today \in 0..LastDay, DaysPast(m),
           NEW k \in Key, m[k] # None, m[k].day = today
    PROVE  Pruned(m)[k] # None
<1> DEFINE first == IF today > Horizon THEN today - Horizon ELSE 0
           young == Dropping(m, first)
<1>1. today \in Nat /\ first \in Nat /\ first <= today
  BY LedgerAssumption
<1>2. young \in Seen /\ young[k] = m[k]
      /\ \A x \in Key : young[x] = None \/ young[x] = m[x]
  <2> HIDE DEF first
  <2> QED  BY <1>1, DroppingDrops DEF Dropping
<1>3. DaysPast(young)
  <2> HIDE DEF young
  <2> QED  BY <1>2 DEF DaysPast
<1>4. Pruned(m) = IF Cardinality(Remembered(young)) > MaxEntries
                  THEN Dropping(young, Cut(young)) ELSE young
  BY DEF Pruned
<1> HIDE DEF young
<1>5. CASE Cardinality(Remembered(young)) > MaxEntries
  <2>1. Cut(young) \in 0..LastDay /\ Cut(young) <= today
    BY <1>2, <1>3, <1>5, CutIsPast
  <2>2. ~(today < Cut(young))
    BY <1>1, <2>1
  <2> QED  BY <1>2, <1>4, <1>5, <2>2 DEF Dropping
<1>6. CASE ~(Cardinality(Remembered(young)) > MaxEntries)
  BY <1>2, <1>4, <1>6
<1> QED  BY <1>5, <1>6

\* Memory and file know of no day to come.
DaysInv == TypeOK /\ DaysPast(seen) /\ DaysPast(file)

\* Maps that hold nothing new, or what was offered today, stay within it.
LEMMA DaysStayPast ==
    ASSUME DaysInv, TypeOK', today' >= today,
           NEW m \in Seen, DaysPast(m),
           \A k \in Key : seen'[k] = None \/ seen'[k] = file[k] \/ seen'[k] = m[k],
           \A k \in Key : file'[k] = None \/ file'[k] = file[k] \/ file'[k] = m[k]
    PROVE  DaysInv'
<1>1. \A k \in Key : /\ m[k] # None => m[k].day \in 0..LastDay
                     /\ file[k] # None => file[k].day \in 0..LastDay
  BY DEF Seen, Entry, DaysInv, TypeOK
<1>2. LastDay \in Nat /\ today \in 0..LastDay /\ today' \in 0..LastDay
  BY LedgerAssumption DEF DaysInv, TypeOK
<1>3. ASSUME NEW k \in Key, seen'[k] # None PROVE seen'[k].day <= today'
  <2>1. seen'[k].day \in 0..LastDay /\ seen'[k].day <= today
    BY <1>1, <1>3 DEF DaysInv, DaysPast
  <2> QED  BY <1>2, <2>1
<1>4. ASSUME NEW k \in Key, file'[k] # None PROVE file'[k].day <= today'
  <2>1. file'[k].day \in 0..LastDay /\ file'[k].day <= today
    BY <1>1, <1>4 DEF DaysInv, DaysPast
  <2> QED  BY <1>2, <2>1
<1> QED  BY <1>3, <1>4 DEF DaysInv, DaysPast

\* A commit dates the offered rows today and leaves the others.
LEMMA CommittedToday ==
    ASSUME DaysInv, NEW s \in Sink, NEW offered \in SUBSET Row
    PROVE  /\ Committed(s, offered) \in Seen /\ DaysPast(Committed(s, offered))
           /\ \A k \in Key : seen[k] # None /\ seen[k].day = today
                => /\ Committed(s, offered)[k] # None
                   /\ Committed(s, offered)[k].day = today
<1> DEFINE m == Committed(s, offered)
<1>1. /\ m \in Seen
      /\ \A k \in Key : m[k] = seen[k] \/ \E i \in offered : k = Identity(s, i)
      /\ \A i \in offered : m[Identity(s, i)] = [value |-> source[i], day |-> today]
  BY CommittedType DEF DaysInv
<1>2. today \in Nat /\ \A i \in Row : [value |-> source[i], day |-> today] # None
  <2>1. \A i \in Row : [value |-> source[i], day |-> today] \in Entry
    BY DEF DaysInv, TypeOK, Entry
  <2> QED  BY <2>1, LedgerAssumption DEF DaysInv, TypeOK
<1> HIDE DEF m
<1>3. ASSUME NEW k \in Key, m[k] # None PROVE m[k].day <= today
  <2>1. CASE m[k] = seen[k]
    BY <1>3, <2>1 DEF DaysInv, DaysPast
  <2>2. CASE m[k] # seen[k]
    <3>1. PICK i \in offered : m[k] = [value |-> source[i], day |-> today]
      BY <1>1, <2>2
    <3>2. m[k].day = today /\ m[k] # None
      BY <1>2, <3>1
    <3> QED  BY <1>2, <3>2
  <2> QED  BY <2>1, <2>2
<1>4. ASSUME NEW k \in Key, seen[k] # None, seen[k].day = today
      PROVE  m[k] # None /\ m[k].day = today
  <2>1. CASE m[k] = seen[k]
    BY <1>4, <2>1
  <2>2. CASE m[k] # seen[k]
    <3>1. PICK i \in offered : m[k] = [value |-> source[i], day |-> today]
      BY <1>1, <2>2
    <3>2. m[k].day = today /\ m[k] # None
      BY <1>2, <3>1
    <3> QED  BY <1>2, <3>2
  <2> QED  BY <2>1, <2>2
<1>5. m \in Seen /\ DaysPast(m)
  BY <1>1, <1>3 DEF DaysPast
<1> QED  BY <1>4, <1>5 DEF m

\* A write that ends in a save, or in none, keeps today's entries and dates
\* none ahead.
LEMMA SavingWrite ==
    ASSUME DaysInv, TypeOK', NEW s \in Sink, NEW offered \in SUBSET Row,
           NEW changed \in BOOLEAN, NEW how \in Saves, today' = today,
           MaybeSave(Committed(s, offered), changed, how)
    PROVE  /\ DaysInv'
           /\ \A k \in Key : seen[k] # None /\ seen[k].day = today => seen'[k] # None
<1> DEFINE m == Committed(s, offered)
<1>1. /\ m \in Seen /\ DaysPast(m)
      /\ \A k \in Key : seen[k] # None /\ seen[k].day = today
                          => m[k] # None /\ m[k].day = today
  BY CommittedToday
<1>2. MaybeSave(m, changed, how)
  OBVIOUS
<1> HIDE DEF m
<1>3. file \in Seen /\ today \in 0..LastDay /\ today' >= today
  BY LedgerAssumption DEF DaysInv, TypeOK
<1>4. /\ \A k \in Key : seen'[k] = None \/ seen'[k] = m[k]
      /\ \A k \in Key : file'[k] = None \/ file'[k] = m[k] \/ file'[k] = file[k]
  BY <1>1, <1>2, <1>3, SaveDrops
<1>5. DaysInv'
  BY <1>1, <1>3, <1>4, DaysStayPast
<1>6. seen' = m \/ seen' = Pruned(m)
  BY <1>2 DEF MaybeSave
<1>7. \A k \in Key : seen[k] # None /\ seen[k].day = today => seen'[k] # None
  BY <1>1, <1>3, <1>6, PrunedKeepsToday
<1> QED  BY <1>5, <1>7

LEMMA DaysStep ==
    ASSUME DaysInv, [Next]_vars
    PROVE  /\ DaysInv'
           /\ up /\ up' => \A k \in Key : seen[k] # None /\ seen[k].day = today
                                            => seen'[k] # None
<1>1. TypeOK /\ TypeOK' /\ seen \in Seen /\ file \in Seen /\ today \in Nat /\ today >= today
  BY TypeKept, LedgerAssumption DEF DaysInv, TypeOK
<1>2. ASSUME NEW s \in Sink, NEW offered \in SUBSET Row, NEW how \in Saves,
             Accepted(s, offered, how) \/ \E landed \in SUBSET offered : Partly(s, offered, landed, how)
      PROVE  /\ DaysInv'
             /\ \A k \in Key : seen[k] # None /\ seen[k].day = today => seen'[k] # None
  <2>1. MaybeSave(Committed(s, offered), dirty \/ Committed(s, offered) # seen, how)
        /\ today' = today
    BY <1>2 DEF Accepted, Partly
  <2>2. (dirty \/ Committed(s, offered) # seen) \in BOOLEAN
    OBVIOUS
  <2> QED  BY <1>1, <2>1, <2>2, SavingWrite
<1>3. ASSUME UNCHANGED <<seen, file>>, today' >= today
      PROVE  /\ DaysInv'
             /\ \A k \in Key : seen[k] # None /\ seen[k].day = today => seen'[k] # None
  <2>1. DaysInv'
    BY <1>1, <1>3, DaysStayPast DEF DaysInv
  <2> QED  BY <1>3, <2>1
<1>4. ASSUME NEW s \in Sink, Write(s)
      PROVE  /\ DaysInv'
             /\ \A k \in Key : seen[k] # None /\ seen[k].day = today => seen'[k] # None
  <2>1. PICK offered \in SUBSET Row :
          \/ \E how \in Saves : Accepted(s, offered, how)
          \/ \E landed \in SUBSET offered, how \in Saves : Partly(s, offered, landed, how)
          \/ \E landed \in SUBSET offered : Refused(s, offered, landed)
    BY <1>4 DEF Write, Offers
  <2>2. CASE \E landed \in SUBSET offered : Refused(s, offered, landed)
    BY <1>1, <1>3, <2>2 DEF Refused
  <2> QED  BY <1>2, <2>1, <2>2
<1>5. ASSUME NEW s \in Sink, SetAside(s)
      PROVE  /\ DaysInv'
             /\ \A k \in Key : seen[k] # None /\ seen[k].day = today => seen'[k] # None
  BY <1>1, <1>3, <1>5 DEF SetAside
<1>6. ASSUME Crash \/ \E saved \in BOOLEAN : Stop(saved) PROVE DaysInv' /\ ~up'
  <2>1. /\ ~up' /\ seen' = Nothing /\ today' = today
        /\ file' = file \/ file' = Pruned(seen)
    BY <1>6 DEF Crash, Stop
  <2>2. /\ \A k \in Key : seen'[k] = None
        /\ \A k \in Key : file'[k] = None \/ file'[k] = file[k] \/ file'[k] = seen[k]
    BY <1>1, <2>1, PrunedDrops DEF Nothing
  <2>3. DaysInv'
    BY <1>1, <2>1, <2>2, DaysStayPast DEF DaysInv
  <2> QED  BY <2>1, <2>3
<1>7. ASSUME NEW readable \in BOOLEAN, StartUp(readable) PROVE DaysInv' /\ ~up
  <2>1. /\ ~up /\ file' = file /\ today' = today
        /\ \A k \in Key : seen'[k] = None \/ seen'[k] = file[k]
    BY <1>7 DEF StartUp, Nothing
  <2>2. DaysInv'
    BY <1>1, <2>1, DaysStayPast DEF DaysInv
  <2> QED  BY <2>1, <2>2
<1>8. ASSUME (\E i \in Row, v \in Value : Move(i, v)) \/ NextDay \/ UNCHANGED vars
      PROVE  /\ DaysInv'
             /\ \A k \in Key : seen[k] # None /\ seen[k].day = today => seen'[k] # None
  <2>1. UNCHANGED <<seen, file>> /\ (today' = today \/ today' = today + 1)
    BY <1>8 DEF Move, NextDay, vars
  <2> QED  BY <1>1, <1>3, <2>1
<1> QED  BY <1>4, <1>5, <1>6, <1>7, <1>8 DEF Next, Process

\* A row offered today is remembered to the end of the day, however full the
\* ledger is and however often it is saved.
THEOREM OfferedTodayIsKept == Spec => OfferedIsKept
<1>1. Init => DaysInv
  BY TypeInitially DEF Init, DaysInv, DaysPast, Nothing
<1>2. DaysInv /\ [Next]_vars => DaysInv'
  BY DaysStep
<1>3. Spec => []DaysInv
  BY <1>1, <1>2, PTL DEF Spec
<1>4. DaysInv /\ [Next]_vars =>
        (up /\ up' => \A k \in Key : seen[k] # None /\ seen[k].day = today => seen'[k] # None)
  BY DaysStep
<1> QED  BY <1>3, <1>4, PTL DEF Spec, OfferedIsKept

=============================================================================
