---------------------------- MODULE SetAsideProofs ----------------------------
(***************************************************************************)
(* What SetAside promises, for any rows and however often a table is       *)
(* cleared: at each request of Clear the rows there were before it are     *)
(* under the table's name, or in the copy under this clear's stamp, or in  *)
(* both.                                                                   *)
(***************************************************************************)
EXTENDS SetAside, FiniteSetTheorems, TLAPS

Requests == {"", "rename", "look", "block", "clone", "compare", "delete", "count",
             "purge", "unblock", "listDone", "listFailed"}

TypeOK ==
    /\ server \in Servers /\ live \in Tables /\ before \in Tables
    /\ copies \in [Stamps -> Tables]
    /\ blocked \in BOOLEAN /\ stuck \in BOOLEAN
    /\ doing \in Requests
    /\ stamp \in 0 .. MaxClears /\ tried \in Nat
    /\ answer \in [what : {"", "untouched", "absent", "cleared", "unknown"},
                   kept : 0 .. MaxClears]
    /\ written \subseteq Rows

\* Nothing was done yet; all that was there is in the copy.
Whole == live = before /\ before # Absent /\ copies[stamp] = Absent
Moved == live = Absent /\ before # Absent /\ copies[stamp] = before

\* Where a clear is, in each store.
Course ==
    /\ doing # "" => stamp \in Stamps
    /\ doing \in {"rename", "look"} => server = "postgres"
    /\ doing \in {"block", "clone", "compare", "count", "purge", "unblock"} =>
           server = "elasticsearch"
    /\ doing \in {"listDone", "listFailed"} => server = "influx3"
    /\ doing = "delete" => server \in {"elasticsearch", "influx3", "influx2"}
    /\ doing \notin {"", "unblock"} => answer = Pending
    /\ doing \in {"rename", "block", "clone"} => Whole
    /\ doing \in {"look", "listFailed"} => Whole \/ Moved
    /\ doing = "listDone" => Moved
    /\ doing = "compare" =>
           live = before /\ before # Absent /\ copies[stamp] # Absent /\ copies[stamp] \subseteq live
    /\ doing = "delete" =>
           /\ live = before
           /\ server = "elasticsearch" => before # Absent /\ copies[stamp] = before
           /\ server = "influx3" => Whole
    /\ doing = "count" =>
           /\ before # Absent /\ copies[stamp] = before
           /\ live = before \/ (live = Absent /\ ~blocked)
    /\ doing = "purge" => live = before /\ before # Absent /\ copies[stamp] = before
    /\ doing = "unblock" =>
           answer.what = "unknown" \/ (answer.what = "untouched" /\ live = before)

\* Copies are made under new stamps, and a block that is left is known.
Fresh == \A s \in Stamps : s > stamp => copies[s] = Absent
KnownStuck == (blocked => server = "elasticsearch") /\ (doing = "" /\ blocked => stuck)

IInv == TypeOK /\ Course /\ Fresh /\ KnownStuck /\ RowsKept /\ AnswerIsTrue

LEMMA Absence == Absent \notin SUBSET Rows /\ Tables = (SUBSET Rows) \cup {Absent}
BY SetAsideAssumption DEF SetAsideAssumption, Tables

LEMMA Bounds == MaxClears \in Nat /\ LockTries \in Nat \ {0}
BY SetAsideAssumption DEF SetAsideAssumption

\* A part of the rows as large as the table is the table.
LEMMA PartIsWhole ==
    ASSUME NEW table \in SUBSET Rows, NEW part \in SUBSET table,
           Cardinality(part) = Cardinality(table)
    PROVE  part = table
<1>1. IsFiniteSet(table)
  BY SetAsideAssumption, FS_Subset DEF SetAsideAssumption
<1> QED BY <1>1, FS_Subset

\* Row by row.
Somewhere(r) == r \in RowsOf(live) \/ \E s \in Stamps : r \in RowsOf(copies[s])

LEMMA RowByRow == RowsKept <=> \A r \in written : Somewhere(r)
BY DEF RowsKept, Somewhere

LEMMA InitIInv == AsideInit => IInv
<1> SUFFICES ASSUME AsideInit PROVE IInv
  OBVIOUS
<1>1. TypeOK
  <2>1. live \in Tables /\ before = live /\ Absent \in Tables
    BY DEF AsideInit, Tables
  <2>2. written \subseteq Rows
    BY <2>1, Absence DEF AsideInit, RowsOf, Tables
  <2>3. answer \in [what : {"", "untouched", "absent", "cleared", "unknown"}, kept : 0 .. MaxClears]
    <3>1. answer = [what |-> "", kept |-> 0]
      BY DEF AsideInit, Pending, Answer
    <3>2. 0 \in 0 .. MaxClears
      BY Bounds
    <3> QED BY <3>1, <3>2
  <2>4. copies \in [Stamps -> Tables]
    BY <2>1 DEF AsideInit
  <2>5. stamp \in 0 .. MaxClears /\ tried \in Nat
    <3>1. stamp = 0 /\ tried = 0
      BY DEF AsideInit
    <3> QED BY <3>1, Bounds
  <2>6. server \in Servers /\ doing \in Requests /\ blocked \in BOOLEAN /\ stuck \in BOOLEAN
    BY DEF AsideInit, Requests
  <2> QED BY <2>1, <2>2, <2>3, <2>4, <2>5, <2>6 DEF TypeOK
<1>2. Course /\ Fresh /\ KnownStuck
  BY DEF AsideInit, Course, Fresh, KnownStuck
<1>3. RowsKept
  BY DEF AsideInit, RowsKept
<1>4. AnswerIsTrue
  BY DEF AsideInit, AnswerIsTrue
<1> QED BY <1>1, <1>2, <1>3, <1>4 DEF IInv

\* What a request that is under way knows of the store.
LEMMA UnderWay ==
    ASSUME IInv, doing \notin {"", "unblock"}
    PROVE  stamp \in Stamps /\ answer = Pending /\ TypeOK /\ Fresh
BY DEF IInv, Course

\* A step that changes no table keeps the rows; so does one whose only table
\* to go or to change has its rows in another.
LEMMA StillKeepsRows == RowsKept /\ UNCHANGED <<live, copies, written>> => RowsKept'
BY DEF RowsKept, RowsOf

LEMMA CopyKeepsRows ==
    ASSUME TypeOK, RowsKept, stamp \in Stamps, NEW table \in Tables,
           copies' = [copies EXCEPT ![stamp] = table], written' = written,
           \A r \in RowsOf(live) \cup RowsOf(copies[stamp]) : r \in RowsOf(live') \/ r \in RowsOf(table)
    PROVE  RowsKept'
<1>1. copies'[stamp] = table /\ \A s \in Stamps : s # stamp => copies'[s] = copies[s]
  BY DEF TypeOK
<1>2. ASSUME NEW r \in written, Somewhere(r) PROVE Somewhere(r)'
  <2>1. CASE r \in RowsOf(live) \cup RowsOf(copies[stamp])
    <3>1. r \in RowsOf(live') \/ r \in RowsOf(copies'[stamp])
      BY <1>1, <2>1
    <3> QED BY <3>1 DEF Somewhere, RowsOf, Stamps
  <2>2. CASE r \notin RowsOf(live) \cup RowsOf(copies[stamp])
    <3>1. PICK s \in Stamps : r \in RowsOf(copies[s])
      BY <1>2, <2>2 DEF Somewhere
    <3>2. copies'[s] = copies[s]
      BY <1>1, <2>2, <3>1
    <3> QED BY <3>1, <3>2 DEF Somewhere, RowsOf, Stamps
  <2> QED BY <2>1, <2>2
<1>3. \A r \in written : Somewhere(r)
  BY RowByRow
<1>4. \A r \in written' : Somewhere(r)'
  BY <1>2, <1>3
<1>5. RowsKept' <=> \A r \in written' : Somewhere(r)'
  BY DEF RowsKept, Somewhere
<1> QED BY <1>4, <1>5

-----------------------------------------------------------------------------
(* Types.                                                                  *)

Answers == [what : {"", "untouched", "absent", "cleared", "unknown"}, kept : 0 .. MaxClears]

LEMMA AnswerTypes ==
    ASSUME NEW n \in 0 .. MaxClears
    PROVE  /\ Pending \in Answers /\ Untouched \in Answers /\ Answer("absent", 0) \in Answers
           /\ Cleared(n) \in Answers /\ Unknown(n) \in Answers /\ Answer("untouched", n) \in Answers
           /\ Pending.what = "" /\ Untouched.what = "untouched" /\ Untouched.kept = 0
           /\ Answer("absent", 0).what = "absent"
           /\ Answer("untouched", n).what = "untouched"
           /\ Cleared(n).what = "cleared" /\ Cleared(n).kept = n
           /\ Unknown(n).what = "unknown"
<1>1. 0 \in 0 .. MaxClears
  BY Bounds
<1> QED BY <1>1 DEF Answers, Answer, Pending, Untouched, Cleared, Unknown

LEMMA ZeroAndStamp == 0 \in 0 .. MaxClears /\ Stamps \subseteq 0 .. MaxClears /\ 0 \notin Stamps
BY Bounds DEF Stamps

LEMMA StepType == TypeOK /\ Course /\ AsideNext => TypeOK'
<1> SUFFICES ASSUME TypeOK, Course, AsideNext PROVE TypeOK'
  OBVIOUS
<1> DEFINE Same == UNCHANGED <<server, live, copies, before, written>>
           Flags == blocked' \in BOOLEAN /\ stuck' \in BOOLEAN
           Counts == stamp' \in 0 .. MaxClears /\ tried' \in Nat
           Says == answer' \in Answers
           Does == doing' \in Requests
<1>0. /\ server \in Servers /\ live \in Tables /\ before \in Tables
      /\ copies \in [Stamps -> Tables] /\ blocked \in BOOLEAN /\ stuck \in BOOLEAN
      /\ stamp \in 0 .. MaxClears /\ tried \in Nat /\ answer \in Answers /\ written \subseteq Rows
      /\ doing \in Requests
  BY DEF TypeOK, Answers
<1>a. (doing # "" => stamp \in Stamps) /\ 0 \in 0 .. MaxClears /\ Absent \in Tables
  BY ZeroAndStamp, Absence DEF Course
<1>b. ASSUME Flags, Counts, Says, Does, server' \in Servers, live' \in Tables, before' \in Tables,
             copies' \in [Stamps -> Tables], written' \subseteq Rows
      PROVE  TypeOK'
  BY <1>b DEF TypeOK, Answers
<1>c. ASSUME NEW n \in 0 .. MaxClears
      PROVE  {Pending, Untouched, Answer("absent", 0), Cleared(n), Unknown(n), Answer("untouched", n)}
               \subseteq Answers
  BY <1>c, AnswerTypes, ZenonT(60)
<1> HIDE DEF TypeOK
<1>1. CASE ClearTable
  <2>1. Counts
    <3>1. stamp \in 0 .. MaxClears /\ stamp < MaxClears /\ stamp' = stamp + 1 /\ tried' = 0
      BY <1>0, <1>1 DEF ClearTable
    <3> QED BY <3>1, Bounds
  <2>2. Flags
    BY <1>0, <1>1 DEF ClearTable
  <2>3. Says
    BY <1>0, <1>1, <1>a, <1>c DEF ClearTable, Returns
  <2>4. Does
    <3>1. doing' \in {"", "rename", "block", "delete"}
      BY <1>1 DEF ClearTable, Returns, Asks
    <3> QED BY <3>1 DEF Requests
  <2> QED BY <1>0, <1>1, <1>b, <2>1, <2>2, <2>3, <2>4 DEF ClearTable
<1>2. CASE Rename
  <2>1. stamp \in Stamps
    BY <1>2, <1>a DEF Rename
  <2>2. tried' \in Nat
    BY <1>0, <1>2 DEF Rename
  <2>3. Says /\ Does
    BY <1>0, <1>2, <1>c DEF Rename, Returns, Asks, Requests
  <2>4. live' \in Tables /\ copies' \in [Stamps -> Tables]
    BY <1>0, <1>2, <1>a, <2>1 DEF Rename, SetsAside
  <2> QED BY <1>0, <1>2, <1>b, <2>2, <2>3, <2>4 DEF Rename, Books
<1>3. CASE LookAgain
  <2>1. Says /\ Does
    BY <1>0, <1>3, <1>a, <1>c DEF LookAgain, Returns, Requests
  <2> QED BY <1>0, <1>3, <1>b, <2>1 DEF LookAgain, Still, Books
<1>4. CASE Block
  <2>1. Says /\ Does
    BY <1>0, <1>4, <1>c DEF Block, Asks, Unblocks, Requests
  <2>2. Flags
    BY <1>0, <1>4 DEF Block
  <2> QED BY <1>0, <1>4, <1>b, <2>1, <2>2 DEF Block, Books
<1>5. CASE CloneAside
  <2>0. stamp \in Stamps /\ live \in SUBSET Rows
    BY <1>0, <1>5, <1>a DEF CloneAside, Course, Whole, Tables
  <2>1. Says /\ Does
    BY <1>0, <1>5, <1>c DEF CloneAside, Asks, Unblocks, Requests
  <2>2. copies' \in [Stamps -> Tables]
    BY <1>0, <1>5, <2>0 DEF CloneAside, Tables
  <2> QED BY <1>0, <1>5, <1>b, <2>1, <2>2 DEF CloneAside, Books
<1>6. CASE Compare
  <2>1. Says /\ Does
    BY <1>0, <1>6, <1>c DEF Compare, Asks, Unblocks, Requests
  <2>2. copies' \in [Stamps -> Tables]
    BY <1>0, <1>6, <1>a DEF Compare
  <2> QED BY <1>0, <1>6, <1>b, <2>1, <2>2 DEF Compare, Books
<1>7. CASE DeleteIndex
  <2>1. Says /\ Does
    BY <1>0, <1>7, <1>a, <1>c DEF DeleteIndex, Asks, Returns, Requests
  <2>2. Flags
    BY <1>0, <1>7 DEF DeleteIndex
  <2>3. live' \in Tables
    BY <1>0, <1>7, <1>a DEF DeleteIndex
  <2> QED BY <1>0, <1>7, <1>b, <2>1, <2>2, <2>3 DEF DeleteIndex, Books
<1>8. CASE CountAgain
  <2>1. Says /\ Does
    BY <1>0, <1>8, <1>a, <1>c DEF CountAgain, Looks, Asks, Unblocks, Returns, Requests
  <2> QED BY <1>0, <1>8, <1>b, <2>1 DEF CountAgain, Still, Books
<1>9. CASE PurgeClone
  <2>1. Says /\ Does
    BY <1>0, <1>9, <1>c DEF PurgeClone, Unblocks, Requests
  <2>2. copies' \in [Stamps -> Tables]
    BY <1>0, <1>9, <1>a DEF PurgeClone
  <2> QED BY <1>0, <1>9, <1>b, <2>1, <2>2 DEF PurgeClone, Books
<1>10. CASE Unblock
  <2>1. Flags
    BY <1>0, <1>10 DEF Unblock
  <2>2. Does
    BY <1>10 DEF Unblock, Asks, Requests
  <2> QED BY <1>0, <1>10, <1>b, <2>1, <2>2 DEF Unblock, Books
<1>11. CASE DeleteTable
  <2>0. stamp \in Stamps
    BY <1>11, <1>a DEF DeleteTable
  <2>1. Says /\ Does
    BY <1>0, <1>11, <1>c DEF DeleteTable, Returns, Asks, Requests
  <2>2. live' \in Tables /\ copies' \in [Stamps -> Tables]
    BY <1>0, <1>11, <1>a, <2>0 DEF DeleteTable, SetsAside
  <2> QED BY <1>0, <1>11, <1>b, <2>1, <2>2 DEF DeleteTable, Books
<1>12. CASE ListAgain
  <2>1. Says /\ Does
    BY <1>0, <1>12, <1>a, <1>c DEF ListAgain, Returns, Requests
  <2> QED BY <1>0, <1>12, <1>b, <2>1 DEF ListAgain, Still, Books
<1>13. CASE DeleteRows
  <2>1. Says /\ Does
    BY <1>0, <1>13, <1>a, <1>c DEF DeleteRows, Returns, Requests
  <2>2. live' \in Tables /\ written' \subseteq Rows
    BY <1>0, <1>13, <1>a DEF DeleteRows
  <2> QED BY <1>0, <1>13, <1>b, <2>1, <2>2 DEF DeleteRows
<1>14. CASE GoOn
  <2>1. Says
    BY <1>14, <1>a, <1>c DEF GoOn, Taken
  <2> QED BY <1>0, <1>14, <1>b, <2>1 DEF GoOn, Still, Books
<1>15. CASE StopHalfWay
  <2>1. Says /\ Does
    BY <1>15, <1>a, <1>c DEF StopHalfWay, Requests
  <2>2. Flags
    BY <1>0, <1>15 DEF StopHalfWay, Still
  <2> QED BY <1>0, <1>15, <1>b, <2>1, <2>2 DEF StopHalfWay, Still, Books
<1>16. ASSUME NEW r \in Rows, WriteRow(r) PROVE TypeOK'
  <2>1. RowsOf(live) \subseteq Rows
    BY <1>0, Absence DEF RowsOf, Tables
  <2>2. live' \in Tables /\ written' \subseteq Rows
    BY <1>0, <1>16, <2>1 DEF WriteRow, Tables
  <2> QED BY <1>0, <1>16, <1>b, <2>2 DEF WriteRow
<1>17. ASSUME NEW s \in Stamps, PurgeCopy(s) PROVE TypeOK'
  <2>1. copies' \in [Stamps -> Tables] /\ written' \subseteq Rows
    BY <1>0, <1>17, <1>a DEF PurgeCopy
  <2> QED BY <1>0, <1>17, <1>b, <2>1 DEF PurgeCopy
<1> QED
  BY <1>1, <1>2, <1>3, <1>4, <1>5, <1>6, <1>7, <1>8, <1>9, <1>10, <1>11, <1>12, <1>13, <1>14,
     <1>15, <1>16, <1>17 DEF AsideNext

-----------------------------------------------------------------------------
(* Rows, copies and the block.                                             *)

LEMMA StepFresh == TypeOK /\ Course /\ Fresh /\ AsideNext => Fresh'
<1> SUFFICES ASSUME TypeOK, Course, Fresh, AsideNext PROVE Fresh'
  OBVIOUS
<1>0. stamp \in Nat /\ copies \in [Stamps -> Tables] /\ \A s \in Stamps : s \in Nat
  <2>1. stamp \in 0 .. MaxClears /\ copies \in [Stamps -> Tables]
    BY DEF TypeOK
  <2> QED BY <2>1, Bounds DEF Stamps
<1>1. CASE ClearTable
  <2>1. copies' = copies /\ stamp' = stamp + 1
    BY <1>1 DEF ClearTable
  <2> QED BY <1>0, <2>1 DEF Fresh
<1>2. ASSUME stamp' = stamp, NEW table, copies' = [copies EXCEPT ![stamp] = table]
      PROVE  Fresh'
  <2>1. \A s \in Stamps : s > stamp => copies'[s] = copies[s]
    BY <1>0, <1>2
  <2> QED BY <1>2, <2>1 DEF Fresh
<1>3. CASE UNCHANGED <<stamp, copies>>
  BY <1>3 DEF Fresh
<1>4. ASSUME NEW s \in Stamps, PurgeCopy(s) PROVE Fresh'
  <2>1. stamp' = stamp /\ \A x \in Stamps : copies[x] = Absent => copies'[x] = Absent
    BY <1>0, <1>4 DEF PurgeCopy
  <2> QED BY <2>1 DEF Fresh
<1>5. CASE Rename \/ DeleteTable
  BY <1>2, <1>3, <1>5 DEF Rename, DeleteTable, SetsAside, Books
<1>6. CASE CloneAside \/ Compare \/ PurgeClone
  BY <1>2, <1>3, <1>6 DEF CloneAside, Compare, PurgeClone, Books
<1>7. CASE \/ LookAgain \/ Block \/ DeleteIndex \/ CountAgain \/ Unblock \/ ListAgain
           \/ DeleteRows \/ GoOn \/ StopHalfWay \/ \E r \in Rows : WriteRow(r)
  BY <1>3, <1>7 DEF LookAgain, Block, DeleteIndex, CountAgain, Unblock, ListAgain, DeleteRows,
     GoOn, StopHalfWay, WriteRow, Still, Books
<1> QED
  BY <1>1, <1>4, <1>5, <1>6, <1>7 DEF AsideNext

\* No step leaves a row nowhere.
LEMMA StepRows == TypeOK /\ Course /\ Fresh /\ RowsKept /\ AsideNext => RowsKept'
<1> SUFFICES ASSUME TypeOK, Course, Fresh, RowsKept, AsideNext PROVE RowsKept'
  OBVIOUS
<1>0. live \in Tables /\ copies \in [Stamps -> Tables] /\ Absent \in Tables /\ RowsOf(Absent) = {}
  BY DEF TypeOK, Tables, RowsOf
<1>1. ASSUME stamp \in Stamps, SetsAside, copies[stamp] = Absent, written' = written PROVE RowsKept'
  <2>1. copies' = [copies EXCEPT ![stamp] = live]
    BY <1>1 DEF SetsAside
  <2>2. RowsOf(copies[stamp]) = {}
    BY <1>0, <1>1
  <2> HIDE DEF RowsOf
  <2> QED BY <1>0, <1>1, <2>1, <2>2, CopyKeepsRows
<1>2. CASE Rename
  <2>1. stamp \in Stamps /\ copies[stamp] = Absent /\ written' = written
    BY <1>2 DEF Rename, Course, Whole, Books
  <2> QED BY <1>1, <1>2, <2>1, StillKeepsRows DEF Rename
<1>3. CASE DeleteTable
  <2>1. stamp \in Stamps /\ copies[stamp] = Absent /\ written' = written
    BY <1>3 DEF DeleteTable, Course, Whole, Books
  <2> QED BY <1>1, <1>3, <2>1, StillKeepsRows DEF DeleteTable
<1>4. CASE CloneAside
  <2>1. stamp \in Stamps /\ copies[stamp] = Absent /\ written' = written /\ live' = live
    BY <1>4 DEF CloneAside, Course, Whole, Books
  <2>2. live \in SUBSET Rows
    BY <1>0, <1>4 DEF CloneAside, Course, Whole, Tables
  <2>3. RowsOf(copies[stamp]) = {} /\ RowsOf(live') = RowsOf(live)
    BY <1>0, <2>1
  <2>4. ASSUME NEW part \in SUBSET live, copies' = [copies EXCEPT ![stamp] = part] PROVE RowsKept'
    <3>1. part \in Tables
      BY <2>2 DEF Tables
    <3> HIDE DEF RowsOf
    <3> QED BY <2>1, <2>3, <2>4, <3>1, CopyKeepsRows
  <2> QED BY <1>4, <2>1, <2>4, StillKeepsRows DEF CloneAside
<1>5. ASSUME stamp \in Stamps, UNCHANGED <<live, written>>, copies[stamp] # Absent,
             copies[stamp] \subseteq live, live # Absent,
             copies' = [copies EXCEPT ![stamp] = Absent]
      PROVE  RowsKept'
  <2>1. RowsOf(live') = live /\ RowsOf(live) = live /\ RowsOf(copies[stamp]) = copies[stamp]
    BY <1>5 DEF RowsOf
  <2> HIDE DEF RowsOf
  <2> QED BY <1>0, <1>5, <2>1, CopyKeepsRows
<1>6. CASE Compare \/ PurgeClone
  <2>1. /\ stamp \in Stamps /\ UNCHANGED <<live, written>>
        /\ live # Absent /\ copies[stamp] # Absent /\ copies[stamp] \subseteq live
    BY <1>6 DEF Compare, PurgeClone, Course, Books
  <2>2. copies' = copies \/ copies' = [copies EXCEPT ![stamp] = Absent]
    BY <1>6 DEF Compare, PurgeClone
  <2> QED BY <1>5, <2>1, <2>2, StillKeepsRows
<1>7. CASE DeleteIndex
  <2>1. /\ stamp \in Stamps /\ live # Absent /\ copies[stamp] = live
        /\ copies' = copies /\ written' = written
    BY <1>7 DEF DeleteIndex, Course, Books
  <2>2. CASE live' = Absent
    <3>1. copies' = [copies EXCEPT ![stamp] = live]
      BY <1>0, <2>1
    <3>2. RowsOf(copies[stamp]) = RowsOf(live)
      BY <2>1
    <3> HIDE DEF RowsOf
    <3> QED BY <1>0, <2>1, <3>1, <3>2, CopyKeepsRows
  <2>3. CASE live' = live
    BY <2>1, <2>3, StillKeepsRows
  <2> QED BY <1>7, <2>2, <2>3 DEF DeleteIndex
<1>8. CASE DeleteRows
  <2>1. CASE UNCHANGED <<live, written>>
    BY <1>8, <2>1, StillKeepsRows DEF DeleteRows
  <2>2. CASE live' = Absent /\ written' = written \ RowsOf(live) /\ copies' = copies
    <3>1. \A r \in written : r \in RowsOf(live) \/ \E s \in Stamps : r \in RowsOf(copies[s])
      BY DEF RowsKept
    <3>2. \A r \in written' : \E s \in Stamps : r \in RowsOf(copies[s])
      BY <2>2, <3>1
    <3> QED BY <2>2, <3>2 DEF RowsKept
  <2> QED BY <1>8, <2>1, <2>2 DEF DeleteRows
<1>9. ASSUME NEW r \in Rows, WriteRow(r) PROVE RowsKept'
  <2>1. live' = RowsOf(live) \cup {r} /\ written' = written \cup {r} /\ copies' = copies
    BY <1>9 DEF WriteRow
  <2>2. live' # Absent
    BY <1>0, <2>1, Absence DEF RowsOf
  <2>3. RowsOf(live') = RowsOf(live) \cup {r}
    BY <2>1, <2>2 DEF RowsOf
  <2>4. \A x \in written : x \in RowsOf(live) \/ \E s \in Stamps : x \in RowsOf(copies[s])
    BY DEF RowsKept
  <2>5. \A x \in written' : x \in RowsOf(live') \/ \E s \in Stamps : x \in RowsOf(copies'[s])
    BY <2>1, <2>3, <2>4
  <2> QED BY <2>5 DEF RowsKept
<1>10. ASSUME NEW s \in Stamps, PurgeCopy(s) PROVE RowsKept'
  <2>1. /\ live' = live
        /\ written' = written \cap (RowsOf(live) \cup UNION {RowsOf(copies[x]) : x \in Stamps \ {s}})
        /\ \A x \in Stamps \ {s} : copies'[x] = copies[x]
    BY <1>0, <1>10 DEF PurgeCopy
  <2>2. \A r \in written' : r \in RowsOf(live) \/ \E x \in Stamps \ {s} : r \in RowsOf(copies[x])
    BY <2>1
  <2>3. \A r \in written' : r \in RowsOf(live') \/ \E x \in Stamps : r \in RowsOf(copies'[x])
    BY <2>1, <2>2
  <2> QED BY <2>3 DEF RowsKept
<1>11. CASE \/ ClearTable \/ LookAgain \/ Block \/ CountAgain \/ Unblock \/ ListAgain
            \/ GoOn \/ StopHalfWay
  BY <1>11, StillKeepsRows DEF ClearTable, LookAgain, Block, CountAgain, Unblock, ListAgain,
     GoOn, StopHalfWay, Still, Books
<1> QED
  BY <1>2, <1>3, <1>4, <1>6, <1>7, <1>8, <1>9, <1>10, <1>11 DEF AsideNext

\* A block that no clear is about to take off is known to be one.
LEMMA StepStuck ==
    TypeOK /\ Course /\ KnownStuck /\ AsideNext => KnownStuck'
<1> SUFFICES ASSUME TypeOK, Course, KnownStuck, AsideNext PROVE KnownStuck'
  OBVIOUS
<1>1. server' = server
  BY DEF AsideNext, ClearTable, Rename, LookAgain, Block, CloneAside, Compare, DeleteIndex,
     CountAgain, PurgeClone, Unblock, DeleteTable, ListAgain, DeleteRows, GoOn, StopHalfWay,
     WriteRow, PurgeCopy, Still
<1>2. CASE ClearTable
  BY <1>2 DEF ClearTable, KnownStuck
<1>3. CASE Rename \/ LookAgain \/ DeleteTable \/ ListAgain \/ DeleteRows
  <2>1. doing \in {"rename", "look", "delete", "listDone", "listFailed"} /\ blocked' = blocked
    BY <1>3 DEF Rename, LookAgain, DeleteTable, ListAgain, DeleteRows, Still
  <2>2. server # "elasticsearch"
    BY <1>3, <2>1 DEF Rename, LookAgain, DeleteTable, ListAgain, DeleteRows
  <2> QED BY <2>1, <2>2 DEF KnownStuck
<1>4. CASE Block
  BY <1>1, <1>4 DEF Block, KnownStuck, Unblocks, Asks
<1>5. CASE CloneAside \/ Compare \/ PurgeClone
  BY <1>5 DEF CloneAside, Compare, PurgeClone, KnownStuck, Unblocks, Asks
<1>6. CASE DeleteIndex
  BY <1>1, <1>6 DEF DeleteIndex, KnownStuck, Asks
<1>7. CASE CountAgain
  <2>1. server' = server /\ blocked' = blocked
    BY <1>7 DEF CountAgain, Still
  <2>2. doing' = "" => ~blocked
    BY <1>7 DEF CountAgain, Looks, Course, Unblocks, Asks, Returns
  <2> QED BY <2>1, <2>2 DEF KnownStuck
<1>8. CASE Unblock
  <2>1. blocked' = FALSE \/ (stuck' = blocked /\ blocked' = blocked)
    BY <1>8 DEF Unblock
  <2>2. blocked => server = "elasticsearch"
    BY DEF KnownStuck
  <2>3. CASE blocked' = FALSE
    BY <2>3 DEF KnownStuck
  <2>4. CASE stuck' = blocked /\ blocked' = blocked
    BY <1>1, <2>2, <2>4 DEF KnownStuck
  <2> QED BY <2>1, <2>3, <2>4
<1>9. CASE GoOn \/ StopHalfWay
  <2>1. CASE GoOn
    BY <2>1 DEF GoOn, Taken, Still, KnownStuck
  <2>2. CASE StopHalfWay
    <3>1. blocked' = blocked /\ stuck' = blocked
      BY <2>2 DEF StopHalfWay, Still
    <3> QED BY <1>1, <3>1 DEF KnownStuck
  <2> QED BY <1>9, <2>1, <2>2
<1>10. CASE (\E r \in Rows : WriteRow(r)) \/ (\E s \in Stamps : PurgeCopy(s))
  <2>1. doing = "" /\ blocked' = blocked /\ stuck' = stuck
    BY <1>10 DEF WriteRow, PurgeCopy
  <2> QED BY <1>1, <2>1 DEF KnownStuck
<1> QED
  BY <1>2, <1>3, <1>4, <1>5, <1>6, <1>7, <1>8, <1>9, <1>10 DEF AsideNext

-----------------------------------------------------------------------------
(* The course of a clear and its answer.                                   *)

\* The answer of a step that returns, or hands over to the block's removal.
Right(a) ==
    /\ a.what \in {"untouched", "absent"} => live' = before
    /\ a.what \in {"cleared", "absent"} => live' = Absent
    /\ a.what = "cleared" =>
           /\ a.kept # 0 => copies'[a.kept] = before
           /\ server \in {"postgres", "elasticsearch"} => a.kept # 0

LEMMA AnswerIsRight ==
    ASSUME KnownStuck', UNCHANGED <<server, before>>, doing' = "" /\ answer' # Pending => Right(answer')
    PROVE  AnswerIsTrue'
BY DEF AnswerIsTrue, Right, KnownStuck

LEMMA ClearedIsRight ==
    ASSUME stamp \in Stamps, live' = Absent, copies'[stamp] = before
    PROVE  Right(Cleared(stamp))
<1>1. stamp \in 0 .. MaxClears /\ stamp # 0
  BY ZeroAndStamp
<1>2. Cleared(stamp).what = "cleared" /\ Cleared(stamp).kept = stamp
  BY <1>1, AnswerTypes
<1> QED BY <1>1, <1>2 DEF Right

LEMMA StepCourse ==
    ASSUME TypeOK, Course, Fresh, AsideNext, AnswerIsTrue, KnownStuck'
    PROVE  Course' /\ AnswerIsTrue'
<1>0. \A n \in 0 .. MaxClears :
          /\ Pending.what = "" /\ Untouched.what = "untouched"
          /\ Answer("absent", 0).what = "absent"
          /\ Answer("untouched", n).what = "untouched"
          /\ Cleared(n).what = "cleared" /\ Cleared(n).kept = n
          /\ Unknown(n).what = "unknown"
  BY AnswerTypes
<1>a. 0 \in 0 .. MaxClears /\ stamp \in 0 .. MaxClears /\ Stamps \subseteq 0 .. MaxClears /\ 0 \notin Stamps
  BY ZeroAndStamp DEF TypeOK
<1>b. copies \in [Stamps -> Tables]
  BY DEF TypeOK
<1> HIDE DEF TypeOK
<1>1. CASE ClearTable
  <2>0. /\ doing = "" /\ stamp' = stamp + 1 /\ before' = live
        /\ UNCHANGED <<server, live, copies>>
    BY <1>1 DEF ClearTable
  <2>1. stamp' \in Stamps /\ copies[stamp'] = Absent
    <3>1. stamp < MaxClears /\ stamp \in Nat
      <4>1. stamp < MaxClears
        BY <1>1 DEF ClearTable
      <4> QED BY <1>a, <4>1, Bounds
    <3>2. stamp' = stamp + 1
      BY <2>0
    <3>3. stamp' \in Stamps /\ stamp' > stamp
      BY <3>1, <3>2, Bounds DEF Stamps
    <3> QED BY <3>3 DEF Fresh
  <2>2. CASE doing' = ""
    <3>1. answer' = Untouched \/ (answer' = Answer("absent", 0) /\ live = Absent)
      BY <1>1, <2>2 DEF ClearTable, Returns, Asks
    <3>2. Course'
      BY <2>2 DEF Course
    <3>3. AnswerIsTrue'
      BY <1>0, <1>a, <2>0, <3>1 DEF AnswerIsTrue, KnownStuck
    <3> QED BY <3>2, <3>3
  <2>3. CASE doing' # ""
    <3>1. /\ answer' = Pending /\ (live # Absent \/ server = "influx2")
          /\ doing' = CASE server = "postgres" -> "rename"
                        [] server = "elasticsearch" -> "block"
                        [] OTHER -> "delete"
      BY <1>1, <2>3 DEF ClearTable, Returns, Asks
    <3>2. server \in Servers
      BY DEF TypeOK
    <3>3. \/ server = "postgres" /\ doing' = "rename"
          \/ server = "elasticsearch" /\ doing' = "block"
          \/ server \in {"influx3", "influx2"} /\ doing' = "delete"
      BY <3>1, <3>2 DEF Servers
    <3> QED BY <2>0, <2>1, <3>1, <3>3 DEF Course, Whole, AnswerIsTrue
  <2> QED BY <2>2, <2>3
<1>2. CASE Rename
  <2>0. /\ server = "postgres" /\ stamp \in Stamps /\ Whole /\ answer = Pending
        /\ UNCHANGED <<server, stamp, before>>
    BY <1>2 DEF Rename, Course, Books
  <2>1. SetsAside => live' = Absent /\ copies'[stamp] = before
    BY <1>b, <2>0 DEF SetsAside, Whole
  <2>2. CASE SetsAside /\ Returns(Cleared(stamp))
    BY <1>0, <1>a, <2>0, <2>1, <2>2, AnswerIsRight, ZenonT(60) DEF Returns, Course, Right
  <2>3. CASE SetsAside /\ Asks("look") /\ UNCHANGED answer
    BY <2>0, <2>1, <2>3 DEF Asks, Course, Moved, Whole, AnswerIsTrue
  <2>4. CASE (Asks("look") \/ UNCHANGED doing) /\ UNCHANGED <<live, copies, answer>>
    BY <1>2, <2>0, <2>4 DEF Rename, Asks, Course, Whole, AnswerIsTrue
  <2>5. CASE Returns(Untouched) /\ UNCHANGED <<live, copies>>
    BY <1>0, <1>a, <2>0, <2>5, AnswerIsRight DEF Returns, Course, Right, Whole
  <2> QED BY <1>2, <2>2, <2>3, <2>4, <2>5 DEF Rename
<1>3. CASE LookAgain
  <2>0. /\ server = "postgres" /\ stamp \in Stamps /\ (Whole \/ Moved) /\ doing' = ""
        /\ UNCHANGED <<server, live, copies, stamp, before>>
    BY <1>3 DEF LookAgain, Course, Books, Still, Returns
  <2>1. \/ answer' = Unknown(0)
        \/ answer' = Untouched /\ Whole
        \/ answer' = Cleared(stamp) /\ Moved
    BY <1>3, <2>0 DEF LookAgain, Returns, Whole, Moved
  <2>2. Right(answer')
    <3>1. CASE answer' = Cleared(stamp) /\ Moved
      BY <2>0, <3>1, ClearedIsRight DEF Moved
    <3>2. CASE answer' = Unknown(0) \/ (answer' = Untouched /\ Whole)
      BY <1>0, <1>a, <2>0, <3>2 DEF Right, Whole
    <3> QED BY <2>1, <3>1, <3>2
  <2> QED BY <2>0, <2>2, AnswerIsRight DEF Course
<1>4. CASE Block
  <2>0. /\ server = "elasticsearch" /\ stamp \in Stamps /\ Whole /\ answer = Pending
        /\ UNCHANGED <<server, live, copies, stamp, before>>
        /\ \/ doing' = "clone" /\ answer' = answer
           \/ doing' = "unblock" /\ answer' = Untouched
    BY <1>4 DEF Block, Course, Books, Asks, Unblocks
  <2> QED BY <1>0, <1>a, <2>0 DEF Course, Whole, AnswerIsTrue
<1>5. CASE CloneAside
  <2>0. /\ server = "elasticsearch" /\ stamp \in Stamps /\ Whole /\ answer = Pending
        /\ UNCHANGED <<server, live, stamp, before>>
    BY <1>5 DEF CloneAside, Course, Books
  <2>1. CASE Unblocks(Untouched)
    BY <1>0, <1>a, <2>0, <2>1 DEF Unblocks, Course, Whole, AnswerIsTrue
  <2>2. ASSUME NEW part \in SUBSET live, copies' = [copies EXCEPT ![stamp] = part],
               Asks("compare"), UNCHANGED answer
        PROVE  Course' /\ AnswerIsTrue'
    <3>1. live \in SUBSET Rows
      BY <2>0 DEF TypeOK, Tables, Whole
    <3>2. copies'[stamp] = part /\ part # Absent
      BY <1>b, <2>0, <2>2, <3>1, Absence
    <3> QED BY <2>0, <2>2, <3>2 DEF Asks, Course, Whole, AnswerIsTrue
  <2> QED BY <1>5, <2>1, <2>2 DEF CloneAside
<1>6. CASE Compare
  <2>0. /\ server = "elasticsearch" /\ stamp \in Stamps /\ answer = Pending
        /\ live = before /\ before # Absent /\ copies[stamp] # Absent /\ copies[stamp] \subseteq live
        /\ UNCHANGED <<server, live, stamp, before>>
    BY <1>6 DEF Compare, Course, Books
  <2>1. CASE Compares /\ Asks("delete") /\ UNCHANGED <<copies, answer>>
    <3>1. live \in SUBSET Rows
      BY <2>0 DEF TypeOK, Tables
    <3>2. Cardinality(copies[stamp]) = Cardinality(live)
      BY <2>0, <2>1 DEF Compares, RowsOf
    <3>3. copies[stamp] = live
      BY <2>0, <3>1, <3>2, PartIsWhole
    <3> QED BY <2>0, <2>1, <3>3 DEF Asks, Course, AnswerIsTrue
  <2>2. CASE Unblocks(Untouched)
    BY <1>0, <1>a, <2>0, <2>2 DEF Unblocks, Course, AnswerIsTrue
  <2> QED BY <1>6, <2>1, <2>2 DEF Compare
<1>7. CASE DeleteIndex
  <2>0. /\ server = "elasticsearch" /\ stamp \in Stamps /\ answer = Pending
        /\ live = before /\ before # Absent /\ copies[stamp] = before
        /\ UNCHANGED <<server, copies, stamp, before>>
    BY <1>7 DEF DeleteIndex, Course, Books
  <2>1. \/ live' = Absent /\ blocked' = FALSE /\ doing' = "" /\ answer' = Cleared(stamp)
        \/ live' = Absent /\ blocked' = FALSE /\ doing' = "count" /\ answer' = answer
        \/ live' = live /\ doing' = "count" /\ answer' = answer
    BY <1>7 DEF DeleteIndex, Returns, Asks
  <2>2. CASE doing' = ""
    <3>1. live' = Absent /\ answer' = Cleared(stamp)
      BY <2>1, <2>2
    <3>2. Right(answer')
      BY <2>0, <3>1, ClearedIsRight
    <3> QED BY <2>0, <2>2, <3>2, AnswerIsRight DEF Course
  <2>3. CASE doing' = "count" /\ answer' = answer
    BY <2>0, <2>1, <2>3 DEF Course, AnswerIsTrue
  <2> QED BY <2>1, <2>2, <2>3
<1>8. CASE CountAgain
  <2>0. /\ server = "elasticsearch" /\ stamp \in Stamps /\ answer = Pending
        /\ before # Absent /\ copies[stamp] = before /\ (live = before \/ live = Absent)
        /\ UNCHANGED <<server, live, copies, stamp, before>>
    BY <1>8 DEF CountAgain, Course, Books, Still
  <2>1. \/ doing' = "unblock" /\ answer' = Unknown(stamp)
        \/ live = Absent /\ doing' = "" /\ answer' = Cleared(stamp)
        \/ live = before /\ doing' = "purge" /\ answer' = answer
    BY <1>8, <2>0 DEF CountAgain, Looks, Returns, Asks, Unblocks
  <2>2. CASE doing' = ""
    <3>1. live' = Absent /\ answer' = Cleared(stamp)
      BY <2>0, <2>1, <2>2
    <3>2. Right(answer')
      BY <2>0, <3>1, ClearedIsRight
    <3> QED BY <2>0, <2>2, <3>2, AnswerIsRight DEF Course
  <2>3. CASE doing' # ""
    BY <1>0, <1>a, <2>0, <2>1, <2>3 DEF Course, AnswerIsTrue
  <2> QED BY <2>2, <2>3
<1>9. CASE PurgeClone
  <2>0. /\ server = "elasticsearch" /\ stamp \in Stamps /\ live = before
        /\ UNCHANGED <<server, live, stamp, before>>
        /\ doing' = "unblock" /\ (answer' = Untouched \/ answer' = Answer("untouched", stamp))
    BY <1>9 DEF PurgeClone, Course, Books, Unblocks
  <2> QED BY <1>0, <1>a, <2>0, ZenonT(40) DEF Course, AnswerIsTrue
<1>10. CASE Unblock
  <2>0. /\ server = "elasticsearch" /\ doing' = "" /\ answer' = answer
        /\ answer.what = "unknown" \/ (answer.what = "untouched" /\ live = before)
        /\ UNCHANGED <<server, live, copies, before>>
    BY <1>10 DEF Unblock, Course, Books, Asks
  <2>1. Right(answer')
    BY <2>0 DEF Right
  <2> QED BY <2>0, <2>1, AnswerIsRight DEF Course
<1>11. CASE DeleteTable
  <2>0. /\ server = "influx3" /\ stamp \in Stamps /\ Whole /\ answer = Pending
        /\ UNCHANGED <<server, stamp, before>>
    BY <1>11 DEF DeleteTable, Course, Books
  <2>1. SetsAside => live' = Absent /\ copies'[stamp] = before
    BY <1>b, <2>0 DEF SetsAside, Whole
  <2>2. CASE Returns(Untouched) /\ UNCHANGED <<live, copies>>
    BY <1>0, <1>a, <2>0, <2>2, AnswerIsRight DEF Returns, Course, Right, Whole
  <2>3. CASE SetsAside /\ doing' \in {"listDone", "listFailed"} /\ UNCHANGED answer
    BY <2>0, <2>1, <2>3 DEF Course, Moved, Whole, AnswerIsTrue
  <2>4. CASE Asks("listFailed") /\ UNCHANGED <<live, copies, answer>>
    BY <2>0, <2>4 DEF Asks, Course, Whole, AnswerIsTrue
  <2> QED BY <1>11, <2>2, <2>3, <2>4 DEF DeleteTable
<1>12. CASE ListAgain
  <2>0. /\ server = "influx3" /\ stamp \in Stamps /\ doing' = ""
        /\ (doing = "listDone" => Moved) /\ (Whole \/ Moved)
        /\ UNCHANGED <<server, live, copies, stamp, before>>
    BY <1>12 DEF ListAgain, Course, Books, Still, Returns
  <2>1. \/ answer' = Unknown(0)
        \/ Moved /\ (answer' = Cleared(0) \/ answer' = Cleared(stamp))
        \/ Whole /\ answer' = Untouched
    <3>1. CASE Moved
      BY <1>12, <2>0, <3>1 DEF ListAgain, Returns, Moved
    <3>2. CASE Whole
      BY <1>12, <2>0, <3>2 DEF ListAgain, Returns, Whole, Moved
    <3> QED BY <2>0, <3>1, <3>2
  <2>2. Right(answer')
    BY <1>0, <1>a, <2>0, <2>1, ZenonT(60) DEF Right, Whole, Moved
  <2> QED BY <2>0, <2>2, AnswerIsRight DEF Course
<1>13. CASE DeleteRows
  <2>0. /\ server = "influx2" /\ live = before /\ doing' = ""
        /\ UNCHANGED <<server, copies, before>>
        /\ \/ answer' = Untouched /\ live' = live
           \/ answer' = Cleared(0) /\ live' = Absent
           \/ answer' = Unknown(0)
    BY <1>13 DEF DeleteRows, Course, Returns
  <2>1. Right(answer')
    BY <1>0, <1>a, <2>0 DEF Right
  <2> QED BY <2>0, <2>1, AnswerIsRight DEF Course
<1>14. CASE GoOn \/ StopHalfWay
  <2>0. doing' = "" /\ answer' = Pending
    BY <1>14 DEF GoOn, StopHalfWay, Taken
  <2> QED BY <2>0 DEF Course, AnswerIsTrue
<1>15. CASE (\E r \in Rows : WriteRow(r)) \/ (\E s \in Stamps : PurgeCopy(s))
  <2>0. doing' = "" /\ answer' = Pending
    BY <1>15 DEF WriteRow, PurgeCopy
  <2> QED BY <2>0 DEF Course, AnswerIsTrue
<1> QED
  BY <1>1, <1>2, <1>3, <1>4, <1>5, <1>6, <1>7, <1>8, <1>9, <1>10, <1>11, <1>12, <1>13, <1>14,
     <1>15 DEF AsideNext

-----------------------------------------------------------------------------
(* The theorems.                                                           *)

LEMMA StepIInv == IInv /\ [AsideNext]_aside => IInv'
<1>1. CASE UNCHANGED aside
  <2>0. UNCHANGED <<server, live, copies, blocked, doing, stamp, tried, answer, before, written, stuck>>
    BY <1>1 DEF aside
  <2>1. TypeOK => TypeOK'
    BY <2>0 DEF TypeOK
  <2>2. Course => Course'
    BY <2>0 DEF Course, Whole, Moved
  <2>3. (Fresh => Fresh') /\ (KnownStuck => KnownStuck')
    BY <2>0 DEF Fresh, KnownStuck
  <2>4. RowsKept => RowsKept'
    BY <2>0, StillKeepsRows
  <2>5. AnswerIsTrue => AnswerIsTrue'
    BY <2>0 DEF AnswerIsTrue
  <2> QED BY <2>1, <2>2, <2>3, <2>4, <2>5 DEF IInv
<1>2. CASE AsideNext
  BY <1>2, StepType, StepFresh, StepRows, StepStuck, StepCourse DEF IInv
<1> QED BY <1>1, <1>2

\* aside.go's promise for every store that keeps a copy: through lost answers,
\* stops and repeated clears no row is lost before its copy is purged by name.
THEOREM RowsAreKept == AsideSpec => []RowsKept
<1>1. IInv => RowsKept
  BY DEF IInv
<1> QED
  BY <1>1, InitIInv, StepIInv, PTL DEF AsideSpec

\* What Clear returns is so in every store, which is what a migration goes by
\* when it records that it was applied, or that nothing was touched.
THEOREM AnswersAreTrue == AsideSpec => []AnswerIsTrue
<1>1. IInv => AnswerIsTrue
  BY DEF IInv
<1> QED
  BY <1>1, InitIInv, StepIInv, PTL DEF AsideSpec

=============================================================================
