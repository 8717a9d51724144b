------------------------------- MODULE SetAside -------------------------------
(***************************************************************************)
(* Clearing one measurement of a store without losing its rows             *)
(* (internal/teardown/aside.go): PostgreSQL renames the table,             *)
(* Elasticsearch clones the index and deletes it, InfluxDB 3 renames what  *)
(* it is told to delete, InfluxDB 2 deletes.  A migration acts on the      *)
(* answer of Clear (module Migration), which has to be true whatever       *)
(* became of the requests.                                                 *)
(*                                                                         *)
(* Each request is a step, and may be carried out with its answer lost.    *)
(* One that is carried out has been by the time its caller gives up on it. *)
(* Nobody else writes: the lock of the state file is held (module Lock).   *)
(***************************************************************************)
EXTENDS Naturals, FiniteSets

CONSTANTS
    Rows,      \* the rows of the measurement
    MaxClears, \* bound: how often it is cleared
    LockTries, \* how often a rename waits for the table's lock
    Absent

ASSUME SetAsideAssumption ==
    /\ IsFiniteSet(Rows)
    /\ MaxClears \in Nat /\ LockTries \in Nat \ {0}
    /\ \A table \in SUBSET Rows : table # Absent

Servers == {"postgres", "elasticsearch", "influx3", "influx2"}
Stamps  == 1 .. MaxClears
Tables  == (SUBSET Rows) \cup {Absent}

VARIABLES
    server,  \* what the store is
    live,    \* the table or index, under its own name
    copies,  \* the one set aside under each stamp
    blocked, \* the index takes no writes
    doing,   \* the request Clear is at, "" before and after
    stamp,   \* the stamp of this clear, or of the last
    tried,   \* the renames sent
    answer,  \* what Clear returns, once that is known
    \* Bookkeeping of the model.
    before,  \* the table when Clear was called
    written, \* every row taken, but those of a copy that was purged
    stuck    \* the request to take the block off failed, or was never made

aside == <<server, live, copies, blocked, doing, stamp, tried, answer, before, written, stuck>>

-----------------------------------------------------------------------------
(* Requests.                                                               *)

RowsOf(table) == IF table = Absent THEN {} ELSE table

\* What Clear returns: that it cleared, that nothing was there to clear, that
\* nothing was touched or that it does not know, and the copy it names, or 0.
Answer(what, kept) == [what |-> what, kept |-> kept]
Pending   == Answer("", 0)
Untouched == Answer("untouched", 0)
Cleared(kept) == Answer("cleared", kept)
Unknown(kept) == Answer("unknown", kept)

Asks(next) == doing' = next
Returns(a) == doing' = "" /\ answer' = a

\* A fault to find: the block is left to whoever clears the index next.
UnblocksLater(a) == Returns(a)

\* Elasticsearch takes the block off before it returns.
Unblocks(a) == doing' = "unblock" /\ answer' = a

Still == UNCHANGED <<server, live, copies, blocked>>
Books == UNCHANGED <<stamp, before, written>>

SetsAside == live' = Absent /\ copies' = [copies EXCEPT ![stamp] = live]

-----------------------------------------------------------------------------
(* Clear.                                                                  *)

\* What is asked first, before anything is changed; a failure is untouched,
\* and so is the answer when there is nothing to clear.
ClearTable ==
    /\ doing = "" /\ answer = Pending /\ stamp < MaxClears
    /\ stamp' = stamp + 1 /\ before' = live /\ tried' = 0
    /\ \/ Returns(Untouched)
       \/ /\ live = Absent /\ server # "influx2"
          /\ Returns(Answer("absent", 0))
       \/ /\ live # Absent \/ server = "influx2"
          /\ Asks(CASE server = "postgres" -> "rename"
                    [] server = "elasticsearch" -> "block"
                    [] OTHER -> "delete")
          /\ UNCHANGED answer
    /\ UNCHANGED <<server, live, copies, blocked, written, stuck>>

\* PostgreSQL: the rename is sent again while a reader holds the table.
Rename ==
    /\ server = "postgres" /\ doing = "rename"
    /\ tried' = tried + 1
    /\ \/ SetsAside /\ Returns(Cleared(stamp))
       \/ SetsAside /\ Asks("look") /\ UNCHANGED answer
       \/ Asks("look") /\ UNCHANGED <<live, copies, answer>>
       \/ tried' = LockTries /\ Returns(Untouched) /\ UNCHANGED <<live, copies>>
       \/ tried' < LockTries /\ UNCHANGED <<doing, live, copies, answer>>
    /\ UNCHANGED <<server, blocked, stuck>> /\ Books

\* lookAgain, and what it says of a rename without an answer.
LookAgain ==
    /\ server = "postgres" /\ doing = "look"
    /\ \/ Returns(Unknown(0))
       \/ Returns(IF copies[stamp] # Absent THEN Cleared(stamp)
                  ELSE IF live # Absent THEN Untouched
                  ELSE Unknown(0))
    /\ Still /\ Books /\ UNCHANGED <<tried, stuck>>

\* Elasticsearch: the index takes no more writes.
Block ==
    /\ server = "elasticsearch" /\ doing = "block"
    /\ \/ blocked' = TRUE /\ Asks("clone") /\ UNCHANGED answer
       \/ blocked' \in {blocked, TRUE} /\ Unblocks(Untouched)
    /\ UNCHANGED <<server, live, copies, tried, stuck>> /\ Books

\* cloneAside, to the clone: the refresh and the count may fail before it.
CloneAside ==
    /\ server = "elasticsearch" /\ doing = "clone"
    /\ \/ Unblocks(Untouched) /\ UNCHANGED copies
       \/ \E some \in SUBSET live :
            /\ copies' = [copies EXCEPT ![stamp] = some]
            /\ (Asks("compare") /\ UNCHANGED answer) \/ Unblocks(Untouched)
    /\ UNCHANGED <<server, live, blocked, tried, stuck>> /\ Books

\* A fault to find: the clone is taken to be whole.
ComparesLess == RowsOf(copies[stamp]) \subseteq live

\* The count of the clone is the one taken of the index.
Compares == Cardinality(RowsOf(copies[stamp])) = Cardinality(live)

Compare ==
    /\ server = "elasticsearch" /\ doing = "compare"
    /\ \/ Compares /\ Asks("delete") /\ UNCHANGED <<copies, answer>>
       \/ /\ Unblocks(Untouched)
          /\ copies' \in {copies, [copies EXCEPT ![stamp] = Absent]}
    /\ UNCHANGED <<server, live, blocked, tried, stuck>> /\ Books

DeleteIndex ==
    /\ server = "elasticsearch" /\ doing = "delete"
    /\ \/ /\ live' = Absent /\ blocked' = FALSE /\ stuck' = FALSE
          /\ Returns(Cleared(stamp)) \/ (Asks("count") /\ UNCHANGED answer)
       \/ Asks("count") /\ UNCHANGED <<live, blocked, stuck, answer>>
    /\ UNCHANGED <<server, copies, tried>> /\ Books

\* A fault to find: a delete that failed is taken not to have been done.
LooksUnseen == Asks("purge") /\ UNCHANGED answer

\* A delete that failed is looked at again before anything is undone.
Looks ==
    \/ Unblocks(Unknown(stamp))
    \/ live = Absent /\ Returns(Cleared(stamp))
    \/ live # Absent /\ Asks("purge") /\ UNCHANGED answer

CountAgain ==
    /\ server = "elasticsearch" /\ doing = "count"
    /\ Looks
    /\ Still /\ Books /\ UNCHANGED <<tried, stuck>>

\* The clone of an index that stays is purged; one that is not is named.
PurgeClone ==
    /\ server = "elasticsearch" /\ doing = "purge"
    /\ \/ copies' = [copies EXCEPT ![stamp] = Absent] /\ Unblocks(Untouched)
       \/ /\ copies' \in {copies, [copies EXCEPT ![stamp] = Absent]}
          /\ Unblocks(Answer("untouched", stamp))
    /\ UNCHANGED <<server, live, blocked, tried, stuck>> /\ Books

Unblock ==
    /\ server = "elasticsearch" /\ doing = "unblock"
    /\ Asks("")
    /\ \/ blocked' = FALSE /\ stuck' = FALSE
       \/ stuck' = blocked /\ UNCHANGED blocked
    /\ UNCHANGED <<server, live, copies, tried, answer>> /\ Books

\* InfluxDB 3 is told to delete, and renames: refused, the table is as it was.
DeleteTable ==
    /\ server = "influx3" /\ doing = "delete"
    /\ \/ Returns(Untouched) /\ UNCHANGED <<live, copies>>
       \/ SetsAside /\ doing' \in {"listDone", "listFailed"} /\ UNCHANGED answer
       \/ Asks("listFailed") /\ UNCHANGED <<live, copies, answer>>
    /\ UNCHANGED <<server, blocked, tried, stuck>> /\ Books

\* The list read back says what became of it, if it can be read.
ListAgain ==
    /\ server = "influx3" /\ doing \in {"listDone", "listFailed"}
    /\ LET made == IF copies[stamp] # Absent THEN stamp ELSE 0 IN
       \/ Returns(IF doing = "listDone" THEN Cleared(0)
                                        ELSE Unknown(0))
       \/ Returns(IF doing = "listFailed" /\ made = 0 /\ live # Absent
                    THEN Untouched ELSE Cleared(made))
    /\ Still /\ Books /\ UNCHANGED <<tried, stuck>>

\* deleteV2: what InfluxDB 2 deletes is gone.
DeleteRows ==
    /\ server = "influx2" /\ doing = "delete"
    /\ \/ Returns(Untouched) /\ UNCHANGED <<live, written>>
       \/ /\ live' = Absent /\ written' = written \ RowsOf(live)
          /\ Returns(Cleared(0)) \/ Returns(Unknown(0))
       \/ Returns(Unknown(0)) /\ UNCHANGED <<live, written>>
    /\ UNCHANGED <<server, copies, blocked, tried, stamp, before, stuck>>

-----------------------------------------------------------------------------
(* Around it.                                                              *)

\* The caller takes the answer and goes on.
Taken == doing = "" /\ answer # Pending /\ answer' = Pending

GoOn == Taken /\ Still /\ Books /\ UNCHANGED <<doing, tried, stuck>>

\* The process ends in the middle of a clear.
StopHalfWay ==
    /\ doing # ""
    /\ doing' = "" /\ answer' = Pending
    /\ stuck' = blocked
    /\ Still /\ Books /\ UNCHANGED tried

\* The sink writes a row, into a table it makes if there is none.
WriteRow(r) ==
    /\ doing = "" /\ answer = Pending /\ ~blocked
    /\ live' = RowsOf(live) \cup {r} /\ written' = written \cup {r}
    /\ UNCHANGED <<server, copies, blocked, doing, stamp, tried, answer, before, stuck>>

\* A day later the copy is purged, by name.
PurgeCopy(s) ==
    /\ doing = "" /\ answer = Pending /\ copies[s] # Absent
    /\ copies' = [copies EXCEPT ![s] = Absent]
    /\ written' = written \cap (RowsOf(live) \cup
                                UNION {RowsOf(copies[x]) : x \in Stamps \ {s}})
    /\ UNCHANGED <<server, live, blocked, doing, stamp, tried, answer, before, stuck>>

AsideInit ==
    /\ server \in Servers
    /\ live \in {Absent, Rows} /\ written = RowsOf(live) /\ before = live
    /\ copies = [s \in Stamps |-> Absent]
    /\ blocked = FALSE /\ stuck = FALSE
    /\ doing = "" /\ stamp = 0 /\ tried = 0 /\ answer = Pending

AsideNext ==
    \/ ClearTable \/ Rename \/ LookAgain \/ Block \/ CloneAside \/ Compare \/ DeleteIndex
    \/ CountAgain \/ PurgeClone \/ Unblock \/ DeleteTable \/ ListAgain \/ DeleteRows
    \/ GoOn \/ StopHalfWay
    \/ \E r \in Rows : WriteRow(r)
    \/ \E s \in Stamps : PurgeCopy(s)

AsideSpec == AsideInit /\ [][AsideNext]_aside

-----------------------------------------------------------------------------
(* Properties.                                                             *)

\* No row is lost by setting its table aside, at any request of it, lost
\* answers and stops included, where the store keeps a copy: it is in the
\* table, or in a copy that is purged by name a day later (aside.go, Clear).
RowsKept == written \subseteq RowsOf(live) \cup UNION {RowsOf(copies[s]) : s \in Stamps}

\* What Clear returns is so (aside.go, ErrUntouched and Clearer): untouched,
\* every row is where it was and takes writes, unless the request for that
\* failed; without an error, the next write starts afresh, and what the copy
\* it names holds is all there was.  The others promise nothing, and a refill
\* stays owed for them.
AnswerIsTrue ==
    doing = "" /\ answer # Pending =>
        /\ answer.what \in {"untouched", "absent"} => live = before
        /\ answer.what \in {"cleared", "absent"} => live = Absent
        /\ answer.what = "cleared" =>
               /\ answer.kept # 0 => copies[answer.kept] = before
               /\ server \in {"postgres", "elasticsearch"} => answer.kept # 0
        /\ blocked /\ live # Absent => stuck

=============================================================================
