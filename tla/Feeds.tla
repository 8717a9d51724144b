-------------------------------- MODULE Feeds --------------------------------
(***************************************************************************)
(* The activity feed and the cursor that spares reading it whole           *)
(* (internal/run/feeds.go, events; internal/collect/events.go, Collect;    *)
(* internal/run/runner.go, family and emit): the feed keeps the last few   *)
(* pages of events and moves on while they are read, a read stops at the   *)
(* page with the newest event of the read before, and the cursor to it is  *)
(* in the state file.                                                      *)
(*                                                                         *)
(* Events are numbered as they reach the feed.  One may reach it a little  *)
(* late, behind others, so their order on the feed is its own.             *)
(***************************************************************************)
EXTENDS Naturals, Sequences

CONSTANTS
    PageSize,  \* events of a page
    Pages,     \* pages of the feed, and of a read
    MaxEvents  \* bound: events that ever happen

ASSUME FeedAssumption ==
    PageSize \in Nat \ {0} /\ Pages \in Nat \ {0} /\ MaxEvents \in Nat

VARIABLES
    feed,        \* the events on it, newest first
    happened,    \* how many ever were
    cursor,      \* LastEvent, 0 before there is one
    cursorSaved, \* the same in the state file
    page,        \* the page to read next, 0 outside a read, Delivering after it
    after,       \* the event the read stops at, 0 for none
    newest,      \* the first event it saw
    brought,     \* the events it brought
    \* Bookkeeping of the model.
    offered,     \* the events every store was given to take
    skipped,     \* events on pages GitHub would not give
    late         \* events that came behind one already served

reading == <<page, after, newest, brought>>
feeds   == <<feed, happened, cursor, cursorSaved, reading, offered, skipped, late>>

Delivering == Pages + 1

-----------------------------------------------------------------------------
(* The feed.                                                               *)

Room == Pages * PageSize

Page(n) == {feed[i] : i \in {j \in DOMAIN feed : (n - 1) * PageSize < j /\ j <= n * PageSize}}

\* The i-th event of the feed is e, or is behind it.
Behind(e, i) == \E j \in 1 .. i : feed[j] = e

\* An event of the feed before the i-th was served to a read that counts: the
\* one that left the cursor, in memory or on disk, or the one under way.
ServedBefore(i) == \E e \in {cursor, cursorSaved, newest} : Behind(e, i - 1)

\* An event reaches the feed, in the i-th place, and what no longer fits goes.
\* A page is fetched as the feed is then: those before it may have changed.
Happens(i) ==
    /\ happened < MaxEvents /\ happened' = happened + 1
    /\ i <= Len(feed) + 1
    /\ LET last == IF Len(feed) < Room THEN Len(feed) + 1 ELSE Room
       IN  feed' = [k \in 1 .. last |-> IF k < i THEN feed[k]
                                        ELSE IF k = i THEN happened' ELSE feed[k - 1]]
    /\ late' = IF ServedBefore(i) THEN late \cup {happened'} ELSE late
    /\ UNCHANGED <<cursor, cursorSaved, reading, offered, skipped>>

\* The last one is too old for it.
Ages ==
    /\ feed # <<>> /\ feed' = SubSeq(feed, 1, Len(feed) - 1)
    /\ UNCHANGED <<happened, cursor, cursorSaved, reading, offered, skipped, late>>

-----------------------------------------------------------------------------
(* A read.                                                                 *)

\* events, to the first request; a backfill reads whatever the cursor says.
BeginRead(whole) ==
    /\ page = 0
    /\ page' = 1 /\ newest' = 0 /\ brought' = {}
    /\ after' = IF whole THEN 0 ELSE cursor
    /\ UNCHANGED <<feed, happened, cursor, cursorSaved, offered, skipped, late>>

ReadDone == page' = 0 /\ after' = 0 /\ newest' = 0 /\ brought' = {}

\* Collect came back without an error.
ReadOver(seen) ==
    /\ page' = Delivering
    /\ cursor' = IF seen = 0 THEN cursor ELSE seen

\* The page is the last one: it is the last there are, not a full one, or
\* the one the cursor is on.
LastPage(batch) == page = Pages \/ Len(feed) < page * PageSize \/ after \in batch

\* A page is brought whole, whatever of it was served before.
ReadPage ==
    LET batch == Page(page)
        seen  == IF page = 1 /\ feed # <<>> THEN feed[1] ELSE newest
    IN  /\ page \in 1 .. Pages
        /\ brought' = brought \cup batch /\ newest' = seen
        /\ IF LastPage(batch) THEN ReadOver(seen) ELSE page' = page + 1 /\ UNCHANGED cursor
        /\ UNCHANGED <<feed, happened, cursorSaved, after, offered, skipped, late>>

\* A page that is skippable is the end of the feed.
SkipPage ==
    LET left == {i \in DOMAIN feed : Behind(newest, i) /\ ~Behind(cursor, i)}
    IN  /\ page \in 1 .. Pages
        /\ ReadOver(newest)
        /\ skipped' = skipped \cup ({feed[i] : i \in left} \ brought)
        /\ UNCHANGED <<feed, happened, cursorSaved, after, newest, brought, offered, late>>

\* A fault to find: the cursor of a read that failed half way is kept.
FailPageMoves ==
    /\ page \in 1 .. Pages
    /\ ReadOver(newest)
    /\ UNCHANGED <<feed, happened, cursorSaved, after, newest, brought, offered, skipped, late>>

\* Any other error: what came is delivered, and the cursor stays.
FailPage ==
    /\ page \in 1 .. Pages
    /\ page' = Delivering
    /\ UNCHANGED <<feed, happened, cursor, cursorSaved, after, newest, brought, offered, skipped, late>>

\* family: emit gives every store the rows, of a read that failed too, and a
\* store that refuses them is not given them again for it.
Deliver ==
    /\ page = Delivering
    /\ offered' = offered \cup brought
    /\ skipped' = skipped \ brought /\ late' = late \ brought
    /\ ReadDone
    /\ UNCHANGED <<feed, happened, cursor, cursorSaved>>

\* The sweep ends and its state is saved.
SaveCursor ==
    /\ page = 0 /\ cursorSaved' = cursor
    /\ UNCHANGED <<feed, happened, cursor, reading, offered, skipped, late>>

\* The process stops anywhere, the rows at hand given to some or to none.
ReaderStops ==
    /\ cursor' = cursorSaved
    /\ ReadDone
    /\ UNCHANGED <<feed, happened, cursorSaved, offered, skipped, late>>

FeedsInit ==
    /\ feed = <<>> /\ happened = 0 /\ cursor = 0 /\ cursorSaved = 0
    /\ page = 0 /\ after = 0 /\ newest = 0 /\ brought = {}
    /\ offered = {} /\ skipped = {} /\ late = {}

FeedsNext ==
    \/ (\E i \in 1 .. Room : Happens(i)) \/ Ages
    \/ \E whole \in BOOLEAN : BeginRead(whole)
    \/ ReadPage \/ SkipPage \/ FailPage
    \/ Deliver \/ SaveCursor \/ ReaderStops

FeedsSpec == FeedsInit /\ [][FeedsNext]_feeds

-----------------------------------------------------------------------------
(* Properties.                                                             *)

\* What the cursor steps over was given to every store: an event of the feed
\* at the cursor or behind it, in memory outside a delivery or on disk, was
\* delivered, but for one on a page GitHub would not give, and one that came
\* behind an event already served and on no page read since; whatever happened
\* on the feed between two pages, whichever read failed half way and whenever
\* the process stopped (Events.After: "everything older is already written").
SteppedOverIsOffered ==
    \A i \in DOMAIN feed :
        (Behind(cursor, i) /\ page # Delivering) \/ Behind(cursorSaved, i)
            => feed[i] \in offered \cup skipped \cup late

=============================================================================
