-------------------------------- MODULE Client --------------------------------
(***************************************************************************)
(* The conditional cache of the GitHub client and the calls that use it    *)
(* (internal/ghapi/client.go: GetJSON, send, cache; answers.go), the file  *)
(* that hands the cache to the next process (internal/run/cache.go), and   *)
(* that process, which may be another release.                             *)
(*                                                                         *)
(* A content stands for a body, its ETag and its Link.  A body that is     *)
(* kept is the decoding type's encoding of a content: read back by that    *)
(* type it is the content, by another it is only part of it.  The          *)
(* collectors ask one at a time; the client's lock promises more, so that  *)
(* is what is modelled: any number of callers.  Each step of a call is     *)
(* what happens between two waits, and the two locks a response takes, for *)
(* the budget and for the cache, guard state that shares nothing: the      *)
(* budget is the module Budget.                                            *)
(***************************************************************************)
EXTENDS Integers, Sequences, FiniteSets, FiniteSetsExt

CONSTANTS
    Callers,   \* the goroutines that ask
    Urls,      \* what they ask for
    Types,     \* the Go types they decode into
    Releases,  \* the releases of the program
    Shapes,    \* what a type keeps of an answer, by decodingName
    ShapeOf,   \* what each type is in each release
    Contents,  \* what GitHub may hold under a URL
    Bytes,     \* the size of a content's entry, 0 for an empty body
    Links,     \* the Link headers
    LinkOf,    \* the one a content comes with
    NoLink,
    Limit,     \* what the cache may hold
    FileMost,  \* what the file may keep of it
    AnswerMost,\* the largest answer it keeps
    None, Nothing, Partial

ASSUME ClientAssumption ==
    /\ ShapeOf \in [Releases -> [Types -> Shapes]]
    /\ \A r \in Releases, t1, t2 \in Types :
           ShapeOf[r][t1] = ShapeOf[r][t2] => t1 = t2
    /\ Bytes \in [Contents -> Nat]
    /\ NoLink \in Links /\ LinkOf \in [Contents -> Links]
    /\ Limit \in Nat /\ FileMost \in Nat /\ AnswerMost \in Nat
    /\ None \notin Urls /\ Releases # {}

\* An entry is of a URL, for one decoding type.
Keys == [url : Urls, typ : Shapes]

\* A body: what type encoded it, and what it is the encoding of.
Bodies == [by : Shapes, of : Contents]
Entries == [etag : Contents, body : Bodies, link : Links]

\* A 304 has no body, and a Link or none; a 200 may come without an ETag.
Replies == [status : {"not_modified", "ok"}, of : Contents,
            tagged : BOOLEAN, link : Links]

ASSUME NoneAssumption ==
    /\ None \notin Entries /\ None \notin Replies
    /\ \A of \in Contents \cup {Nothing, Partial}, link \in Links :
           None # [of |-> of, link |-> link]

VARIABLES
    github,   \* what GitHub holds under each URL
    release,  \* the release of the running process
    loaded,   \* this process has looked at the cache file
    entries,  \* the cache: the entry of each key, or None
    order,    \* its keys, most recently used first
    bytes,    \* what the cache counts itself to hold
    file,     \* the cache file: its keys in that order and their entries
    at,       \* where each call is
    call,     \* the URL and the type it asks for
    saved,    \* the entry it asked with, held for the rest of the call
    tries,    \* how often it was sent
    reply     \* what GitHub answered, once it has

cache   == <<entries, order, bytes>>
calls   == <<at, call, saved, tries, reply>>
process == <<release, loaded>>
vars    == <<github, process, cache, file, calls>>

-----------------------------------------------------------------------------
(* The cache.                                                              *)

\* The bytes of the entries of some keys, all told.
SizeOf(held, keys) == Cardinality(UNION {{k} \X (1 .. Bytes[held[k].body.of]) : k \in keys})

\* A list without the keys that are not wanted: the place of one that is
\* wanted is how many of those there are up to it.
Only(keys, wanted) ==
    LET places == {i \in 1 .. Len(keys) : keys[i] \in wanted}
        Place(i) == Cardinality({x \in places : x <= i})
    IN  [j \in 1 .. Cardinality(places) |-> keys[CHOOSE i \in places : Place(i) = j]]

InFirst(keys, n) == {keys[i] : i \in 1 .. n}
Without(keys, k) == Only(keys, Keys \ {k})
ToFront(keys, k) == <<k>> \o Without(keys, k)

\* get: the entry of a key, now the most recently used.
Got(k) == entries[k]
Get(k) == order' = IF entries[k] = None THEN order ELSE ToFront(order, k)

\* drop.
Drop(k) ==
    /\ entries' = [entries EXCEPT ![k] = None]
    /\ order' = Without(order, k)
    /\ bytes' = IF entries[k] = None THEN bytes ELSE bytes - Bytes[entries[k].body.of]

\* How many of the most recently used stay when the rest is evicted, one by
\* one from the other end, until what is left fits.
Staying(held, keys, total) ==
    Max({n \in 0 .. Len(keys) :
           total - SizeOf(held, InFirst(keys, Len(keys)) \ InFirst(keys, n)) <= Limit})

StoreUncounted(k, e) ==  \* a mutant: what was stored before stays counted
    LET held == [entries EXCEPT ![k] = e]
        keys == ToFront(order, k)
        total == bytes + Bytes[e.body.of]
        n == Staying(held, keys, total)
        gone == InFirst(keys, Len(keys)) \ InFirst(keys, n)
    IN  /\ entries' = [x \in Keys |-> IF x \in gone THEN None ELSE held[x]]
        /\ order' = SubSeq(keys, 1, n)
        /\ bytes' = total - SizeOf(held, gone)

\* The entry is stored, over the one its key had, and the oldest make room.
Store(k, e) ==
    LET held == [entries EXCEPT ![k] = e]
        keys == ToFront(order, k)
        total == bytes + Bytes[e.body.of]
                 - IF entries[k] = None THEN 0 ELSE Bytes[entries[k].body.of]
        n == Staying(held, keys, total)
        gone == InFirst(keys, Len(keys)) \ InFirst(keys, n)
    IN  /\ entries' = [x \in Keys |-> IF x \in gone THEN None ELSE held[x]]
        /\ order' = SubSeq(keys, 1, n)
        /\ bytes' = total - SizeOf(held, gone)

\* put: an empty body and one larger than the cache only drop the old entry.
Put(k, e) ==
    IF Bytes[e.body.of] \in 1 .. Limit THEN Store(k, e) ELSE Drop(k)

-----------------------------------------------------------------------------
(* A call.                                                                 *)

\* The key a type's entry of a URL has in this release.
KeyByURL(u, t) ==  \* a mutant: one entry for whatever decodes the URL
    [url |-> u, typ |-> ShapeOf[release][CHOOSE x \in Types : TRUE]]
KeyFor(u, t) == [url |-> u, typ |-> ShapeOf[release][t]]
KeyOf(c) == KeyFor(call[c].url, call[c].type)

\* What a type makes of a body.
Decoded(c, body) == IF body.by = ShapeOf[release][call[c].type] THEN body.of ELSE Partial

\* replayable: the decoded answer, encoded again.
Replayable(c) == [by |-> ShapeOf[release][call[c].type], of |-> reply[c].of]

\* What a 304 is answered with: the entry held since before it was asked.
Replayed(c) == saved[c]

\* What the caller is given for the reply at hand.
Given(c) ==
    LET r == reply[c]
        e == Replayed(c)
    IN  IF r.status = "ok" THEN [of |-> r.of, link |-> r.link]
        ELSE IF e = None THEN [of |-> Nothing, link |-> NoLink]
        ELSE [of |-> Decoded(c, e.body), link |-> IF r.link = NoLink THEN e.link ELSE r.link]

\* GetJSON to the first request: the key's entry is read once, and asked with.
Ask(c, u, t) ==
    /\ at[c] = "idle"
    /\ at' = [at EXCEPT ![c] = "asked"]
    /\ call' = [call EXCEPT ![c] = [url |-> u, type |-> t]]
    /\ tries' = [tries EXCEPT ![c] = 1]
    /\ saved' = [saved EXCEPT ![c] = Got(KeyFor(u, t))]
    /\ Get(KeyFor(u, t))
    /\ UNCHANGED <<github, process, entries, bytes, file, reply>>

\* GitHub answers: 304 to the ETag it still has, what it holds to any other.
Answered(c) ==
    LET content == github[call[c].url]
        r == [status |-> "ok", of |-> content, tagged |-> TRUE, link |-> LinkOf[content]]
    IN  IF saved[c] # None /\ saved[c].etag = content
          THEN {[r EXCEPT !.status = "not_modified", !.link = l] : l \in {NoLink, LinkOf[content]}}
          ELSE {[r EXCEPT !.tagged = tagged] : tagged \in BOOLEAN}

Serve(c) ==
    /\ at[c] = "asked"
    /\ \E r \in Answered(c) : reply' = [reply EXCEPT ![c] = r]
    /\ at' = [at EXCEPT ![c] = "replied"]
    /\ UNCHANGED <<github, process, cache, file, call, saved, tries>>

\* A call that is over leaves nothing behind.
Done(c) ==
    /\ at' = [at EXCEPT ![c] = "idle"]
    /\ call' = [call EXCEPT ![c] = None]
    /\ saved' = [saved EXCEPT ![c] = None]
    /\ tries' = [tries EXCEPT ![c] = 0]
    /\ reply' = [reply EXCEPT ![c] = None]

\* Every other answer, and none at all, is an error.
Refuse(c) ==
    /\ at[c] = "asked"
    /\ Done(c)
    /\ UNCHANGED <<github, process, cache, file>>

\* But the first of four, which is asked once more: sendTwice, to its pause.
AskedInVain(c) ==
    /\ at[c] = "asked" /\ tries[c] = 1
    /\ at' = [at EXCEPT ![c] = "pausing"]
    /\ UNCHANGED <<github, process, cache, file, call, saved, tries, reply>>

\* After it: the same request, with the same ETag.
SendAgain(c) ==
    /\ at[c] = "pausing"
    /\ at' = [at EXCEPT ![c] = "asked"]
    /\ tries' = [tries EXCEPT ![c] = 2]
    /\ UNCHANGED <<github, process, cache, file, call, saved, reply>>

\* Canceled in the pause, or refused by the brake after it.
GiveUp(c) ==
    /\ at[c] = "pausing"
    /\ Done(c)
    /\ UNCHANGED <<github, process, cache, file>>

\* GetJSON from the response to its return.
Return(c) ==
    /\ at[c] = "replied"
    /\ IF reply[c].status = "ok" /\ reply[c].tagged
         THEN Put(KeyOf(c), [etag |-> reply[c].of, body |-> Replayable(c),
                             link |-> reply[c].link])
         ELSE UNCHANGED cache
    /\ Done(c)
    /\ UNCHANGED <<github, process, file>>

-----------------------------------------------------------------------------
(* The file, and the process it is for.                                    *)

\* keptAnswers: of those asked for since the horizon, which are the first
\* ones, each that is not too large, while they fit.
Kept(recent) ==
    LET asked == SubSeq(order, 1, recent)
        small == Only(asked, {k \in InFirst(asked, recent) : Bytes[entries[k].body.of] <= AnswerMost})
        n == Max({i \in 0 .. Len(small) : SizeOf(entries, InFirst(small, i)) <= FileMost})
    IN  SubSeq(small, 1, n)

\* saveCache.
Save ==
    /\ \E recent \in 0 .. Len(order) :
           LET keys == Kept(recent) IN
           file' = [order |-> keys,
                    entries |-> [k \in Keys |-> IF k \in InFirst(keys, Len(keys))
                                                THEN entries[k] ELSE None]]
    /\ UNCHANGED <<github, process, cache, calls>>

\* Restore: behind what is held and never over it, until one does not fit.
\* A file that cannot be read whole is one that is never loaded.
Load ==
    /\ ~loaded
    /\ LET new == Only(file.order, {k \in Keys : entries[k] = None})
           n == Max({i \in 0 .. Len(new) :
                       bytes + SizeOf(file.entries, InFirst(new, i)) <= Limit})
       IN  /\ entries' = [k \in Keys |-> IF k \in InFirst(new, n)
                                         THEN file.entries[k] ELSE entries[k]]
           /\ order' = order \o SubSeq(new, 1, n)
           /\ bytes' = bytes + SizeOf(file.entries, InFirst(new, n))
    /\ loaded' = TRUE
    /\ UNCHANGED <<github, release, file, calls>>

\* The process ends, whatever it was doing, and one of this or another
\* release takes its place.
Restart(r) ==
    /\ release' = r
    /\ loaded' = FALSE
    /\ entries' = [k \in Keys |-> None] /\ order' = <<>> /\ bytes' = 0
    /\ at' = [c \in Callers |-> "idle"] /\ call' = [c \in Callers |-> None]
    /\ saved' = [c \in Callers |-> None] /\ tries' = [c \in Callers |-> 0]
    /\ reply' = [c \in Callers |-> None]
    /\ UNCHANGED <<github, file>>

Edit(u) ==
    /\ \E content \in Contents : github' = [github EXCEPT ![u] = content]
    /\ UNCHANGED <<process, cache, file, calls>>

Init ==
    /\ github \in [Urls -> Contents]
    /\ release \in Releases /\ loaded = FALSE
    /\ entries = [k \in Keys |-> None] /\ order = <<>> /\ bytes = 0
    /\ file = [order |-> <<>>, entries |-> [k \in Keys |-> None]]
    /\ at = [c \in Callers |-> "idle"] /\ call = [c \in Callers |-> None]
    /\ saved = [c \in Callers |-> None] /\ tries = [c \in Callers |-> 0]
    /\ reply = [c \in Callers |-> None]

Next ==
    \/ \E c \in Callers :
         \/ \E u \in Urls, t \in Types : Ask(c, u, t)
         \/ Serve(c) \/ Refuse(c) \/ AskedInVain(c) \/ SendAgain(c) \/ GiveUp(c) \/ Return(c)
    \/ Save \/ Load
    \/ \E r \in Releases : Restart(r)
    \/ \E u \in Urls : Edit(u)

Spec == Init /\ [][Next]_vars

-----------------------------------------------------------------------------
(* Properties.                                                             *)

InOrder == InFirst(order, Len(order))

\* Types, and the books of the cache (pairAt, put, drop, evict, Restore): its
\* list and its index hold the same keys, each once, the bytes it counts are
\* those it holds, and they are within its limit, whatever was replaced,
\* dropped, evicted or read from the file.
CacheInOrder ==
    /\ entries \in [Keys -> Entries \cup {None}]
    /\ InOrder = {k \in Keys : entries[k] # None} /\ Len(order) = Cardinality(InOrder)
    /\ bytes = SizeOf(entries, InOrder) /\ bytes <= Limit
    /\ \A c \in Callers : at[c] \in {"idle", "asked", "replied", "pausing"}

\* Every call is answered with what GitHub held while it was on (GetJSON):
\* what a 304 replays is no other type's, no other release's and no older
\* body, and an entry evicted while the call waits is still answered with.
Promised == INSTANCE Answers WITH
    asked  <- [c \in Callers |-> IF at[c] = "idle" THEN None ELSE call[c].url],
    answer <- [c \in Callers |-> IF at[c] = "replied" THEN Given(c) ELSE None]
AnswersHold == Promised!Spec

=============================================================================
