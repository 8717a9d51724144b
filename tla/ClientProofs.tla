----------------------------- MODULE ClientProofs -----------------------------
(***************************************************************************)
(* Proof that Client keeps what Answers promises, for any callers, URLs,   *)
(* types, releases and contents and whatever the cache and its file may    *)
(* hold.  The refinement needs an invariant: every entry, in the cache, in *)
(* the file or held by a call, is what the type of its key made of the     *)
(* content its ETag names, with the Link that content came with.           *)
(*                                                                         *)
(* The same invariant carries the books of the cache: what its list, its   *)
(* index, its count and the file say is one thing, whatever is replaced,   *)
(* dropped, evicted, saved or read back.                                   *)
(*                                                                         *)
(* And proofs about Budget, for every window, reserve and number of        *)
(* processes: the reserve is kept but for what was charged blind or for    *)
(* answers that never came, and blind is at most one request for a process *)
(* and one for the window.                                                 *)
(***************************************************************************)
EXTENDS Client, Budget, FiniteSetTheorems, SequenceTheorems, WellFoundedInduction, TLAPS

\* An entry under a key is that type's, and all of one content.
Sound(k, e) ==
    e # None => e.body.by = k.typ /\ e.body.of = e.etag /\ e.link = LinkOf[e.etag]

HeldEntries == [Keys -> Entries \cup {None}]
HeldSound(held) == held \in HeldEntries /\ \A k \in Keys : Sound(k, held[k])

\* A call asks for something with a sound entry of its key, or none.
CallSound(c) ==
    IF at[c] = "idle" THEN call[c] = None
    ELSE /\ call[c] \in [url : Urls, type : Types]
         /\ saved[c] \in Entries \cup {None}
         /\ Sound(KeyOf(c), saved[c])

\* A reply says what one content is, a 304 what the ETag it asked with is of.
ReplySound(c) ==
    at[c] = "replied" =>
        /\ reply[c] \in Replies
        /\ reply[c].status = "ok" => reply[c].link = LinkOf[reply[c].of]
        /\ reply[c].status = "not_modified" =>
               /\ saved[c] # None /\ saved[c].etag = reply[c].of
               /\ reply[c].link \in {NoLink, LinkOf[reply[c].of]}

Typed ==
    /\ github \in [Urls -> Contents]
    /\ release \in Releases
    /\ at \in [Callers -> {"idle", "asked", "replied", "pausing"}]
    /\ DOMAIN call = Callers /\ DOMAIN saved = Callers /\ DOMAIN reply = Callers
    /\ call = [c \in Callers |-> call[c]]
    /\ saved = [c \in Callers |-> saved[c]]
    /\ reply = [c \in Callers |-> reply[c]]

Consistent ==
    /\ Typed
    /\ HeldSound(entries) /\ HeldSound(file.entries)
    /\ \A c \in Callers : CallSound(c) /\ ReplySound(c)

-----------------------------------------------------------------------------
(* The cache.                                                              *)

LEMMA KeyType ==
    ASSUME release \in Releases, NEW u \in Urls, NEW t \in Types
    PROVE  KeyFor(u, t) \in Keys /\ KeyFor(u, t).typ = ShapeOf[release][t]
BY ClientAssumption DEF KeyFor, Keys

\* Storing a sound entry under its key keeps the cache sound, whatever has
\* to make room for it.
LEMMA PutSound ==
    ASSUME HeldSound(entries), NEW k \in Keys, NEW e \in Entries, Sound(k, e), Put(k, e)
    PROVE  HeldSound(entries')
<1>1. CASE Store(k, e)
  <2> DEFINE With(gone) == [x \in Keys |-> IF x \in gone THEN None
                                           ELSE [entries EXCEPT ![k] = e][x]]
  <2>1. PICK gone : entries' = With(gone)
    <3> DEFINE keys == ToFront(order, k)
               n == Staying([entries EXCEPT ![k] = e], keys,
                            bytes + Bytes[e.body.of]
                              - IF entries[k] = None THEN 0 ELSE Bytes[entries[k].body.of])
               room == InFirst(keys, Len(keys)) \ InFirst(keys, n)
    <3>1. entries' = With(room)
      BY <1>1, Zenon DEF Store
    <3> HIDE DEF room
    <3> QED  BY <3>1
  <2> QED  BY <2>1 DEF HeldSound, HeldEntries, Sound
<1>2. CASE Drop(k)
  BY <1>2 DEF Drop, HeldSound, HeldEntries, Sound
<1> QED  BY <1>1, <1>2 DEF Put

\* So does reading the file back.
LEMMA LoadSound ==
    ASSUME HeldSound(entries), HeldSound(file.entries), Load
    PROVE  HeldSound(entries') /\ HeldSound(file'.entries)
<1>1. PICK some : entries' = [k \in Keys |-> IF k \in some THEN file.entries[k] ELSE entries[k]]
  BY DEF Load
<1>2. file' = file
  BY DEF Load
<1> QED  BY <1>1, <1>2 DEF HeldSound, HeldEntries, Sound

\* And writing it.
LEMMA SaveSound ==
    ASSUME HeldSound(entries), Save
    PROVE  HeldSound(entries') /\ HeldSound(file'.entries)
<1>1. PICK some : file'.entries = [k \in Keys |-> IF k \in some THEN entries[k] ELSE None]
  BY DEF Save
<1>2. entries' = entries
  BY DEF Save, cache
<1> QED  BY <1>1, <1>2 DEF HeldSound, HeldEntries, Sound

-----------------------------------------------------------------------------
(* The invariant.                                                          *)

LEMMA InitConsistent == Init => Consistent
<1> SUFFICES ASSUME Init PROVE Consistent
  OBVIOUS
<1>1. Typed
  BY DEF Init, Typed
<1>2. HeldSound(entries) /\ HeldSound(file.entries)
  BY DEF Init, HeldSound, HeldEntries, Sound
<1>3. \A c \in Callers : CallSound(c) /\ ReplySound(c)
  BY DEF Init, CallSound, ReplySound
<1> QED  BY <1>1, <1>2, <1>3 DEF Consistent

\* What a step leaves of a call keeps it sound.
LEMMA CallKept ==
    ASSUME Consistent, release' = release, NEW c \in Callers,
           at'[c] = at[c], call'[c] = call[c], saved'[c] = saved[c], reply'[c] = reply[c]
    PROVE  CallSound(c)' /\ ReplySound(c)'
<1>1. CallSound(c) /\ ReplySound(c)
  BY DEF Consistent
<1>2. KeyOf(c)' = KeyOf(c)
  BY DEF KeyOf, KeyFor
<1> QED  BY <1>1, <1>2 DEF CallSound, ReplySound, Sound

\* A call that is over is sound, and no other is touched.
LEMMA DoneSound ==
    ASSUME Consistent, release' = release, github' = github, NEW c \in Callers, Done(c)
    PROVE  Typed' /\ \A d \in Callers : CallSound(d)' /\ ReplySound(d)'
<1>1. Typed'
  BY DEF Consistent, Typed, Done
<1>2. at'[c] = "idle" /\ call'[c] = None
  BY DEF Consistent, Typed, Done
<1>3. CallSound(c)' /\ ReplySound(c)'
  BY <1>2 DEF CallSound, ReplySound
<1>4. ASSUME NEW d \in Callers, d # c
      PROVE  CallSound(d)' /\ ReplySound(d)'
  <2>1. at'[d] = at[d] /\ call'[d] = call[d] /\ saved'[d] = saved[d] /\ reply'[d] = reply[d]
    BY <1>4 DEF Consistent, Typed, Done
  <2> QED  BY <2>1, CallKept
<1> QED  BY <1>1, <1>3, <1>4

LEMMA AskConsistent ==
    ASSUME Consistent, NEW c \in Callers, NEW u \in Urls, NEW t \in Types, Ask(c, u, t)
    PROVE  Consistent'
<1>1. Typed'
  BY DEF Consistent, Typed, Ask, process
<1>2. HeldSound(entries)' /\ HeldSound(file.entries)'
  BY DEF Consistent, Ask, HeldSound, HeldEntries, Sound
<1>3. release' = release
  BY DEF Ask, process
<1>4. CallSound(c)' /\ ReplySound(c)'
  <2>1. /\ at'[c] = "asked" /\ call'[c] = [url |-> u, type |-> t]
        /\ saved'[c] = entries[KeyFor(u, t)]
    BY DEF Ask, Got, Consistent, Typed
  <2>2. KeyFor(u, t) \in Keys
    BY KeyType DEF Consistent, Typed
  <2>3. KeyOf(c)' = KeyFor(u, t)
    BY <1>3, <2>1 DEF KeyOf, KeyFor
  <2>4. saved'[c] \in Entries \cup {None} /\ Sound(KeyFor(u, t), entries[KeyFor(u, t)])
    BY <2>1, <2>2 DEF Consistent, HeldSound, HeldEntries
  <2> QED  BY <2>1, <2>3, <2>4 DEF CallSound, ReplySound, Sound
<1>5. ASSUME NEW d \in Callers, d # c
      PROVE  CallSound(d)' /\ ReplySound(d)'
  <2>1. at'[d] = at[d] /\ call'[d] = call[d] /\ saved'[d] = saved[d] /\ reply'[d] = reply[d]
    BY <1>5 DEF Consistent, Typed, Ask
  <2> QED  BY <1>3, <2>1, CallKept
<1> QED  BY <1>1, <1>2, <1>4, <1>5 DEF Consistent

\* What GitHub can answer a call.
LEMMA AnsweredSound ==
    ASSUME Consistent, NEW c \in Callers, at[c] = "asked", NEW r \in Answered(c)
    PROVE  /\ r \in Replies /\ r.of = github[call[c].url]
           /\ r.status = "ok" => r.link = LinkOf[r.of]
           /\ r.status = "not_modified" =>
                  saved[c] # None /\ saved[c].etag = r.of /\ r.link \in {NoLink, LinkOf[r.of]}
<1> DEFINE content == github[call[c].url]
<1>1. call[c].url \in Urls /\ content \in Contents
  BY DEF Consistent, CallSound, Typed
<1>2. LinkOf[content] \in Links /\ NoLink \in Links
  BY <1>1, ClientAssumption
<1> HIDE DEF content
<1>3. \/ /\ saved[c] # None /\ saved[c].etag = content
         /\ \E l \in {NoLink, LinkOf[content]} :
                r = [status |-> "not_modified", of |-> content, tagged |-> TRUE, link |-> l]
      \/ \E b \in BOOLEAN :
             r = [status |-> "ok", of |-> content, tagged |-> b, link |-> LinkOf[content]]
  BY DEF Answered, content
<1>4. r.of = content /\ r \in Replies
  <2>1. PICK status \in {"not_modified", "ok"}, b \in BOOLEAN, l \in Links :
            r = [status |-> status, of |-> content, tagged |-> b, link |-> l]
    BY <1>2, <1>3
  <2> QED  BY <1>1, <2>1 DEF Replies
<1>5. CASE saved[c] # None /\ saved[c].etag = content /\ r.link \in {NoLink, LinkOf[content]}
           /\ r.status = "not_modified"
  BY <1>4, <1>5 DEF content
<1>6. CASE r.status = "ok" /\ r.link = LinkOf[content]
  BY <1>4, <1>6 DEF content
<1> QED  BY <1>3, <1>5, <1>6

LEMMA ServeConsistent ==
    ASSUME Consistent, NEW c \in Callers, Serve(c)
    PROVE  Consistent'
<1>1. PICK r \in Answered(c) : reply' = [reply EXCEPT ![c] = r]
  BY DEF Serve
<1>2. at[c] = "asked" /\ at' = [at EXCEPT ![c] = "replied"]
  BY DEF Serve
<1>3. Typed'
  BY <1>1, <1>2 DEF Consistent, Typed, Serve, process
<1>4. HeldSound(entries)' /\ HeldSound(file.entries)'
  BY DEF Consistent, Serve, cache, HeldSound, HeldEntries, Sound
<1>5. release' = release /\ call' = call /\ saved' = saved
  BY DEF Serve, process
<1>6. CallSound(c)' /\ ReplySound(c)'
  <2>1. at'[c] = "replied" /\ reply'[c] = r
    BY <1>1, <1>2 DEF Consistent, Typed
  <2>2. CallSound(c)
    BY DEF Consistent
  <2>3. KeyOf(c)' = KeyOf(c)
    BY <1>5 DEF KeyOf, KeyFor
  <2>4. CallSound(c)'
    BY <1>2, <1>5, <2>1, <2>2, <2>3 DEF CallSound, Sound
  <2>5. ReplySound(c)'
    BY <1>2, <1>5, <2>1, AnsweredSound DEF ReplySound
  <2> QED  BY <2>4, <2>5
<1>7. ASSUME NEW d \in Callers, d # c
      PROVE  CallSound(d)' /\ ReplySound(d)'
  <2>1. at'[d] = at[d] /\ call'[d] = call[d] /\ saved'[d] = saved[d] /\ reply'[d] = reply[d]
    BY <1>1, <1>2, <1>5, <1>7 DEF Consistent, Typed
  <2> QED  BY <1>5, <2>1, CallKept
<1> QED  BY <1>3, <1>4, <1>6, <1>7 DEF Consistent

\* What an answer with an ETag is kept as.
LEMMA ReturnPuts ==
    ASSUME Consistent, NEW c \in Callers, Return(c), reply[c].status = "ok", reply[c].tagged
    PROVE  \E k \in Keys, e \in Entries : Put(k, e) /\ Sound(k, e)
<1> DEFINE e == [etag |-> reply[c].of, body |-> Replayable(c), link |-> reply[c].link]
<1>1. Put(KeyOf(c), e) /\ at[c] = "replied"
  BY DEF Return
<1>2. CallSound(c) /\ ReplySound(c) /\ release \in Releases
  BY DEF Consistent, Typed
<1>3. /\ call[c].url \in Urls /\ call[c].type \in Types
      /\ reply[c].of \in Contents /\ reply[c].link \in Links
      /\ reply[c].link = LinkOf[reply[c].of]
  BY <1>1, <1>2 DEF CallSound, ReplySound, Replies
<1>4. KeyOf(c) \in Keys /\ KeyOf(c).typ = ShapeOf[release][call[c].type]
  BY <1>2, <1>3, KeyType DEF KeyOf
<1>5. Replayable(c) = [by |-> KeyOf(c).typ, of |-> reply[c].of] /\ Replayable(c) \in Bodies
  BY <1>3, <1>4 DEF Replayable, Bodies, Keys
<1>6. e \in Entries /\ Sound(KeyOf(c), e)
  BY <1>3, <1>5 DEF Entries, Sound
<1> HIDE DEF e
<1> QED  BY <1>1, <1>4, <1>6

LEMMA ReturnConsistent ==
    ASSUME Consistent, NEW c \in Callers, Return(c)
    PROVE  Consistent'
<1>1. release' = release /\ github' = github /\ file' = file /\ Done(c) /\ at[c] = "replied"
  BY DEF Return, process
<1>2. Typed' /\ \A d \in Callers : CallSound(d)' /\ ReplySound(d)'
  BY <1>1, DoneSound
<1>3. HeldSound(file.entries)'
  BY <1>1 DEF Consistent, HeldSound, HeldEntries, Sound
<1>4. HeldSound(entries)'
  <2>1. CASE reply[c].status = "ok" /\ reply[c].tagged
    <3>1. PICK k \in Keys, e \in Entries : Put(k, e) /\ Sound(k, e)
      BY <2>1, ReturnPuts
    <3> QED  BY <3>1, PutSound DEF Consistent
  <2>2. CASE ~ (reply[c].status = "ok" /\ reply[c].tagged)
    BY <2>2 DEF Return, cache, Consistent, HeldSound, HeldEntries, Sound
  <2> QED  BY <2>1, <2>2
<1> QED  BY <1>2, <1>3, <1>4 DEF Consistent

\* A step that leaves the cache, the file and every call's facts alone.
LEMMA StageConsistent ==
    ASSUME Consistent, NEW c \in Callers, AskedInVain(c) \/ SendAgain(c)
    PROVE  Consistent'
<1>1. UNCHANGED <<github, release, entries, file, call, saved, reply>>
  BY DEF AskedInVain, SendAgain, process, cache
<1>2. PICK next \in {"asked", "pausing"} : at[c] # "idle" /\ at' = [at EXCEPT ![c] = next]
  BY DEF AskedInVain, SendAgain
<1>3. Typed'
  BY <1>1, <1>2 DEF Consistent, Typed
<1>4. HeldSound(entries)' /\ HeldSound(file.entries)'
  BY <1>1 DEF Consistent, HeldSound, HeldEntries, Sound
<1>5. ASSUME NEW d \in Callers PROVE CallSound(d)' /\ ReplySound(d)'
  <2>1. CASE d = c
    <3>1. at'[c] = next
      BY <1>2 DEF Consistent, Typed
    <3>2. KeyOf(c)' = KeyOf(c) /\ CallSound(c)
      BY <1>1 DEF KeyOf, KeyFor, Consistent
    <3> QED  BY <1>1, <1>2, <2>1, <3>1, <3>2 DEF CallSound, ReplySound, Sound
  <2>2. CASE d # c
    BY <1>1, <1>2, <2>2, CallKept DEF Consistent, Typed
  <2> QED  BY <2>1, <2>2
<1> QED  BY <1>3, <1>4, <1>5 DEF Consistent

LEMMA OverConsistent ==
    ASSUME Consistent, NEW c \in Callers, Refuse(c) \/ GiveUp(c)
    PROVE  Consistent'
<1>1. UNCHANGED <<github, release, entries, file>> /\ Done(c)
  BY DEF Refuse, GiveUp, process, cache
<1>2. Typed' /\ \A d \in Callers : CallSound(d)' /\ ReplySound(d)'
  BY <1>1, DoneSound
<1>3. HeldSound(entries)' /\ HeldSound(file.entries)'
  BY <1>1 DEF Consistent, HeldSound, HeldEntries, Sound
<1> QED  BY <1>2, <1>3 DEF Consistent

\* A step of no call.
LEMMA ElsewhereConsistent ==
    ASSUME Consistent, Save \/ Load \/ (\E u \in Urls : Edit(u))
    PROVE  Consistent'
<1>1. UNCHANGED <<release, at, call, saved, reply>>
  BY DEF Save, Load, Edit, process, calls
<1>2. Typed'
  <2>1. github' \in [Urls -> Contents]
    BY DEF Save, Load, Edit, Consistent, Typed
  <2> QED  BY <1>1, <2>1 DEF Consistent, Typed
<1>3. HeldSound(entries)' /\ HeldSound(file.entries)'
  <2>1. CASE Save
    BY <2>1, SaveSound DEF Consistent
  <2>2. CASE Load
    BY <2>2, LoadSound DEF Consistent
  <2>3. CASE \E u \in Urls : Edit(u)
    BY <2>3 DEF Edit, cache, Consistent, HeldSound, HeldEntries, Sound
  <2> QED  BY <2>1, <2>2, <2>3
<1>4. \A c \in Callers : CallSound(c)' /\ ReplySound(c)'
  BY <1>1, CallKept
<1> QED  BY <1>2, <1>3, <1>4 DEF Consistent

LEMMA RestartConsistent ==
    ASSUME Consistent, NEW r \in Releases, Restart(r)
    PROVE  Consistent'
<1>1. Typed'
  BY DEF Consistent, Typed, Restart
<1>2. HeldSound(entries)' /\ HeldSound(file.entries)'
  BY DEF Consistent, Restart, HeldSound, HeldEntries, Sound
<1>3. \A c \in Callers : CallSound(c)' /\ ReplySound(c)'
  BY DEF Restart, CallSound, ReplySound
<1> QED  BY <1>1, <1>2, <1>3 DEF Consistent

LEMMA StepConsistent == Consistent /\ [Next]_vars => Consistent'
<1> SUFFICES ASSUME Consistent, [Next]_vars PROVE Consistent'
  OBVIOUS
<1>1. CASE Next
  <2>1. CASE \E c \in Callers, u \in Urls, t \in Types : Ask(c, u, t)
    BY <2>1, AskConsistent
  <2>2. CASE \E c \in Callers : Serve(c)
    BY <2>2, ServeConsistent
  <2>3. CASE \E c \in Callers : Refuse(c) \/ GiveUp(c)
    BY <2>3, OverConsistent
  <2>4. CASE \E c \in Callers : AskedInVain(c) \/ SendAgain(c)
    BY <2>4, StageConsistent
  <2>5. CASE \E c \in Callers : Return(c)
    BY <2>5, ReturnConsistent
  <2>6. CASE Save \/ Load \/ \E u \in Urls : Edit(u)
    BY <2>6, ElsewhereConsistent
  <2>7. CASE \E r \in Releases : Restart(r)
    BY <2>7, RestartConsistent
  <2> QED  BY <1>1, <2>1, <2>2, <2>3, <2>4, <2>5, <2>6, <2>7 DEF Next
<1>2. CASE UNCHANGED vars
  <2>1. UNCHANGED <<github, release, entries, file, at, call, saved, reply>>
    BY <1>2 DEF vars, process, cache, calls
  <2>2. Typed' /\ HeldSound(entries)' /\ HeldSound(file.entries)'
    BY <2>1 DEF Consistent, Typed, HeldSound, HeldEntries, Sound
  <2>3. \A c \in Callers : CallSound(c)' /\ ReplySound(c)'
    BY <2>1, CallKept
  <2> QED  BY <2>2, <2>3 DEF Consistent
<1> QED  BY <1>1, <1>2

\* Every entry, wherever it is kept, is the whole of one content for the type
\* of its key (put, Restore, replayable, and what a 304 replays).
THEOREM EntriesAreSound == Spec => []Consistent
BY InitConsistent, StepConsistent, PTL DEF Spec

-----------------------------------------------------------------------------
(* The refinement.                                                         *)

Asked == [c \in Callers |-> IF at[c] = "idle" THEN None ELSE call[c].url]
Answer == [c \in Callers |-> IF at[c] = "replied" THEN Given(c) ELSE None]

\* What a caller is given for a sound reply is one content and its own Link.
GivenIsOne ==
    \A c \in Callers : at[c] = "replied" =>
        Given(c) = [of |-> reply[c].of, link |-> LinkOf[reply[c].of]]

LEMMA GivenHolds == Consistent => GivenIsOne
<1> SUFFICES ASSUME Consistent, NEW c \in Callers, at[c] = "replied"
             PROVE  Given(c) = [of |-> reply[c].of, link |-> LinkOf[reply[c].of]]
  BY DEF GivenIsOne
<1>1. CallSound(c) /\ ReplySound(c) /\ release \in Releases
  BY DEF Consistent, Typed
<1>2. CASE reply[c].status = "ok"
  BY <1>1, <1>2 DEF ReplySound, Given
<1>3. CASE reply[c].status = "not_modified"
  <2>1. /\ saved[c] # None /\ saved[c].etag = reply[c].of
        /\ reply[c].link \in {NoLink, LinkOf[reply[c].of]}
    BY <1>1, <1>3 DEF ReplySound
  <2>2. Sound(KeyOf(c), saved[c]) /\ KeyOf(c).typ = ShapeOf[release][call[c].type]
    <3>1. call[c].url \in Urls /\ call[c].type \in Types
      BY <1>1 DEF CallSound
    <3> QED  BY <1>1, <3>1, KeyType DEF CallSound, KeyOf
  <2>3. Decoded(c, saved[c].body) = reply[c].of /\ saved[c].link = LinkOf[reply[c].of]
    BY <2>1, <2>2 DEF Decoded, Sound
  <2>4. (IF reply[c].link = NoLink THEN saved[c].link ELSE reply[c].link)
            = LinkOf[reply[c].of]
    BY <2>1, <2>3
  <2> QED  BY <1>3, <2>1, <2>3, <2>4 DEF Given, Replayed
<1> QED  BY <1>1, <1>2, <1>3 DEF ReplySound, Replies

\* What GitHub answers now is what is asked of it now.
LEMMA ServeAnswers ==
    ASSUME Consistent, Consistent', NEW c \in Callers, Serve(c)
    PROVE  Asked' = Asked /\ Answer[c] = None /\ Asked[c] # None
           /\ Answer' = [Answer EXCEPT ![c] = [of |-> github[Asked[c]],
                                               link |-> LinkOf[github[Asked[c]]]]]
<1>1. PICK r \in Answered(c) : reply' = [reply EXCEPT ![c] = r]
  BY DEF Serve
<1>2. /\ at[c] = "asked" /\ at' = [at EXCEPT ![c] = "replied"]
      /\ UNCHANGED <<github, release, call, saved>>
  BY DEF Serve, process
<1>3. r.of = github[call[c].url] /\ at'[c] = "replied" /\ reply'[c] = r
  BY <1>1, <1>2, AnsweredSound DEF Consistent, Typed
<1>4. Given(c)' = [of |-> r.of, link |-> LinkOf[r.of]]
  <2>1. (Consistent => GivenIsOne)'
    BY GivenHolds, PTL
  <2> QED  BY <1>3, <2>1 DEF GivenIsOne
<1>5. call[c].url \in Urls
  BY <1>2 DEF Consistent, CallSound
<1>6. Asked' = Asked /\ Answer[c] = None /\ Asked[c] = call[c].url /\ Asked[c] # None
  BY <1>2, <1>5, NoneAssumption, ClientAssumption DEF Asked, Answer, Consistent, Typed
<1>7. ASSUME NEW d \in Callers, d # c PROVE Answer'[d] = Answer[d]
  BY <1>1, <1>2, <1>7, ZenonT(40)
     DEF Answer, Given, Replayed, Decoded, Consistent, Typed
<1>8. Answer'[c] = Given(c)'
  BY <1>3 DEF Answer
<1> QED  BY <1>3, <1>4, <1>6, <1>7, <1>8, ZenonT(60) DEF Answer


\* A call that is over has no answer left, and no other call's has changed.
LEMMA DoneReturns ==
    ASSUME Consistent, NEW c \in Callers, Done(c), release' = release, at[c] # "idle"
    PROVE  /\ Asked[c] # None
           /\ Asked' = [Asked EXCEPT ![c] = None] /\ Answer' = [Answer EXCEPT ![c] = None]
<1>1. call[c].url \in Urls /\ Asked[c] = call[c].url
  BY DEF Consistent, CallSound, Asked
<1>2. at'[c] = "idle"
  BY DEF Done, Consistent, Typed
<1>3. ASSUME NEW d \in Callers, d # c
      PROVE  at'[d] = at[d] /\ call'[d] = call[d] /\ saved'[d] = saved[d] /\ reply'[d] = reply[d]
  BY <1>3 DEF Done, Consistent, Typed
<1>4. ASSUME NEW d \in Callers, d # c PROVE Asked'[d] = Asked[d] /\ Answer'[d] = Answer[d]
  BY <1>3, <1>4, ZenonT(40) DEF Asked, Answer, Given, Replayed, Decoded
<1> QED  BY <1>1, <1>2, <1>4, NoneAssumption, ClientAssumption, ZenonT(60) DEF Asked, Answer

\* Asked and Answer are what Promised substitutes.
LEMMA PromisedSteps ==
    /\ Promised!Init <=> /\ github \in [Urls -> Contents]
                         /\ Asked = [c \in Callers |-> None]
                         /\ Answer = [c \in Callers |-> None]
    /\ \A u \in Urls : Promised!Edit(u) <=>
           /\ \E content \in Contents : github' = [github EXCEPT ![u] = content]
           /\ Asked' = Asked /\ Answer' = Answer
    /\ \A c \in Callers, u \in Urls : Promised!Ask(c, u) <=>
           Asked[c] = None /\ Asked' = [Asked EXCEPT ![c] = u]
                           /\ github' = github /\ Answer' = Answer
    /\ \A c \in Callers : Promised!Answer(c) <=>
           /\ Asked[c] # None /\ Answer[c] = None
           /\ Answer' = [Answer EXCEPT ![c] = [of |-> github[Asked[c]],
                                               link |-> LinkOf[github[Asked[c]]]]]
           /\ github' = github /\ Asked' = Asked
    /\ \A c \in Callers : Promised!Return(c) <=>
           /\ Asked[c] # None /\ github' = github
           /\ Asked' = [Asked EXCEPT ![c] = None] /\ Answer' = [Answer EXCEPT ![c] = None]
    /\ Promised!Stop <=> /\ Asked' = [c \in Callers |-> None]
                         /\ Answer' = [c \in Callers |-> None] /\ github' = github
    /\ UNCHANGED Promised!vars <=> github' = github /\ Asked' = Asked /\ Answer' = Answer
BY DEF Promised!Init, Promised!Edit, Promised!Ask, Promised!Answer, Promised!Return,
       Promised!Stop, Promised!Held, Promised!vars, Asked, Answer

LEMMA InitPromised == Init => Promised!Init
BY PromisedSteps DEF Init, Asked, Answer

LEMMA StepPromised ==
    Consistent /\ Consistent' /\ [Next]_vars => [Promised!Next]_(Promised!vars)
<1> SUFFICES ASSUME Consistent, Consistent', [Next]_vars
             PROVE  Promised!Next \/ UNCHANGED Promised!vars
  OBVIOUS
<1>1. ASSUME UNCHANGED <<github, release, call, saved, reply>>,
             \A d \in Callers : at'[d] = at[d] \/ {at[d], at'[d]} = {"asked", "pausing"}
      PROVE  UNCHANGED Promised!vars
  <2>1. \A d \in Callers : (at'[d] = "idle" <=> at[d] = "idle")
                           /\ (at'[d] = "replied" <=> at[d] = "replied")
    BY <1>1
  <2>2. Asked' = Asked
    BY <1>1, <2>1 DEF Asked
  <2>3. \A d \in Callers : Given(d)' = Given(d)
    BY <1>1 DEF Given, Replayed, Decoded
  <2>4. Answer' = Answer
    BY <2>1, <2>3 DEF Answer
  <2> QED  BY <1>1, <2>2, <2>4, PromisedSteps
<1>2. ASSUME NEW c \in Callers, NEW u \in Urls, NEW t \in Types, Ask(c, u, t)
      PROVE  Promised!Next
  <2>1. at[c] = "idle" /\ at' = [at EXCEPT ![c] = "asked"] /\ github' = github
    BY <1>2 DEF Ask
  <2>2. call' = [call EXCEPT ![c] = [url |-> u, type |-> t]] /\ release' = release
        /\ reply' = reply /\ saved' = [saved EXCEPT ![c] = Got(KeyFor(u, t))]
    BY <1>2 DEF Ask, process
  <2>3. Asked[c] = None /\ Asked' = [Asked EXCEPT ![c] = u]
    BY <2>1, <2>2 DEF Asked, Consistent, Typed
  <2>4. Answer' = Answer
    <3>1. ASSUME NEW d \in Callers PROVE Answer'[d] = Answer[d]
      BY <2>1, <2>2 DEF Answer, Given, Replayed, Decoded, Consistent, Typed
    <3> QED  BY <3>1 DEF Answer
  <2> QED  BY <2>1, <2>3, <2>4, PromisedSteps DEF Promised!Next
<1>3. ASSUME NEW c \in Callers, Serve(c) PROVE Promised!Next
  <2>1. github' = github
    BY <1>3 DEF Serve
  <2> QED  BY <1>3, <2>1, ServeAnswers, PromisedSteps DEF Promised!Next
<1>4. ASSUME NEW c \in Callers, Refuse(c) \/ GiveUp(c) \/ Return(c) PROVE Promised!Next
  <2>1. Done(c) /\ release' = release /\ github' = github /\ at[c] # "idle"
    BY <1>4 DEF Refuse, GiveUp, Return, process
  <2> QED  BY <2>1, DoneReturns, PromisedSteps DEF Promised!Next
<1>5. ASSUME NEW c \in Callers, AskedInVain(c) \/ SendAgain(c) PROVE UNCHANGED Promised!vars
  <2>1. UNCHANGED <<github, release, call, saved, reply>>
    BY <1>5 DEF AskedInVain, SendAgain, process
  <2>2. \A d \in Callers : at'[d] = at[d] \/ {at[d], at'[d]} = {"asked", "pausing"}
    BY <1>5 DEF AskedInVain, SendAgain, Consistent, Typed
  <2> QED  BY <1>1, <2>1, <2>2
<1>6. ASSUME Save \/ Load PROVE UNCHANGED Promised!vars
  BY <1>1, <1>6 DEF Save, Load, process, calls
<1>7. ASSUME NEW r \in Releases, Restart(r) PROVE Promised!Next
  <2>1. github' = github /\ Asked' = [c \in Callers |-> None]
        /\ Answer' = [c \in Callers |-> None]
    BY <1>7 DEF Restart, Asked, Answer
  <2> QED  BY <2>1, PromisedSteps DEF Promised!Next
<1>8. ASSUME NEW u \in Urls, Edit(u) PROVE Promised!Next
  <2>1. PICK content \in Contents : github' = [github EXCEPT ![u] = content]
    BY <1>8 DEF Edit
  <2>2. Asked' = Asked /\ Answer' = Answer
    BY <1>8 DEF Edit, process, calls, Asked, Answer, Given, Replayed, Decoded
  <2> QED  BY <2>1, <2>2, PromisedSteps DEF Promised!Next
<1>9. ASSUME UNCHANGED vars PROVE UNCHANGED Promised!vars
  BY <1>1, <1>9 DEF vars, process, calls
<1> QED  BY <1>2, <1>3, <1>4, <1>5, <1>6, <1>7, <1>8, <1>9 DEF Next

\* Every call is answered with what GitHub held while it was on, whatever the
\* cache evicted, the file kept and whichever release asks (GetJSON).
THEOREM AnswersAreHeld == Spec => AnswersHold
<1>1. Spec => Promised!Spec
  BY InitPromised, InitConsistent, StepConsistent, StepPromised, PTL DEF Spec, Promised!Spec
<1> QED  BY <1>1 DEF AnswersHold

-----------------------------------------------------------------------------
(* Lists of keys.                                                          *)

\* A list has each of some keys once, and no other.
Listed(q, S) ==
    /\ q \in Seq(Keys) /\ InFirst(q, Len(q)) = S
    /\ \A i, j \in 1 .. Len(q) : q[i] = q[j] => i = j

LEMMA ListedFinite ==
    ASSUME NEW q, NEW S, Listed(q, S)
    PROVE  IsFiniteSet(S) /\ Cardinality(S) = Len(q) /\ S \subseteq Keys
<1>1. Len(q) \in Nat /\ \A i \in 1 .. Len(q) : q[i] \in Keys
  BY LenProperties, ElementOfSeq DEF Listed
<1> DEFINE f == [i \in 1 .. Len(q) |-> q[i]]
<1>2. S = {q[i] : i \in 1 .. Len(q)}
  BY DEF Listed, InFirst
<1>3. f \in Bijection(1 .. Len(q), S)
  <2>1. f \in Injection(1 .. Len(q), S)
    BY <1>2 DEF Listed, Injection, IsInjective
  <2>2. f \in Surjection(1 .. Len(q), S)
    BY <1>2 DEF Surjection
  <2> QED  BY <2>1, <2>2 DEF Bijection
<1>4. IsFiniteSet(1 .. Len(q)) /\ Cardinality(1 .. Len(q)) = Len(q)
  BY <1>1, FS_Interval
<1>5. ExistsBijection(1 .. Len(q), S)
  BY <1>3, Zenon DEF ExistsBijection
<1>6. IsFiniteSet(S) /\ Cardinality(S) = Cardinality(1 .. Len(q))
  BY <1>4, <1>5, FS_Bijection, Zenon
<1> QED  BY <1>1, <1>2, <1>4, <1>6

\* How many of some places there are up to one tells them apart, and counts
\* to how many there are.
LEMMA Counted ==
    ASSUME NEW n \in Nat, NEW places \in SUBSET (1 .. n)
    PROVE  LET Place(i) == Cardinality({x \in places : x <= i})
           IN  /\ Cardinality(places) \in Nat
               /\ \A i \in places : Place(i) \in 1 .. Cardinality(places)
               /\ \A i, j \in places : Place(i) = Place(j) => i = j
               /\ \A m \in 1 .. Cardinality(places) : \E i \in places : Place(i) = m
<1> DEFINE Upto(i) == {x \in places : x <= i}
           rank == [i \in places |-> Cardinality(Upto(i))]
           most == Cardinality(places)
<1>1. IsFiniteSet(1 .. n)
  BY FS_Interval
<1>2. IsFiniteSet(places)
  BY <1>1, FS_Subset
<1>3. most \in Nat
  BY <1>2, FS_CardinalityType
<1>4. \A i \in places : IsFiniteSet(Upto(i)) /\ Cardinality(Upto(i)) <= most
  <2>1. SUFFICES ASSUME NEW i \in places PROVE IsFiniteSet(Upto(i)) /\ Cardinality(Upto(i)) <= most
    OBVIOUS
  <2>2. Upto(i) \in SUBSET places
    OBVIOUS
  <2> HIDE DEF Upto
  <2> QED  BY <1>2, <2>2, FS_Subset
<1>5. \A i \in places : Cardinality(Upto(i)) \in 1 .. most
  <2>1. SUFFICES ASSUME NEW i \in places PROVE Cardinality(Upto(i)) \in 1 .. most
    OBVIOUS
  <2>2. i \in Upto(i)
    OBVIOUS
  <2> HIDE DEF Upto, most
  <2>3. Cardinality(Upto(i)) \in Nat /\ Cardinality(Upto(i)) # 0
    BY <1>4, <2>2, FS_CardinalityType, FS_EmptySet
  <2> QED  BY <1>3, <1>4, <2>3
<1>6. \A i, j \in places : i < j => Cardinality(Upto(i)) # Cardinality(Upto(j))
  <2>1. SUFFICES ASSUME NEW i \in places, NEW j \in places, i < j
                 PROVE  Cardinality(Upto(i)) # Cardinality(Upto(j))
    OBVIOUS
  <2>2. Upto(i) \in SUBSET Upto(j) /\ j \in Upto(j) /\ j \notin Upto(i)
    <3>1. \A x \in places : x \in Nat
      OBVIOUS
    <3>2. \A x \in places : x <= i => x <= j
      BY <2>1, <3>1
    <3>3. i <= i /\ j <= j /\ ~ (j <= i)
      BY <2>1, <3>1
    <3> QED  BY <3>2, <3>3, Zenon
  <2> HIDE DEF Upto
  <2>3. Upto(i) # Upto(j) /\ IsFiniteSet(Upto(j))
    BY <1>4, <2>2
  <2>4. Cardinality(Upto(j)) = Cardinality(Upto(i)) => Upto(j) = Upto(i)
    BY <2>2, <2>3, FS_Subset, Zenon
  <2> QED  BY <2>3, <2>4
<1>7. \A i, j \in places : Cardinality(Upto(i)) = Cardinality(Upto(j)) => i = j
  <2>1. \A i, j \in places : i < j \/ j < i \/ i = j
    OBVIOUS
  <2> HIDE DEF Upto
  <2> QED  BY <1>6, <2>1, Zenon
<1> HIDE DEF Upto, most
<1>8. rank \in Injection(places, 1 .. most)
  BY <1>5, <1>7 DEF rank, Injection, IsInjective
<1>9. IsFiniteSet(1 .. most) /\ Cardinality(1 .. most) = most
  BY <1>3, FS_Interval
<1> HIDE DEF rank
<1>10. rank \in Surjection(places, 1 .. most)
  BY <1>8, <1>9, FS_Injection DEF most
<1>11. \A m \in 1 .. most : \E i \in places : Cardinality(Upto(i)) = m
  BY <1>10 DEF Surjection, rank
<1> QED  BY <1>3, <1>5, <1>7, <1>11 DEF Upto, most

LEMMA OnlyListed ==
    ASSUME NEW q, NEW S, Listed(q, S), NEW wanted
    PROVE  Listed(Only(q, wanted), S \cap wanted)
<1> DEFINE places == {i \in 1 .. Len(q) : q[i] \in wanted}
           Place(i) == Cardinality({x \in places : x <= i})
           most == Cardinality(places)
           pick == [m \in 1 .. most |-> CHOOSE i \in places : Place(i) = m]
           only == [m \in 1 .. most |-> q[pick[m]]]
<1>1. Len(q) \in Nat /\ \A i \in 1 .. Len(q) : q[i] \in Keys
  BY LenProperties, ElementOfSeq DEF Listed
<1>2. only = Only(q, wanted)
  BY DEF Only
<1>3. places \in SUBSET (1 .. Len(q))
  OBVIOUS
<1>4. /\ most \in Nat
      /\ \A i \in places : Place(i) \in 1 .. most
      /\ \A i, j \in places : Place(i) = Place(j) => i = j
      /\ \A m \in 1 .. most : \E i \in places : Place(i) = m
  <2> HIDE DEF places
  <2> QED  BY <1>1, <1>3, Counted
<1> HIDE DEF Place
<1>5. \A m \in 1 .. most : pick[m] \in places /\ Place(pick[m]) = m
  <2> HIDE DEF places, most
  <2> SUFFICES ASSUME NEW m \in 1 .. most PROVE pick[m] \in places /\ Place(pick[m]) = m
    OBVIOUS
  <2>1. pick[m] = CHOOSE i \in places : Place(i) = m
    OBVIOUS
  <2>2. \E i \in places : Place(i) = m
    BY <1>4
  <2> QED  BY <2>1, <2>2
<1>6. \A i \in places : pick[Place(i)] = i
  <2> HIDE DEF places, most, pick
  <2> QED  BY <1>4, <1>5
<1> HIDE DEF pick
<1>7. \A m \in 1 .. most : only[m] = q[pick[m]] /\ pick[m] \in 1 .. Len(q) /\ q[pick[m]] \in wanted
  <2> HIDE DEF most
  <2> QED  BY <1>5
<1>8. only \in Seq(Keys) /\ Len(only) = most
  <2>1. only \in [1 .. most -> Keys]
    <3> HIDE DEF most, places
    <3> QED  BY <1>1, <1>7
  <2> HIDE DEF only, most
  <2> QED  BY <1>4, <2>1
<1>9. InFirst(only, most) = S \cap wanted
  <2>1. S = {q[i] : i \in 1 .. Len(q)}
    BY DEF Listed, InFirst
  <2>2. \A k \in S \cap wanted : \E m \in 1 .. most : only[m] = k
    <3> SUFFICES ASSUME NEW k \in S \cap wanted PROVE \E m \in 1 .. most : only[m] = k
      OBVIOUS
    <3>1. PICK i \in 1 .. Len(q) : q[i] = k
      BY <2>1
    <3>2. i \in places
      BY <3>1
    <3> HIDE DEF places, most, only
    <3>3. Place(i) \in 1 .. most /\ only[Place(i)] = k
      BY <1>4, <1>6, <1>7, <3>1, <3>2
    <3> QED  BY <3>3
  <2> HIDE DEF places, most, only
  <2>3. \A m \in 1 .. most : only[m] \in S \cap wanted
    BY <1>7, <2>1
  <2> QED  BY <2>2, <2>3 DEF InFirst
<1>10. \A i, j \in 1 .. most : only[i] = only[j] => i = j
  <2> HIDE DEF places, most, only
  <2> SUFFICES ASSUME NEW i \in 1 .. most, NEW j \in 1 .. most, only[i] = only[j] PROVE i = j
    OBVIOUS
  <2>1. pick[i] = pick[j]
    BY <1>7 DEF Listed
  <2> QED  BY <1>5, <2>1
<1> HIDE DEF only, most
<1> QED  BY <1>2, <1>8, <1>9, <1>10 DEF Listed

LEMMA FirstListed ==
    ASSUME NEW q, NEW S, Listed(q, S), NEW n \in 0 .. Len(q)
    PROVE  Listed(SubSeq(q, 1, n), InFirst(q, n)) /\ InFirst(q, n) \subseteq S
<1>1. Len(q) \in Nat /\ \A i \in 1 .. Len(q) : q[i] \in Keys
  BY LenProperties, ElementOfSeq DEF Listed
<1>2. /\ SubSeq(q, 1, n) \in Seq(Keys) /\ Len(SubSeq(q, 1, n)) = n
      /\ \A i \in 1 .. n : SubSeq(q, 1, n)[i] = q[i]
  <2>1. n \in Int /\ 1 \in Int /\ \A i \in 1 .. n : q[i] \in Keys
    BY <1>1
  <2>2. /\ SubSeq(q, 1, n) \in Seq(Keys)
        /\ Len(SubSeq(q, 1, n)) = IF 1 <= n THEN n - 1 + 1 ELSE 0
        /\ \A i \in 1 .. n - 1 + 1 : SubSeq(q, 1, n)[i] = q[1 + i - 1]
    BY <2>1, SubSeqProperties
  <2> QED  BY <1>1, <2>2
<1>3. InFirst(SubSeq(q, 1, n), n) = InFirst(q, n)
  BY <1>2 DEF InFirst
<1>4. \A i, j \in 1 .. n : SubSeq(q, 1, n)[i] = SubSeq(q, 1, n)[j] => i = j
  BY <1>1, <1>2 DEF Listed
<1>5. InFirst(q, n) \subseteq S
  BY <1>1 DEF Listed, InFirst
<1> QED  BY <1>2, <1>3, <1>4, <1>5 DEF Listed

LEMMA JoinListed ==
    ASSUME NEW q, NEW S, Listed(q, S), NEW r, NEW T, Listed(r, T), S \cap T = {}
    PROVE  Listed(q \o r, S \cup T)
<1>1. /\ q \in Seq(Keys) /\ Len(q) \in Nat
      /\ r \in Seq(Keys) /\ Len(r) \in Nat
  BY LenProperties DEF Listed
<1>2. /\ q \o r \in Seq(Keys) /\ Len(q \o r) = Len(q) + Len(r)
      /\ \A i \in 1 .. Len(q) + Len(r) : (q \o r)[i] = IF i <= Len(q) THEN q[i] ELSE r[i - Len(q)]
  BY <1>1, ConcatProperties
<1>3. S = {q[i] : i \in 1 .. Len(q)} /\ T = {r[i] : i \in 1 .. Len(r)}
  BY DEF Listed, InFirst
<1> DEFINE all == q \o r
<1>a. Len(all) = Len(q) + Len(r) /\ all \in Seq(Keys)
      /\ \A i \in 1 .. Len(q) + Len(r) : all[i] = IF i <= Len(q) THEN q[i] ELSE r[i - Len(q)]
  BY <1>2
<1> HIDE DEF all
<1>4. /\ \A i \in 1 .. Len(q) : i \in 1 .. Len(q) + Len(r) /\ all[i] = q[i]
      /\ \A i \in 1 .. Len(r) : Len(q) + i \in 1 .. Len(q) + Len(r) /\ all[Len(q) + i] = r[i]
  <2>1. \A i \in 1 .. Len(q) : i \in 1 .. Len(q) + Len(r) /\ i <= Len(q)
    BY <1>1
  <2>2. \A i \in 1 .. Len(r) : /\ Len(q) + i \in 1 .. Len(q) + Len(r) /\ ~ (Len(q) + i <= Len(q))
                               /\ Len(q) + i - Len(q) = i
    BY <1>1
  <2> QED  BY <1>a, <2>1, <2>2
<1>5. \A i \in 1 .. Len(q) + Len(r) : \/ i \in 1 .. Len(q) /\ all[i] = q[i] /\ all[i] \in S
                                      \/ i - Len(q) \in 1 .. Len(r) /\ all[i] = r[i - Len(q)] /\ all[i] \in T
  BY <1>1, <1>a, <1>3
<1>6. InFirst(all, Len(all)) = S \cup T
  <2>1. InFirst(all, Len(all)) = {all[i] : i \in 1 .. Len(q) + Len(r)}
    BY <1>a DEF InFirst
  <2>2. \A k \in S \cup T : \E i \in 1 .. Len(q) + Len(r) : all[i] = k
    BY <1>3, <1>4
  <2>3. \A i \in 1 .. Len(q) + Len(r) : all[i] \in S \cup T
    BY <1>5
  <2> QED  BY <2>1, <2>2, <2>3
<1>7. \A i, j \in 1 .. Len(all) : all[i] = all[j] => i = j
  <2> SUFFICES ASSUME NEW i \in 1 .. Len(q) + Len(r), NEW j \in 1 .. Len(q) + Len(r), all[i] = all[j]
               PROVE  i = j
    BY <1>a
  <2>1. CASE i \in 1 .. Len(q) /\ all[i] = q[i] /\ all[i] \in S
    <3>1. j \in 1 .. Len(q) /\ all[j] = q[j]
      BY <1>5, <2>1
    <3> QED  BY <2>1, <3>1 DEF Listed
  <2>2. CASE i - Len(q) \in 1 .. Len(r) /\ all[i] = r[i - Len(q)] /\ all[i] \in T
    <3>1. j - Len(q) \in 1 .. Len(r) /\ all[j] = r[j - Len(q)]
      BY <1>5, <2>2
    <3>2. i - Len(q) = j - Len(q)
      BY <2>2, <3>1 DEF Listed
    <3> QED  BY <1>1, <3>2
  <2> QED  BY <1>5, <2>1, <2>2
<1> QED  BY <1>a, <1>6, <1>7 DEF Listed, all

LEMMA FrontListed ==
    ASSUME NEW q, NEW S, Listed(q, S), NEW k \in Keys
    PROVE  Listed(ToFront(q, k), S \cup {k}) /\ Listed(Without(q, k), S \ {k})
<1>1. Listed(<<k>>, {k})
  BY DEF Listed, InFirst
<1>2. Listed(Without(q, k), S \cap (Keys \ {k})) /\ S \subseteq Keys
  BY OnlyListed, ListedFinite DEF Without
<1>3. S \cap (Keys \ {k}) = S \ {k}
  BY <1>2
<1>4. Listed(ToFront(q, k), {k} \cup (S \ {k}))
  BY <1>1, <1>2, <1>3, JoinListed DEF ToFront
<1>5. {k} \cup (S \ {k}) = S \cup {k}
  OBVIOUS
<1> QED  BY <1>2, <1>3, <1>4, <1>5

-----------------------------------------------------------------------------
(* What entries weigh.                                                     *)

Weight(held, k) == Bytes[held[k].body.of]
Weighed(held, keys) == IsFiniteSet(keys) /\ \A k \in keys : Weight(held, k) \in Nat
Unit(held, k) == {k} \X (1 .. Weight(held, k))
Units(held, keys) == UNION {Unit(held, k) : k \in keys}

LEMMA SizeIs == \A held, keys : SizeOf(held, keys) = Cardinality(Units(held, keys))
BY DEF SizeOf, Units, Unit, Weight

LEMMA UnitSize ==
    ASSUME NEW held, NEW k, Weight(held, k) \in Nat
    PROVE  IsFiniteSet(Unit(held, k)) /\ Cardinality(Unit(held, k)) = Weight(held, k)
<1> DEFINE n == Weight(held, k)
<1>1. IsFiniteSet(1 .. n) /\ Cardinality(1 .. n) = n
  BY FS_Interval
<1>2. IsFiniteSet({k}) /\ Cardinality({k}) = 1
  BY FS_Singleton
<1> HIDE DEF n
<1>3. IsFiniteSet({k} \X (1 .. n)) /\ Cardinality({k} \X (1 .. n)) = 1 * n
  BY <1>1, <1>2, FS_Product, ZenonT(40)
<1>4. n \in Nat
  BY DEF n
<1> QED  BY <1>3, <1>4 DEF Unit, n

LEMMA SizeType ==
    ASSUME NEW held, NEW keys, Weighed(held, keys)
    PROVE  IsFiniteSet(Units(held, keys)) /\ SizeOf(held, keys) \in Nat
<1> DEFINE family == {Unit(held, k) : k \in keys}
           f == [k \in keys |-> Unit(held, k)]
<1>1. f \in Surjection(keys, family)
  BY DEF Surjection
<1>2. \A u \in family : IsFiniteSet(u)
  BY UnitSize DEF Weighed
<1> HIDE DEF f
<1>3. IsFiniteSet(family)
  <2> HIDE DEF family
  <2> QED  BY <1>1, FS_Surjection DEF Weighed
<1>4. IsFiniteSet(UNION family)
  <2> HIDE DEF family
  <2> QED  BY <1>2, <1>3, FS_UNION
<1>5. IsFiniteSet(Units(held, keys))
  BY <1>4 DEF Units
<1> QED  BY <1>5, FS_CardinalityType, SizeIs

LEMMA SizeJoin ==
    ASSUME NEW held, NEW A, NEW B, Weighed(held, A), Weighed(held, B), A \cap B = {}
    PROVE  SizeOf(held, A \cup B) = SizeOf(held, A) + SizeOf(held, B)
<1>1. Units(held, A \cup B) = Units(held, A) \cup Units(held, B)
  BY DEF Units
<1>2. Units(held, A) \cap Units(held, B) = {}
  <2>1. \A keys : \A u \in Units(held, keys) : \E k \in keys : u \in Unit(held, k)
    BY DEF Units
  <2>2. \A k : \A u \in Unit(held, k) : u[1] = k
    BY DEF Unit
  <2> QED  BY <2>1, <2>2
<1>3. IsFiniteSet(Units(held, A)) /\ IsFiniteSet(Units(held, B))
  BY SizeType
<1>4. SizeOf(held, A) \in Nat /\ SizeOf(held, B) \in Nat
  BY SizeType
<1>5. Cardinality(Units(held, A) \cup Units(held, B))
        = Cardinality(Units(held, A)) + Cardinality(Units(held, B)) - Cardinality({})
  BY <1>2, <1>3, FS_Union
<1>6. /\ SizeOf(held, A \cup B) = Cardinality(Units(held, A) \cup Units(held, B))
      /\ SizeOf(held, A) = Cardinality(Units(held, A))
      /\ SizeOf(held, B) = Cardinality(Units(held, B))
  BY <1>1, SizeIs, Zenon
<1>7. Cardinality({}) = 0
  BY FS_EmptySet
<1> QED  BY <1>4, <1>5, <1>6, <1>7

LEMMA SizeOne ==
    ASSUME NEW held, NEW k, Weight(held, k) \in Nat
    PROVE  Weighed(held, {k}) /\ SizeOf(held, {k}) = Weight(held, k)
<1>1. Units(held, {k}) = Unit(held, k)
  BY DEF Units
<1> QED  BY <1>1, UnitSize, SizeIs, FS_Singleton DEF Weighed

LEMMA SizeNone == \A held : Weighed(held, {}) /\ SizeOf(held, {}) = 0
<1>1. \A held : Units(held, {}) = {}
  BY DEF Units
<1> QED  BY <1>1, SizeIs, FS_EmptySet DEF Weighed

LEMMA SizeSame ==
    ASSUME NEW held, NEW other, NEW keys, Weighed(held, keys), \A k \in keys : held[k] = other[k]
    PROVE  Weighed(other, keys) /\ SizeOf(other, keys) = SizeOf(held, keys)
<1>1. \A k \in keys : Weight(other, k) = Weight(held, k)
  BY DEF Weight
<1>2. \A k \in keys : Unit(other, k) = Unit(held, k)
  BY <1>1 DEF Unit
<1>3. Units(other, keys) = Units(held, keys)
  BY <1>2 DEF Units
<1> QED  BY <1>1, <1>3, SizeIs DEF Weighed

LEMMA SizeLess ==
    ASSUME NEW held, NEW keys, Weighed(held, keys), NEW k \in keys
    PROVE  /\ Weighed(held, keys \ {k})
           /\ SizeOf(held, keys) = SizeOf(held, keys \ {k}) + Weight(held, k)
<1> DEFINE others == keys \ {k}
<1>1. Weighed(held, others)
  BY FS_RemoveElement DEF Weighed
<1>2. Weighed(held, {k}) /\ SizeOf(held, {k}) = Weight(held, k)
  BY SizeOne DEF Weighed
<1>3. keys = others \cup {k} /\ others \cap {k} = {}
  OBVIOUS
<1> HIDE DEF others
<1>4. SizeOf(held, others \cup {k}) = SizeOf(held, others) + SizeOf(held, {k})
  BY <1>1, <1>2, <1>3, SizeJoin
<1>5. SizeOf(held, keys) = SizeOf(held, others) + Weight(held, k)
  BY <1>2, <1>3, <1>4, Zenon
<1> QED  BY <1>1, <1>5 DEF others

\* The largest of some numbers, when there is one at all.
LEMMA Maximum ==
    ASSUME NEW n \in Nat, NEW S \in SUBSET (0 .. n), S # {}
    PROVE  Max(S) \in S /\ \A m \in S : m <= Max(S)
<1> DEFINE R == OpToRel(<, Nat)
           T == {n - m : m \in S}
<1>1. \A x, y \in Nat : <<x, y>> \in R <=> x < y
  BY DEF OpToRel
<1>2. IsWellFoundedOn(R, Nat)
  BY NatLessThanWellFounded
<1>3. T \in SUBSET Nat /\ T # {}
  <2>1. \A m \in 0 .. n : n - m \in Nat
    OBVIOUS
  <2>2. \A t \in T : t \in Nat
    BY <2>1
  <2>3. \E t : t \in T
    OBVIOUS
  <2> QED  BY <2>2, <2>3
<1> HIDE DEF R, T
<1>4. PICK t \in T : \A y \in T : ~ (<<y, t>> \in R)
  BY <1>2, <1>3, WFMin
<1>5. \A y \in T : ~ (y < t)
  BY <1>1, <1>3, <1>4
<1>6. PICK m \in S : t = n - m
  BY DEF T
<1>7. \A x \in S : x <= m
  <2> SUFFICES ASSUME NEW x \in S PROVE x <= m
    OBVIOUS
  <2>1. n - x \in T
    BY DEF T
  <2>2. ~ (n - x < n - m)
    BY <1>5, <1>6, <2>1
  <2> QED  BY <2>2
<1>8. \E x \in S : \A y \in S : x >= y
  BY <1>7
<1>9. Max(S) \in S /\ \A y \in S : Max(S) >= y
  BY <1>8 DEF Max
<1> QED  BY <1>9

-----------------------------------------------------------------------------
(* The books of the cache and of its file.                                 *)

Present(held) == {k \in Keys : held[k] # None}

\* The cache's list and its index hold the same keys, and its count is theirs.
CacheBooks ==
    /\ Listed(order, Present(entries))
    /\ bytes = SizeOf(entries, Present(entries)) /\ bytes <= Limit

\* So do the list and the entries of the file.
FileBooks == Listed(file.order, Present(file.entries))

LEMMA HeldWeighed ==
    ASSUME NEW held \in HeldEntries
    PROVE  /\ \A k \in Present(held) : Weight(held, k) \in Nat
           /\ \A q, S : Listed(q, S) /\ S \subseteq Present(held) => Weighed(held, S)
<1>1. \A k \in Present(held) : held[k] \in Entries
  BY DEF HeldEntries, Present
<1>2. \A k \in Present(held) : Weight(held, k) \in Nat
  BY <1>1, ClientAssumption DEF Entries, Bodies, Weight
<1> QED  BY <1>2, ListedFinite DEF Weighed

LEMMA DropBooks ==
    ASSUME entries \in HeldEntries, CacheBooks, NEW k \in Keys, Drop(k)
    PROVE  CacheBooks'
<1> DEFINE S == Present(entries)
<1>1. /\ order' = Without(order, k) /\ entries' = [entries EXCEPT ![k] = None]
      /\ bytes' = IF entries[k] = None THEN bytes ELSE bytes - Weight(entries, k)
  BY DEF Drop, Weight
<1>2. Present(entries') = S \ {k} /\ \A x \in S \ {k} : entries[x] = entries'[x]
  BY <1>1 DEF Present, HeldEntries
<1>3. Listed(order', S \ {k})
  BY <1>1, FrontListed DEF CacheBooks
<1>4. Weighed(entries, S)
  BY HeldWeighed DEF CacheBooks
<1>5. Weighed(entries, S \ {k}) /\ bytes' = SizeOf(entries, S \ {k}) /\ bytes' <= Limit
  <2>1. bytes = SizeOf(entries, S) /\ bytes <= Limit /\ Limit \in Nat
    BY ClientAssumption DEF CacheBooks
  <2>2. CASE entries[k] = None
    <3>1. S \ {k} = S
      BY <2>2 DEF Present
    <3> QED  BY <1>1, <1>4, <2>1, <2>2, <3>1
  <2>3. CASE entries[k] # None
    <3>1. k \in S
      BY <2>3 DEF Present
    <3> HIDE DEF S
    <3>2. Weighed(entries, S \ {k}) /\ SizeOf(entries, S) = SizeOf(entries, S \ {k}) + Weight(entries, k)
      BY <1>4, <3>1, SizeLess
    <3>3. SizeOf(entries, S \ {k}) \in Nat /\ Weight(entries, k) \in Nat
      BY <1>4, <3>1, <3>2, SizeType DEF Weighed
    <3> QED  BY <1>1, <2>1, <2>3, <3>2, <3>3
  <2> QED  BY <2>2, <2>3
<1>6. SizeOf(entries', S \ {k}) = SizeOf(entries, S \ {k})
  <2> HIDE DEF S
  <2> QED  BY <1>2, <1>5, SizeSame
<1> QED  BY <1>2, <1>3, <1>5, <1>6 DEF CacheBooks

\* With what was stored, and with as many of the most recent as fit.
LEMMA StoreBooks ==
    ASSUME entries \in HeldEntries, CacheBooks, NEW k \in Keys, NEW e \in Entries, Store(k, e)
    PROVE  CacheBooks'
<1> DEFINE held == [entries EXCEPT ![k] = e]
           keys == ToFront(order, k)
           S == Present(entries) \cup {k}
           total == bytes + Bytes[e.body.of]
                      - IF entries[k] = None THEN 0 ELSE Bytes[entries[k].body.of]
           fits == {m \in 0 .. Len(keys) :
                      total - SizeOf(held, InFirst(keys, Len(keys)) \ InFirst(keys, m)) <= Limit}
           n == Max(fits)
           rest == InFirst(keys, n)
           gone == InFirst(keys, Len(keys)) \ rest
<1>1. /\ entries' = [x \in Keys |-> IF x \in gone THEN None ELSE held[x]]
      /\ order' = SubSeq(keys, 1, n) /\ bytes' = total - SizeOf(held, gone)
  BY Zenon DEF Store, Staying
<1>2. held \in HeldEntries /\ Present(held) = S
  BY NoneAssumption DEF HeldEntries, Present
<1>3. Listed(keys, S) /\ InFirst(keys, Len(keys)) = S /\ Len(keys) \in Nat
  <2>1. Listed(keys, S)
    BY FrontListed DEF CacheBooks
  <2> QED  BY <2>1, LenProperties DEF Listed
<1>4. Weighed(held, S)
  <2> HIDE DEF held, keys, S
  <2> QED  BY <1>2, <1>3, HeldWeighed
<1>5. total = SizeOf(held, S)
  <2> DEFINE others == Present(entries) \ {k}
  <2>1. S \ {k} = others /\ k \in S /\ Weight(held, k) = Bytes[e.body.of]
    BY DEF Weight, HeldEntries
  <2>2. Weighed(entries, Present(entries))
    BY HeldWeighed DEF CacheBooks
  <2>3. Weighed(entries, others) /\ bytes = SizeOf(entries, others)
          + IF entries[k] = None THEN 0 ELSE Weight(entries, k)
    <3>1. bytes = SizeOf(entries, Present(entries))
      BY DEF CacheBooks
    <3>2. CASE entries[k] = None
      <4>1. others = Present(entries)
        BY <3>2 DEF Present
      <4>2. SizeOf(entries, Present(entries)) \in Nat
        BY <2>2, SizeType
      <4> HIDE DEF others
      <4> QED  BY <2>2, <3>1, <3>2, <4>1, <4>2
    <3>3. CASE entries[k] # None
      <4>1. k \in Present(entries)
        BY <3>3 DEF Present
      <4> QED  BY <2>2, <3>1, <3>3, <4>1, SizeLess
    <3> QED  BY <3>2, <3>3
  <2>4. \A x \in others : entries[x] = held[x]
    BY DEF HeldEntries, Present
  <2> HIDE DEF others, S, held
  <2>5. SizeOf(held, others) = SizeOf(entries, others) /\ SizeOf(entries, others) \in Nat
    BY <2>3, <2>4, SizeSame, SizeType
  <2>6. SizeOf(held, S) = SizeOf(held, others) + Weight(held, k) /\ Weight(held, k) \in Nat
    BY <1>4, <2>1, SizeLess DEF Weighed
  <2>7. entries[k] # None => Weight(entries, k) \in Nat
    BY HeldWeighed DEF Present
  <2>8. CASE entries[k] = None
    <3>1. bytes = SizeOf(entries, others)
      BY <2>3, <2>5, <2>8
    <3>2. total = bytes + Weight(held, k)
      BY <2>1, <2>5, <2>6, <2>8, <3>1
    <3> QED  BY <2>5, <2>6, <3>1, <3>2
  <2>9. CASE entries[k] # None
    <3>1. bytes = SizeOf(entries, others) + Weight(entries, k)
      BY <2>3, <2>9
    <3>2. total = bytes + (Weight(held, k) - Weight(entries, k))
      <4>1. (IF entries[k] = None THEN 0 ELSE Bytes[entries[k].body.of]) = Weight(entries, k)
        BY <2>9 DEF Weight
      <4> QED  BY <2>1, <4>1
    <3>3. Weight(entries, k) \in Nat
      BY <2>7, <2>9
    <3> HIDE DEF total
    <3> QED  BY <2>5, <2>6, <3>1, <3>2, <3>3
  <2> QED  BY <2>8, <2>9
<1>6. n \in 0 .. Len(keys) /\ total - SizeOf(held, gone) <= Limit
  <2>1. 0 \in fits
    <3>1. InFirst(keys, Len(keys)) \ InFirst(keys, 0) = S
      BY <1>3 DEF InFirst
    <3>2. SizeOf(held, S) \in Nat /\ Limit \in Nat
      BY <1>4, SizeType, ClientAssumption
    <3>3. SizeOf(held, InFirst(keys, Len(keys)) \ InFirst(keys, 0)) = total
      BY <1>5, <3>1, Zenon
    <3>4. total \in Nat
      BY <1>5, <3>2, Zenon
    <3> HIDE DEF held, keys, S, total
    <3>5. total - SizeOf(held, InFirst(keys, Len(keys)) \ InFirst(keys, 0)) <= Limit
      BY <3>2, <3>3, <3>4
    <3> QED  BY <1>3, <3>5
  <2>2. fits \in SUBSET (0 .. Len(keys))
    OBVIOUS
  <2>3. Max(fits) \in fits
    <3> HIDE DEF fits, keys
    <3> QED  BY <1>3, <2>1, <2>2, Maximum
  <2> HIDE DEF held, keys, total
  <2> QED  BY <2>3
<1> HIDE DEF n, fits
<1>7. Listed(order', rest) /\ rest \subseteq S
  <2> HIDE DEF keys, S, rest, held
  <2> QED  BY <1>1, <1>3, <1>6, FirstListed DEF rest
<1>8. gone = S \ rest
  BY <1>3
<1> HIDE DEF keys, rest, gone, S, total
<1>9. Present(entries') = rest /\ \A x \in rest : held[x] = entries'[x]
  <2> HIDE DEF held
  <2> QED  BY <1>1, <1>2, <1>7, <1>8 DEF Present
<1>10. Weighed(held, rest) /\ Weighed(held, gone)
  <2> HIDE DEF held
  <2>1. IsFiniteSet(rest) /\ IsFiniteSet(gone)
    BY <1>4, <1>7, <1>8, FS_Subset DEF Weighed
  <2> QED  BY <1>4, <1>7, <1>8, <2>1 DEF Weighed
<1> HIDE DEF held
<1>11. SizeOf(held, S) = SizeOf(held, rest) + SizeOf(held, gone)
  <2>1. S = rest \cup gone /\ rest \cap gone = {}
    BY <1>7, <1>8
  <2> QED  BY <1>10, <2>1, SizeJoin
<1>12. SizeOf(held, rest) \in Nat /\ SizeOf(held, gone) \in Nat /\ SizeOf(entries', rest) = SizeOf(held, rest)
  BY <1>9, <1>10, SizeType, SizeSame
<1> QED  BY <1>1, <1>5, <1>6, <1>7, <1>9, <1>11, <1>12 DEF CacheBooks

LEMMA PutBooks ==
    ASSUME entries \in HeldEntries, CacheBooks, NEW k \in Keys, NEW e \in Entries, Put(k, e)
    PROVE  CacheBooks'
BY DropBooks, StoreBooks DEF Put

\* A key asked for that is held is only moved.
LEMMA GetBooks ==
    ASSUME CacheBooks, NEW k \in Keys, Get(k), UNCHANGED <<entries, bytes>>
    PROVE  CacheBooks'
<1>1. entries' = entries /\ bytes' = bytes
  OBVIOUS
<1>2. Listed(order', Present(entries))
  <2>1. CASE entries[k] = None
    BY <2>1 DEF Get, CacheBooks
  <2>2. CASE entries[k] # None
    <3>1. Present(entries) \cup {k} = Present(entries)
      BY <2>2 DEF Present
    <3>2. Listed(ToFront(order, k), Present(entries) \cup {k})
      BY FrontListed DEF CacheBooks
    <3> QED  BY <2>2, <3>1, <3>2 DEF Get
  <2> QED  BY <2>1, <2>2
<1> QED  BY <1>1, <1>2 DEF CacheBooks

\* What is read back was not held, and fits beside what was.
LEMMA LoadBooks ==
    ASSUME entries \in HeldEntries, file.entries \in HeldEntries, CacheBooks, FileBooks, Load
    PROVE  CacheBooks' /\ FileBooks'
<1> DEFINE S == Present(entries)
           missing == {k \in Keys : entries[k] = None}
           new == Only(file.order, missing)
           fits == {i \in 0 .. Len(new) : bytes + SizeOf(file.entries, InFirst(new, i)) <= Limit}
           n == Max(fits)
           add == InFirst(new, n)
<1>1. /\ entries' = [k \in Keys |-> IF k \in add THEN file.entries[k] ELSE entries[k]]
      /\ order' = order \o SubSeq(new, 1, n)
      /\ bytes' = bytes + SizeOf(file.entries, add) /\ file' = file
  BY Zenon DEF Load
<1>2. Listed(new, Present(file.entries) \cap missing) /\ Len(new) \in Nat
  <2>1. Listed(new, Present(file.entries) \cap missing)
    BY OnlyListed DEF FileBooks
  <2> QED  BY <2>1, LenProperties DEF Listed
<1>3. bytes = SizeOf(entries, S) /\ bytes \in Nat /\ bytes <= Limit /\ Limit \in Nat /\ Listed(order, S)
      /\ Weighed(entries, S)
  <2>1. Weighed(entries, S)
    BY HeldWeighed DEF CacheBooks
  <2> HIDE DEF S
  <2> QED  BY <2>1, SizeType, ClientAssumption DEF CacheBooks, S
<1>4. n \in 0 .. Len(new) /\ bytes + SizeOf(file.entries, add) <= Limit
  <2>1. 0 \in fits
    <3>1. InFirst(new, 0) = {}
      BY DEF InFirst
    <3> HIDE DEF new
    <3>2. SizeOf(file.entries, InFirst(new, 0)) = 0
      BY <3>1, SizeNone, Zenon
    <3>3. bytes + SizeOf(file.entries, InFirst(new, 0)) <= Limit
      BY <1>3, <3>2
    <3> QED  BY <1>2, <3>3
  <2>2. fits \in SUBSET (0 .. Len(new))
    OBVIOUS
  <2>3. Max(fits) \in fits
    <3> HIDE DEF fits, new
    <3> QED  BY <1>2, <2>1, <2>2, Maximum
  <2> HIDE DEF new
  <2> QED  BY <2>3
<1> HIDE DEF n, fits
<1>5. Listed(SubSeq(new, 1, n), add) /\ add \subseteq Present(file.entries) \cap missing
  <2> HIDE DEF new, missing, add
  <2> QED  BY <1>2, <1>4, FirstListed DEF add
<1> HIDE DEF new, add
<1>6. /\ S \cap add = {} /\ Present(entries') = S \cup add
      /\ \A k \in S : entries[k] = entries'[k]
      /\ \A k \in add : file.entries[k] = entries'[k]
  BY <1>1, <1>5 DEF Present
<1>7. Listed(order', S \cup add)
  <2> HIDE DEF S
  <2> QED  BY <1>1, <1>3, <1>5, <1>6, JoinListed
<1>8. Weighed(file.entries, add)
  <2> HIDE DEF S, missing
  <2> QED  BY <1>5, HeldWeighed
<1> HIDE DEF S
<1>9. /\ Weighed(entries', S) /\ SizeOf(entries', S) = bytes
      /\ Weighed(entries', add) /\ SizeOf(entries', add) = SizeOf(file.entries, add)
  BY <1>3, <1>6, <1>8, SizeSame
<1>10. bytes' = SizeOf(entries', S \cup add)
  BY <1>1, <1>6, <1>9, SizeJoin
<1> QED  BY <1>1, <1>4, <1>6, <1>7, <1>10 DEF CacheBooks, FileBooks

\* What is written is listed as it was held.
LEMMA SaveBooks ==
    ASSUME CacheBooks, Save
    PROVE  CacheBooks' /\ FileBooks'
<1>1. PICK recent \in 0 .. Len(order) :
        file' = [order |-> Kept(recent),
                 entries |-> [k \in Keys |-> IF k \in InFirst(Kept(recent), Len(Kept(recent)))
                                             THEN entries[k] ELSE None]]
  BY Zenon DEF Save
<1> DEFINE asked == SubSeq(order, 1, recent)
           light == {k \in InFirst(asked, recent) : Bytes[entries[k].body.of] <= AnswerMost}
           small == Only(asked, light)
           fits  == {i \in 0 .. Len(small) : SizeOf(entries, InFirst(small, i)) <= FileMost}
           n     == Max(fits)
<1>2. Kept(recent) = SubSeq(small, 1, n)
  BY Zenon DEF Kept
<1>3. Listed(asked, InFirst(order, recent)) /\ InFirst(order, recent) \subseteq Present(entries)
  BY FirstListed DEF CacheBooks
<1>4. Listed(small, InFirst(order, recent) \cap light) /\ Len(small) \in Nat
  <2> HIDE DEF asked, light
  <2>1. Listed(small, InFirst(order, recent) \cap light)
    BY <1>3, OnlyListed
  <2> QED  BY <2>1, LenProperties DEF Listed
<1>5. n \in 0 .. Len(small)
  <2>1. 0 \in fits
    <3>1. InFirst(small, 0) = {}
      BY DEF InFirst
    <3> HIDE DEF small
    <3>2. SizeOf(entries, InFirst(small, 0)) = 0
      BY <3>1, SizeNone, Zenon
    <3>3. SizeOf(entries, InFirst(small, 0)) <= FileMost
      BY <3>2, ClientAssumption
    <3> QED  BY <1>4, <3>3
  <2>2. fits \in SUBSET (0 .. Len(small))
    OBVIOUS
  <2> HIDE DEF small
  <2>3. Max(fits) \in fits
    <3> HIDE DEF fits
    <3> QED  BY <1>4, <2>1, <2>2, Maximum
  <2> QED  BY <2>3
<1> HIDE DEF n, small, asked
<1>6. Listed(SubSeq(small, 1, n), InFirst(small, n)) /\ InFirst(small, n) \subseteq Present(entries)
  <2> HIDE DEF light
  <2>1. Listed(SubSeq(small, 1, n), InFirst(small, n))
        /\ InFirst(small, n) \subseteq InFirst(order, recent) \cap light
    BY <1>4, <1>5, FirstListed
  <2> QED  BY <1>3, <2>1
<1>7. InFirst(Kept(recent), Len(Kept(recent))) = InFirst(small, n)
  BY <1>2, <1>6 DEF Listed
<1>8. Present(file'.entries) = InFirst(small, n) /\ file'.order = Kept(recent)
  BY <1>1, <1>6, <1>7 DEF Present
<1>9. UNCHANGED <<entries, order, bytes>>
  BY DEF Save, cache
<1> QED  BY <1>2, <1>6, <1>8, <1>9 DEF CacheBooks, FileBooks

\* The inductive invariant of the books.
Books == Consistent /\ CacheBooks /\ FileBooks

LEMMA NothingListed == Listed(<<>>, {})
BY EmptySeq DEF Listed, InFirst

LEMMA EmptyBooks ==
    ASSUME NEW held, held = [k \in Keys |-> None]
    PROVE  Present(held) = {} /\ Listed(<<>>, Present(held)) /\ SizeOf(held, Present(held)) = 0
<1>1. Present(held) = {}
  BY DEF Present
<1> QED  BY <1>1, NothingListed, SizeNone

LEMMA InitBooks == Init => Books
<1> SUFFICES ASSUME Init PROVE Books
  OBVIOUS
<1>1. CacheBooks /\ FileBooks
  BY EmptyBooks, ClientAssumption DEF Init, CacheBooks, FileBooks
<1> QED  BY <1>1, InitConsistent DEF Books

LEMMA StepBooks == Books /\ [Next]_vars => Books'
<1> SUFFICES ASSUME Books, [Next]_vars PROVE Books'
  OBVIOUS
<1>1. Consistent' /\ Consistent /\ CacheBooks /\ FileBooks
      /\ entries \in HeldEntries /\ file.entries \in HeldEntries
  BY StepConsistent DEF Books, Consistent, HeldSound
<1>2. CASE UNCHANGED <<cache, file>>
  BY <1>1, <1>2 DEF cache, CacheBooks, FileBooks, Books
<1>3. CASE \E c \in Callers, u \in Urls, t \in Types : Ask(c, u, t)
  <2>1. PICK c \in Callers, u \in Urls, t \in Types : Ask(c, u, t)
    BY <1>3
  <2>2. KeyFor(u, t) \in Keys
    BY <1>1, KeyType DEF Consistent, Typed
  <2>3. Get(KeyFor(u, t)) /\ UNCHANGED <<entries, bytes, file>>
    BY <2>1 DEF Ask
  <2> QED  BY <1>1, <2>2, <2>3, GetBooks DEF FileBooks, Books
<1>4. CASE \E c \in Callers : Return(c)
  <2>1. PICK c \in Callers : Return(c)
    BY <1>4
  <2>2. CASE reply[c].status = "ok" /\ reply[c].tagged
    <3>1. PICK k \in Keys, e \in Entries : Put(k, e)
      BY <1>1, <2>1, <2>2, ReturnPuts
    <3>2. file' = file
      BY <2>1 DEF Return
    <3> QED  BY <1>1, <3>1, <3>2, PutBooks DEF FileBooks, Books
  <2>3. CASE ~ (reply[c].status = "ok" /\ reply[c].tagged)
    BY <1>2, <2>1, <2>3 DEF Return
  <2> QED  BY <2>2, <2>3
<1>5. CASE Save
  BY <1>1, <1>5, SaveBooks DEF Books
<1>6. CASE Load
  BY <1>1, <1>6, LoadBooks DEF Books
<1>7. CASE \E r \in Releases : Restart(r)
  <2>1. entries' = [k \in Keys |-> None] /\ order' = <<>> /\ bytes' = 0 /\ file' = file
    BY <1>7 DEF Restart
  <2> QED  BY <1>1, <2>1, EmptyBooks, ClientAssumption DEF CacheBooks, FileBooks, Books
<1>8. CASE \/ \E c \in Callers : Serve(c) \/ Refuse(c) \/ AskedInVain(c) \/ SendAgain(c) \/ GiveUp(c)
           \/ \E u \in Urls : Edit(u)
           \/ UNCHANGED vars
  BY <1>2, <1>8 DEF Serve, Refuse, AskedInVain, SendAgain, GiveUp, Edit, vars
<1> QED  BY <1>3, <1>4, <1>5, <1>6, <1>7, <1>8 DEF Next

\* The cache's list and its index hold the same keys, each once, and the bytes
\* it counts are theirs and within its limit (put, drop, evict, Restore).
THEOREM CacheIsInOrder == Spec => []CacheInOrder
<1>1. Books => CacheInOrder
  <2> SUFFICES ASSUME Books PROVE CacheInOrder
    OBVIOUS
  <2>1. InOrder = Present(entries) /\ Cardinality(InOrder) = Len(order)
    BY ListedFinite DEF Books, CacheBooks, InOrder, Listed
  <2>2. entries \in HeldEntries /\ at \in [Callers -> {"idle", "asked", "replied", "pausing"}]
    BY DEF Books, Consistent, Typed, HeldSound
  <2> QED  BY <2>1, <2>2 DEF Books, CacheBooks, CacheInOrder, HeldEntries, Present
<1> QED  BY <1>1, InitBooks, StepBooks, PTL DEF Spec

-----------------------------------------------------------------------------
(* Budget.                                                                 *)

Switches ==
    waits \in BOOLEAN /\ again \in BOOLEAN /\ vain \in BOOLEAN /\ read \in BOOLEAN

BudgetType ==
    /\ Switches
    /\ left \in 0 .. Window
    /\ rate \in Rates \cup {Unseen} /\ heard \in Rates \cup {Unseen}
    /\ stage \in {"idle", "asked", "replied", "pausing", "waiting"}
    /\ blind \in Nat /\ dark \in Nat /\ starts \in Nat

\* The answer at hand tells of this window.
Told == stage = "replied" /\ heard # Unseen /\ ~heard.past

\* Such an answer tells what is left, and one of a window that is over is at
\* hand only where none of the new one has been read.
HeardIsLeft ==
    /\ Told => heard.left = left
    /\ stage = "replied" /\ heard # Unseen /\ heard.past => ~read

\* So does the reading of a process that has read one of this window, while
\* none is at hand, but for what was charged since in the dark.
RateIsLeft ==
    read => /\ rate # Unseen /\ ~rate.past
            /\ ~Told => rate.left <= left + dark

\* Such a process asks only with more than the reserve left, as far as it knows.
AskedAbove == stage = "asked" /\ read /\ Reserve > 0 => left + dark > Held

\* What is charged blind is one request until an answer of the window is read.
BlindOnce ==
    /\ blind <= starts + 1
    /\ ~read /\ ~Told => blind <= starts

Braked == BudgetType /\ HeardIsLeft /\ RateIsLeft /\ AskedAbove /\ ReserveKept /\ BlindOnce

\* The share of the bucket that is kept back is a part of it.
LEMMA HeldType == Held \in 0 .. Window
BY BudgetAssumption DEF Held

\* What is over is a reading as before.
LEMMA OverType ==
    ASSUME NEW r \in Rates \cup {Unseen}
    PROVE  /\ Over(r) \in Rates \cup {Unseen}
           /\ r # Unseen => Over(r) # Unseen /\ Over(r).past
           /\ r = Unseen => Over(r) = Unseen
BY UnseenAssumption DEF Over, Rates

\* What the brake lets through, it lets through on what is left.
LEMMA ThroughAbove ==
    ASSUME Braked, Through, stage # "replied", left' = left, dark' = dark, Reserve > 0, read
    PROVE  left' + dark' > Held /\ rate' = rate
<1>1. rate # Unseen /\ ~rate.past /\ rate.left <= left + dark
  BY DEF Braked, RateIsLeft, Told
<1>2. rate.left \in Nat /\ left \in Nat /\ dark \in Nat /\ Held \in Nat
  BY <1>1, HeldType DEF Braked, BudgetType, Rates
<1> QED  BY <1>1, <1>2 DEF Through, Passes

LEMMA ThroughType ==
    ASSUME Braked, Through
    PROVE  /\ stage' = "asked"
           /\ rate' \in Rates \cup {Unseen}
           /\ read => rate' = rate
           /\ rate # Unseen => rate' # Unseen
<1>1. Window \in 0 .. Window
  BY BudgetAssumption
<1>2. rate \in Rates \cup {Unseen}
  BY DEF Braked, BudgetType
<1>3. CASE rate' = rate
  BY <1>2, <1>3 DEF Through
<1>4. CASE ~Passes(rate) /\ rate.past /\ rate' = [rate EXCEPT !.left = Window]
  <2>1. rate # Unseen
    BY <1>4 DEF Passes
  <2>2. rate' \in Rates
    BY <1>1, <1>2, <1>4, <2>1 DEF Rates
  <2>3. ~read
    BY <1>4 DEF Braked, RateIsLeft
  <2> QED  BY <2>1, <2>2, <2>3, UnseenAssumption DEF Through
<1> QED  BY <1>3, <1>4 DEF Through

LEMMA InitBraked == BudgetInit => Braked
<1>1. BudgetInit => Switches
  BY Zenon DEF BudgetInit, Switches
<1>2. BudgetInit => BudgetType
  BY <1>1, BudgetAssumption DEF BudgetInit, BudgetType
<1>3. BudgetInit => HeardIsLeft /\ RateIsLeft /\ AskedAbove /\ ReserveKept /\ BlindOnce
  BY HeldType, BudgetAssumption
     DEF BudgetInit, HeardIsLeft, RateIsLeft, AskedAbove, ReserveKept, BlindOnce, Told
<1> QED  BY <1>2, <1>3 DEF Braked

\* The brake lets a request through: the first, the retry, or after a wait.
LEMMA PassBraked ==
    ASSUME Braked, Request \/ Waited \/ Retry
    PROVE  Braked'
<1>1. /\ stage \in {"idle", "pausing", "waiting"} /\ Through
      /\ UNCHANGED <<left, waits, heard, vain, read, blind, dark, starts>> /\ again' \in BOOLEAN
  BY DEF Request, Waited, Retry, Braked, BudgetType, Switches
<1>2. /\ stage' = "asked" /\ rate' \in Rates \cup {Unseen}
      /\ read => rate' = rate
  BY <1>1, ThroughType
<1>3. AskedAbove'
  BY <1>1, ThroughAbove DEF AskedAbove, Held
<1>4. BudgetType'
  <2>1. Switches'
    BY <1>1, Zenon DEF Braked, BudgetType, Switches
  <2> QED  BY <1>1, <1>2, <2>1 DEF Braked, BudgetType
<1>5. HeardIsLeft' /\ RateIsLeft' /\ ReserveKept' /\ BlindOnce'
  BY <1>1, <1>2 DEF Braked, HeardIsLeft, RateIsLeft, ReserveKept, BlindOnce, Held, Told
<1> QED  BY <1>3, <1>4, <1>5 DEF Braked

\* The call ends, or waits, with nothing asked.
LEMMA StopBraked ==
    ASSUME Braked, RefuseRetry \/ Wait \/ Cancel
    PROVE  Braked'
<1>1. /\ stage # "replied" /\ stage' \in {"idle", "waiting"} /\ again' \in BOOLEAN
      /\ UNCHANGED <<left, waits, rate, heard, vain, read, blind, dark, starts>>
  BY DEF RefuseRetry, Wait, Cancel, CallOver
<1>2. BudgetType'
  <2>1. Switches'
    BY <1>1, Zenon DEF Braked, BudgetType, Switches
  <2> QED  BY <1>1, <2>1 DEF Braked, BudgetType
<1> QED
  BY <1>1, <1>2 DEF Braked, HeardIsLeft, RateIsLeft, AskedAbove, ReserveKept, BlindOnce, Held, Told

\* No answer, or a redirect: what was charged for it, if anything, is counted.
LEMMA UnansweredBraked == ASSUME Braked, NoAnswer \/ Redirect PROVE Braked'
<1>1. PICK cost \in {0, 1} :
        cost <= left /\ left' = left - cost /\ dark' = dark + cost
  <2>1. left \in Nat
    BY DEF Braked, BudgetType
  <2>2. CASE NoAnswer
    BY <2>2 DEF NoAnswer
  <2>3. CASE Redirect
    BY <2>1, <2>3 DEF Redirect
  <2> QED  BY <2>2, <2>3
<1>2. /\ stage = "asked" /\ stage' \in {"idle", "asked"} /\ again' \in BOOLEAN
      /\ UNCHANGED <<waits, rate, heard, vain, read, blind, starts>>
  BY DEF NoAnswer, Redirect, CallOver, Braked, BudgetType, Switches
<1>3. /\ left \in 0 .. Window /\ blind \in Nat /\ dark \in Nat /\ Window \in Nat
      /\ Held \in Nat /\ Held' = Held
  BY HeldType, BudgetAssumption DEF Braked, BudgetType, Held
<1>4. left' \in 0 .. Window /\ dark' \in Nat /\ left' + dark' = left + dark
  BY <1>1, <1>3
<1>5. BudgetType'
  <2>1. Switches'
    BY <1>2, Zenon DEF Braked, BudgetType, Switches
  <2> QED  BY <1>2, <1>4, <2>1 DEF Braked, BudgetType
<1>6. RateIsLeft'
  BY <1>2, <1>4 DEF Braked, RateIsLeft, Told
<1>7. ReserveKept' /\ AskedAbove'
  BY <1>2, <1>3, <1>4 DEF Braked, ReserveKept, AskedAbove
<1>8. HeardIsLeft' /\ BlindOnce'
  BY <1>2 DEF Braked, HeardIsLeft, BlindOnce, Told
<1> QED  BY <1>5, <1>6, <1>7, <1>8 DEF Braked

LEMMA ChargeBraked == ASSUME Braked, Charge PROVE Braked'
<1>1. PICK cost \in {0, 1}, tells \in BOOLEAN :
        /\ cost <= left /\ left' = left - cost
        /\ heard' = IF tells THEN [left |-> left - cost, past |-> FALSE] ELSE Unseen
        /\ vain' \in {FALSE, cost = 1}
        /\ blind' = IF tells /\ ~read THEN blind + cost ELSE blind
        /\ dark' = IF tells /\ read THEN dark ELSE dark + cost
  BY DEF Charge
<1>2. /\ stage = "asked" /\ stage' = "replied"
      /\ UNCHANGED <<waits, rate, again, read, starts>>
  BY DEF Charge
<1>3. /\ left \in 0 .. Window /\ blind \in Nat /\ dark \in Nat /\ starts \in Nat /\ Window \in Nat
      /\ Held \in Nat /\ Held' = Held
  BY HeldType, BudgetAssumption DEF Braked, BudgetType, Held
<1>4. left' \in 0 .. Window /\ blind' \in Nat /\ dark' \in Nat
  BY <1>1, <1>3
<1>5. /\ heard' \in Rates \cup {Unseen}
      /\ tells => heard' # Unseen /\ heard'.left = left' /\ ~heard'.past
      /\ ~tells => heard' = Unseen
  <2>1. CASE tells
    <3>1. heard' = [left |-> left', past |-> FALSE]
      BY <1>1, <2>1
    <3>2. [left |-> left', past |-> FALSE] \in Rates
      BY <1>4 DEF Rates
    <3>3. heard' \in Rates
      BY <3>1, <3>2, Zenon
    <3>4. heard'.left = left' /\ heard'.past = FALSE
      BY <3>1
    <3> QED  BY <2>1, <3>3, <3>4, UnseenAssumption
  <2>2. CASE ~tells
    BY <1>1, <2>2
  <2> QED  BY <2>1, <2>2
<1>6. Switches'
  <2>1. vain' \in BOOLEAN
    BY <1>1, Zenon
  <2> QED  BY <1>2, <2>1, Zenon DEF Braked, BudgetType, Switches
<1>7. BudgetType'
  BY <1>2, <1>4, <1>5, <1>6 DEF Braked, BudgetType
<1>8. HeardIsLeft' /\ AskedAbove'
  BY <1>2, <1>5 DEF Braked, HeardIsLeft, AskedAbove, Told
<1>9. RateIsLeft'
  <2>1. SUFFICES ASSUME read PROVE rate # Unseen /\ ~rate.past /\ (~Told' => rate.left <= left' + dark')
    BY <1>2 DEF RateIsLeft
  <2>2. rate # Unseen /\ ~rate.past /\ rate.left <= left + dark
    BY <1>2, <2>1 DEF Braked, RateIsLeft, Told
  <2>3. ~tells => left' + dark' = left + dark
    BY <1>1, <1>3
  <2>4. tells => Told'
    BY <1>2, <1>5 DEF Told
  <2> QED  BY <2>2, <2>3, <2>4
<1>10. ReserveKept'
  <2>1. SUFFICES ASSUME Reserve > 0 PROVE left' + dark' >= Held
    BY <1>3 DEF ReserveKept
  <2>2. CASE tells /\ read
    <3>1. left + dark > Held
      BY <1>2, <2>1, <2>2 DEF Braked, AskedAbove
    <3> QED  BY <1>1, <1>3, <2>2, <3>1
  <2>3. CASE ~(tells /\ read)
    <3>1. left' + dark' = left + dark
      BY <1>1, <1>3, <2>3
    <3> QED  BY <2>1, <3>1 DEF Braked, ReserveKept
  <2> QED  BY <2>2, <2>3
<1>11. BlindOnce'
  <2>1. CASE tells /\ ~read
    <3>1. blind <= starts
      BY <1>2, <2>1 DEF Braked, BlindOnce, Told
    <3>2. Told'
      BY <1>2, <1>5, <2>1 DEF Told
    <3> QED  BY <1>1, <1>2, <1>3, <2>1, <3>1, <3>2 DEF BlindOnce
  <2>2. CASE ~(tells /\ ~read)
    <3>1. blind' = blind
      BY <1>1, <2>2
    <3> QED  BY <1>2, <3>1 DEF Braked, BlindOnce, Told
  <2> QED  BY <2>1, <2>2
<1> QED  BY <1>7, <1>8, <1>9, <1>10, <1>11 DEF Braked

LEMMA TakeBraked == ASSUME Braked, Take PROVE Braked'
<1>1. /\ stage = "replied" /\ stage' \in {"pausing", "idle"} /\ again' \in BOOLEAN
      /\ heard' = Unseen /\ vain' = FALSE
      /\ UNCHANGED <<left, waits, blind, starts>>
  <2>1. again \in BOOLEAN
    BY Zenon DEF Braked, BudgetType, Switches
  <2> QED  BY <2>1 DEF Take, AnswerTaken, CallOver
<1>2. CASE heard = Unseen
  <2>1. UNCHANGED <<rate, read, dark>>
    BY <1>2 DEF Take, ReadRate
  <2>2. BudgetType'
    <3>1. Switches'
      BY <1>1, <2>1, Zenon DEF Braked, BudgetType, Switches
    <3> QED  BY <1>1, <2>1, <3>1 DEF Braked, BudgetType
  <2>3. ~Told /\ ~Told'
    BY <1>1, <1>2 DEF Told
  <2> QED
    BY <1>1, <2>1, <2>2, <2>3
       DEF Braked, HeardIsLeft, RateIsLeft, AskedAbove, ReserveKept, BlindOnce, Held, Told
<1>3. CASE heard # Unseen
  <2>1. /\ rate' = heard /\ read' = ~heard.past
        /\ dark' = IF ~heard.past /\ heard.left > Held THEN 0 ELSE dark
    BY <1>3 DEF Take, ReadRate
  <2>2. heard \in Rates /\ (~heard.past => heard.left = left) /\ (heard.past => ~read)
    BY <1>1, <1>3 DEF Braked, BudgetType, HeardIsLeft, Told
  <2>3. /\ left \in Nat /\ dark \in Nat /\ Held \in Nat /\ Held' = Held
    BY HeldType, BudgetAssumption DEF Braked, BudgetType, Held
  <2>4. dark' \in Nat
    BY <2>1, <2>3
  <2>5. BudgetType'
    <3>1. Switches'
      BY <1>1, <2>1, Zenon DEF Braked, BudgetType, Switches
    <3> QED  BY <1>1, <2>1, <2>2, <2>4, <3>1 DEF Braked, BudgetType
  <2>6. HeardIsLeft' /\ AskedAbove'
    BY <1>1 DEF HeardIsLeft, AskedAbove, Told
  <2>7. RateIsLeft'
    <3>1. ~heard.past => heard.left <= left + dark'
      BY <2>2, <2>3, <2>4
    <3> QED  BY <1>1, <1>3, <2>1, <3>1 DEF RateIsLeft
  <2>8. ReserveKept'
    BY <1>1, <2>1, <2>2, <2>3 DEF Braked, ReserveKept
  <2>9. BlindOnce'
    <3>1. heard.past => blind <= starts
      BY <2>2 DEF Braked, BlindOnce, Told
    <3> QED  BY <1>1, <2>1, <3>1 DEF Braked, BlindOnce
  <2> QED  BY <2>5, <2>6, <2>7, <2>8, <2>9 DEF Braked
<1> QED  BY <1>2, <1>3

LEMMA TurnOverBraked == ASSUME Braked, TurnOver PROVE Braked'
<1>1. /\ left' = Window /\ rate' = Over(rate) /\ heard' = Over(heard)
      /\ read' = FALSE /\ blind' = 0 /\ dark' = 0 /\ starts' = 0
      /\ UNCHANGED <<waits, stage, again, vain>>
  BY DEF TurnOver
<1>2. Window \in Nat /\ Held \in Nat /\ Held <= Window /\ Held' = Held
  BY HeldType, BudgetAssumption DEF Held
<1>3. BudgetType'
  <2>1. Switches'
    BY <1>1, Zenon DEF Braked, BudgetType, Switches
  <2>2. rate' \in Rates \cup {Unseen} /\ heard' \in Rates \cup {Unseen}
    BY <1>1, OverType, Zenon DEF Braked, BudgetType
  <2> QED  BY <1>1, <1>2, <2>1, <2>2 DEF Braked, BudgetType
<1>4. HeardIsLeft'
  BY <1>1, OverType DEF Braked, BudgetType, HeardIsLeft, Told
<1> QED
  BY <1>1, <1>2, <1>3, <1>4 DEF Braked, RateIsLeft, AskedAbove, ReserveKept, BlindOnce, Told

LEMMA StartOverBraked == ASSUME Braked, StartOver PROVE Braked'
<1>1. /\ starts' = starts + 1 /\ waits' \in BOOLEAN /\ rate' = Unseen /\ read' = FALSE
      /\ stage' = "idle" /\ again' = FALSE /\ heard' = Unseen /\ vain' = FALSE
      /\ UNCHANGED <<left, blind, dark>>
  BY DEF StartOver, CallOver
<1>2. BudgetType'
  <2>1. Switches'
    BY <1>1, Zenon DEF Switches
  <2> QED  BY <1>1, <2>1 DEF Braked, BudgetType
<1>3. BlindOnce'
  BY <1>1 DEF Braked, BudgetType, BlindOnce, Told
<1> QED
  BY <1>1, <1>2, <1>3 DEF Braked, HeardIsLeft, RateIsLeft, AskedAbove, ReserveKept, Held, Told

LEMMA StepBraked == Braked /\ [BudgetNext]_budget => Braked'
<1> SUFFICES ASSUME Braked, [BudgetNext]_budget PROVE Braked'
  OBVIOUS
<1>1. CASE Request \/ Waited \/ Retry
  BY <1>1, PassBraked
<1>2. CASE RefuseRetry \/ Wait \/ Cancel
  BY <1>2, StopBraked
<1>8. CASE NoAnswer \/ Redirect
  BY <1>8, UnansweredBraked
<1>3. CASE Charge
  BY <1>3, ChargeBraked
<1>4. CASE Take
  BY <1>4, TakeBraked
<1>5. CASE TurnOver
  BY <1>5, TurnOverBraked
<1>6. CASE StartOver
  BY <1>6, StartOverBraked
<1>7. CASE UNCHANGED budget
  BY <1>7 DEF budget, Braked, BudgetType, HeardIsLeft, RateIsLeft, AskedAbove, ReserveKept,
              BlindOnce, Held, Switches, Told
<1> QED  BY <1>1, <1>2, <1>3, <1>4, <1>5, <1>6, <1>7, <1>8 DEF BudgetNext

\* The client leaves the reserve alone but for what it was charged in the dark
\* since GitHub last told of more than that: before it had read an answer of
\* the window, or with nothing told in the one that came, if any (brake, send).
THEOREM ReserveIsKept == BudgetSpec => []ReserveKept
<1>1. Braked => ReserveKept
  BY DEF Braked
<1> QED  BY <1>1, InitBraked, StepBraked, PTL DEF BudgetSpec

\* Of the answers that tell of the bucket, a process is charged for one before
\* it has read any, and for one more in a window that begins under it
\* (sendTwice, readRate).
THEOREM BlindIsBounded == BudgetSpec => []BlindBounded
<1>1. Braked => BlindBounded
  BY DEF Braked, BlindOnce, BlindBounded
<1> QED  BY <1>1, InitBraked, StepBraked, PTL DEF BudgetSpec

=============================================================================
