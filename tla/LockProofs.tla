------------------------------ MODULE LockProofs ------------------------------
(***************************************************************************)
(* What Lock promises, for any number of processes and files: whoever has  *)
(* a flock has the file open, every open file the name does not lead to    *)
(* was unlinked under its process, and a file names whoever has its flock  *)
(* once that has been written.                                             *)
(***************************************************************************)
EXTENDS Lock, TLAPS

TypeOK ==
    /\ path \in Files \cup {NoInode}
    /\ owner \in [Files -> Procs \cup {NoOne}]
    /\ says \in [Files -> Kinds \cup {""}]
    /\ step \in [Procs -> Steps] /\ kind \in [Procs -> Kinds]
    /\ open \in [Procs -> Files \cup {NoInode}]
    /\ stray \subseteq Files /\ unnamed \subseteq Procs

\* The steps a process takes with the flock, or without a lock at all.
Inside == {"locked", "blank", "working", "listed", "last"}
Outside == {"over", "refused", "opening", "held", "waiting", "unlink"}

OwnerIsOpen == \A f \in Files : owner[f] # NoOne => open[owner[f]] = f

OpenIsOwned ==
    \A p \in Procs :
        /\ step[p] \in Inside /\ open[p] # NoInode => owner[open[p]] = p
        /\ step[p] \in {"opened", "locked", "blank"} => open[p] # NoInode
        /\ step[p] \in Outside => open[p] = NoInode
        /\ step[p] = "opened" => owner[open[p]] # p

OpenIsThere == \A p \in Procs : open[p] # NoInode /\ open[p] \notin stray => path = open[p]

OwnerIsNamed ==
    \A p \in Procs : open[p] # NoInode =>
        /\ step[p] = "blank" => says[open[p]] = ""
        /\ step[p] \in {"working", "listed", "last"} /\ p \notin unnamed =>
               says[open[p]] = kind[p]

IInv == TypeOK /\ OwnerIsOpen /\ OpenIsOwned /\ OpenIsThere /\ OwnerIsNamed

LEMMA InitIInv == LockInit => IInv
<1> SUFFICES ASSUME LockInit PROVE IInv
  OBVIOUS
<1>1. TypeOK
  BY DEF LockInit, TypeOK, Kinds, Steps
<1>2. /\ \A p \in Procs : step[p] = "over" /\ open[p] = NoInode
      /\ \A f \in Files : owner[f] = NoOne
  BY DEF LockInit
<1>3. OwnerIsOpen /\ OpenIsThere /\ OwnerIsNamed
  BY <1>2 DEF OwnerIsOpen, OpenIsThere, OwnerIsNamed
<1>4. OpenIsOwned
  BY <1>2 DEF OpenIsOwned, Inside, Outside
<1> QED BY <1>1, <1>3, <1>4 DEF IInv

\* Closing leaves every other process as it was.
LEMMA ClosesKeeps ==
    ASSUME NEW p \in Procs, NEW next \in Steps \ {"opened", "locked", "blank"},
           IInv, Closes(p), Goes(p, next), path' = path, says' = says, kind' = kind, stray' = stray
    PROVE  IInv'
<1>0. TypeOK /\ OwnerIsOpen /\ OpenIsOwned /\ OpenIsThere /\ OwnerIsNamed
  BY DEF IInv
<1>1. TypeOK'
  BY <1>0 DEF TypeOK, Closes, Goes
<1>2. \A q \in Procs : q # p =>
         open'[q] = open[q] /\ step'[q] = step[q] /\ (q \in unnamed' <=> q \in unnamed)
  BY <1>0 DEF TypeOK, Closes, Goes
<1>3. open'[p] = NoInode /\ step'[p] = next
  BY <1>0 DEF TypeOK, Closes, Goes
<1>4. \A f \in Files : owner[f] # p => owner'[f] = owner[f]
  BY DEF Closes
<1>5. \A f \in Files : owner[f] = p => owner'[f] = NoOne
  BY DEF Closes
<1>6. OwnerIsOpen'
  <2> SUFFICES ASSUME NEW f \in Files, owner'[f] # NoOne PROVE open'[owner'[f]] = f
    BY DEF OwnerIsOpen
  <2>1. owner[f] # p /\ owner'[f] = owner[f] /\ owner[f] \in Procs
    BY <1>0, <1>4, <1>5 DEF TypeOK
  <2> QED BY <1>0, <1>2, <2>1 DEF OwnerIsOpen
<1>7. OpenIsOwned'
  <2> SUFFICES ASSUME NEW q \in Procs, q # p
               PROVE  /\ step[q] \in Inside /\ open[q] # NoInode => owner'[open[q]] = q
                      /\ step[q] \in {"opened", "locked", "blank"} => open[q] # NoInode
                      /\ step[q] \in Outside => open[q] = NoInode
                      /\ step[q] = "opened" => owner'[open[q]] # q
    BY <1>2, <1>3 DEF OpenIsOwned, Steps, Inside, Outside
  <2>1. /\ step[q] \in Inside /\ open[q] # NoInode => owner[open[q]] = q
        /\ step[q] \in {"opened", "locked", "blank"} => open[q] # NoInode
        /\ step[q] \in Outside => open[q] = NoInode
        /\ step[q] = "opened" => owner[open[q]] # q
    BY <1>0 DEF OpenIsOwned
  <2>2. open[q] # NoInode => open[q] \in Files
    BY <1>0 DEF TypeOK
  <2>3. q # NoOne
    BY LockAssumption DEF LockAssumption
  <2> QED BY <1>4, <1>5, <2>1, <2>2, <2>3
<1>8. OpenIsThere'
  BY <1>0, <1>2, <1>3 DEF OpenIsThere
<1>9. OwnerIsNamed'
  BY <1>0, <1>2, <1>3 DEF OwnerIsNamed
<1> QED BY <1>1, <1>6, <1>7, <1>8, <1>9 DEF IInv


LEMMA StepIInv == IInv /\ [LockNext]_lock => IInv'
<1> SUFFICES ASSUME IInv, [LockNext]_lock PROVE IInv'
  OBVIOUS
<1> USE LockAssumption DEF LockAssumption
<1> USE DEF IInv, TypeOK, Goes
<1>0. CASE UNCHANGED lock
  BY <1>0 DEF lock, OwnerIsOpen, OpenIsOwned, OpenIsThere, OwnerIsNamed
<1>1. ASSUME NEW p \in Procs, NEW k \in Kinds, StartUp(p, k) PROVE IInv'
  <2>1. TypeOK'
    BY <1>1 DEF StartUp, Steps
  <2>2. open[p] = NoInode
    BY <1>1 DEF StartUp, OpenIsOwned, Inside, Outside
  <2>3. \A q \in Procs : q # p => step'[q] = step[q] /\ kind'[q] = kind[q]
    BY <1>1 DEF StartUp
  <2>4. step'[p] \in {"working", "opening"}
    BY <1>1 DEF StartUp
  <2>5. OwnerIsOpen' /\ OpenIsThere'
    BY <1>1 DEF StartUp, OwnerIsOpen, OpenIsThere
  <2>6. OpenIsOwned'
    BY <1>1, <2>2, <2>3, <2>4 DEF StartUp, OpenIsOwned
  <2>7. OwnerIsNamed'
    BY <1>1, <2>2, <2>3 DEF StartUp, OwnerIsNamed
  <2> QED BY <2>1, <2>5, <2>6, <2>7
<1>2. ASSUME NEW p \in Procs, WithoutLock(p), UNCHANGED <<path, says, kind, stray>>
      PROVE  IInv'
  <2>1. Closes(p) /\ (Goes(p, "working") \/ Goes(p, "over"))
    BY <1>2 DEF WithoutLock
  <2>2. {"working", "over"} \subseteq Steps \ {"opened", "locked", "blank"}
    BY DEF Steps
  <2> HIDE DEF IInv, Goes
  <2> QED BY <1>2, <2>1, <2>2, ClosesKeeps
<1>3. ASSUME NEW p \in Procs, Open(p) PROVE IInv'
  <2>0. step[p] = "opening" /\ open[p] = NoInode /\ kind' = kind
    BY <1>3 DEF Open, OpenIsOwned, Inside, Outside
  <2>1. CASE WithoutLock(p) /\ UNCHANGED <<path, says, stray>>
    BY <1>2, <2>0, <2>1
  <2>2. ASSUME NEW f \in Files, Opens(p, f), UNCHANGED <<owner, unnamed>>,
               \/ f = path /\ UNCHANGED <<says, stray>>
               \/ /\ path = NoInode /\ \A q \in Procs : open[q] # f
                  /\ says' = [says EXCEPT ![f] = ""] /\ stray' = stray \ {f}
        PROVE  IInv'
    <3>1. TypeOK'
      BY <2>0, <2>2 DEF Opens, Steps
    <3>2. /\ open'[p] = f /\ step'[p] = "opened" /\ path' = f
          /\ \A q \in Procs : q # p => open'[q] = open[q] /\ step'[q] = step[q]
      BY <2>2 DEF Opens
    <3>3. owner[f] # p
      BY <2>0, <2>2, ZenonT(60) DEF OwnerIsOpen
    <3>4. \A g \in Files : owner[g] # p
      BY <2>0 DEF OwnerIsOpen
    <3>5. OwnerIsOpen'
      BY <2>2, <3>2, <3>4, ZenonT(60) DEF OwnerIsOpen
    <3>6. OpenIsOwned'
      <4>1. ASSUME NEW q \in Procs, q # p
            PROVE  /\ step[q] \in Inside /\ open[q] # NoInode => owner[open[q]] = q
                   /\ step[q] \in {"opened", "locked", "blank"} => open[q] # NoInode
                   /\ step[q] \in Outside => open[q] = NoInode
                   /\ step[q] = "opened" => owner[open[q]] # q
        BY <4>1 DEF OpenIsOwned
      <4> HIDE DEF IInv, TypeOK
      <4>2. f # NoInode /\ owner' = owner
        BY <2>2
      <4> QED BY <3>2, <3>3, <4>1, <4>2 DEF OpenIsOwned, Inside, Outside
    <3>7. OpenIsThere'
      BY <2>2, <3>2 DEF OpenIsThere
    <3>8. OwnerIsNamed'
      <4>1. \A q \in Procs : q # p /\ open[q] # NoInode => says'[open[q]] = says[open[q]]
        BY <2>2
      <4>2. kind' = kind /\ unnamed' = unnamed /\ OwnerIsNamed
        BY <2>0, <2>2
      <4> HIDE DEF IInv, TypeOK
      <4> QED BY <3>2, <4>1, <4>2, ZenonT(60) DEF OwnerIsNamed
    <3> QED BY <3>1, <3>5, <3>6, <3>7, <3>8
  <2>3. CASE path # NoInode /\ Opens(p, path) /\ UNCHANGED <<owner, says, stray, unnamed>>
    BY <2>2, <2>3
  <2>4. CASE /\ path = NoInode
             /\ \E f \in Files :
                  /\ \A q \in Procs : open[q] # f
                  /\ Opens(p, f)
                  /\ says' = [says EXCEPT ![f] = ""] /\ stray' = stray \ {f}
             /\ UNCHANGED <<owner, unnamed>>
    BY <2>2, <2>4
  <2> QED BY <1>3, <2>1, <2>3, <2>4 DEF Open
<1>4. ASSUME NEW p \in Procs, TryFlock(p) PROVE IInv'
  <2>0. step[p] = "opened" /\ open[p] \in Files
    BY <1>4 DEF TryFlock, OpenIsOwned
  <2>1. CASE /\ owner[open[p]] = NoOne
             /\ owner' = [owner EXCEPT ![open[p]] = p] /\ Goes(p, "locked")
             /\ UNCHANGED <<open, unnamed>>
    <3>0. UNCHANGED <<path, says, kind, stray>>
      BY <1>4 DEF TryFlock
    <3>1. TypeOK'
      BY <2>0, <2>1, <3>0 DEF Steps
    <3>2. step'[p] = "locked" /\ \A q \in Procs : q # p => step'[q] = step[q]
      BY <2>1
    <3>3. owner'[open[p]] = p /\ \A g \in Files : g # open[p] => owner'[g] = owner[g]
      BY <2>0, <2>1
    <3>4. OwnerIsOpen'
      BY <2>1, <3>3 DEF OwnerIsOpen
    <3>5. OpenIsOwned'
      <4>1. owner[open[p]] = NoOne /\ open' = open /\ p # NoOne
        BY <2>1
      <4>2. \A q \in Procs : q # p =>
                /\ step[q] \in Inside /\ open[q] # NoInode => owner[open[q]] = q /\ open[q] # open[p]
                /\ step[q] \in {"opened", "locked", "blank"} => open[q] # NoInode
                /\ step[q] \in Outside => open[q] = NoInode
                /\ step[q] = "opened" => open[q] \in Files /\ owner[open[q]] # q
        BY <4>1 DEF OpenIsOwned
      <4>3. \A q \in Procs : q # p /\ open[q] # NoInode => open[q] \in Files
        OBVIOUS
      <4> HIDE DEF IInv, TypeOK
      <4> QED BY <2>0, <3>2, <3>3, <4>1, <4>2, <4>3 DEF OpenIsOwned, Inside, Outside
    <3>6. OpenIsThere' /\ OwnerIsNamed'
      BY <2>1, <3>0, <3>2 DEF OpenIsThere, OwnerIsNamed
    <3> QED BY <3>1, <3>4, <3>5, <3>6
  <2>2. CASE owner[open[p]] # NoOne /\ Closes(p) /\ Goes(p, "held")
    BY <1>4, <2>2, ClosesKeeps DEF TryFlock, Steps
  <2>3. CASE WithoutLock(p)
    BY <1>2, <1>4, <2>3 DEF TryFlock
  <2> QED BY <1>4, <2>1, <2>2, <2>3 DEF TryFlock
<1>5. ASSUME NEW p \in Procs, NameHolder(p) PROVE IInv'
  <2>0. /\ step[p] \in {"locked", "blank"} /\ UNCHANGED <<path, owner, kind, open, stray>>
        /\ open[p] \in Files /\ owner[open[p]] = p
    BY <1>5 DEF NameHolder, OpenIsOwned, Inside
  <2>1. \A q \in Procs : q # p => step'[q] = step[q] /\ (q \in unnamed' <=> q \in unnamed)
    BY <1>5 DEF NameHolder, Names
  <2>2. \A q \in Procs : q # p /\ step[q] \in Inside /\ open[q] # NoInode => open[q] # open[p]
    BY <2>0 DEF OpenIsOwned
  <2>3. \A f \in Files : f # open[p] => says'[f] = says[f]
    BY <1>5 DEF NameHolder, Names
  <2>4. TypeOK'
    <3>1. step' \in [Procs -> Steps]
      BY <1>5 DEF NameHolder, Steps
    <3>2. unnamed' \subseteq Procs
      BY <1>5 DEF NameHolder, Names
    <3>3. says' \in [Files -> Kinds \cup {""}]
      <4>1. kind[p] \in Kinds
        OBVIOUS
      <4> QED BY <1>5, <2>0, <4>1 DEF NameHolder, Names
    <3> QED BY <2>0, <3>1, <3>2, <3>3
  <2>5. OwnerIsOpen' /\ OpenIsThere'
    BY <2>0 DEF OwnerIsOpen, OpenIsThere
  <2>6. step'[p] \in {"blank", "working"}
    BY <1>5 DEF NameHolder
  <2>7. OpenIsOwned'
    BY <2>0, <2>1, <2>6 DEF OpenIsOwned, Inside, Outside
  <2>8. /\ step'[p] = "blank" => says'[open[p]] = ""
        /\ step'[p] = "working" /\ p \notin unnamed' => says'[open[p]] = kind[p]
    BY <1>5, <2>0 DEF NameHolder, Names
  <2>9. OwnerIsNamed'
    <3>1. \A q \in Procs : q # p /\ step[q] \in Inside /\ open[q] # NoInode =>
             says'[open[q]] = says[open[q]]
      BY <2>2, <2>3
    <3>2. OwnerIsNamed /\ step'[p] \notin {"listed", "last"}
      BY <2>6
    <3> HIDE DEF IInv, TypeOK
    <3> QED BY <2>0, <2>1, <2>6, <2>8, <3>1, <3>2, ZenonT(60) DEF OwnerIsNamed, Inside
  <2> QED BY <2>4, <2>5, <2>7, <2>9
<1>6. ASSUME NEW p \in Procs, ReadHolder(p) \/ Poll(p) PROVE IInv'
  <2>0. /\ open[p] = NoInode /\ UNCHANGED <<path, owner, says, kind, open, stray, unnamed>>
        /\ step'[p] \in {"refused", "waiting", "opening", "over"}
        /\ \A q \in Procs : q # p => step'[q] = step[q]
    BY <1>6 DEF ReadHolder, Poll, OpenIsOwned, Inside, Outside
  <2>1. TypeOK'
    BY <1>6, <2>0, ZenonT(60) DEF ReadHolder, Poll, Steps
  <2>2. OwnerIsOpen' /\ OpenIsThere' /\ OwnerIsNamed'
    BY <2>0 DEF OwnerIsOpen, OpenIsThere, OwnerIsNamed
  <2>3. OpenIsOwned'
    BY <2>0 DEF OpenIsOwned, Inside, Outside
  <2> QED BY <2>1, <2>2, <2>3
<1>7. ASSUME NEW p \in Procs, Release(p) \/ LetGo(p) \/ Kill(p) PROVE IInv'
  BY <1>7, ClosesKeeps DEF Release, LetGo, Kill, Steps
<1>8. ASSUME NEW p \in Procs, ListState(p) \/ RemoveOthers(p) PROVE IInv'
  <2>0. /\ UNCHANGED <<path, owner, says, kind, open, stray, unnamed>>
        /\ step[p] \in {"working", "listed"} /\ step'[p] \in {"listed", "last"}
        /\ \A q \in Procs : q # p => step'[q] = step[q]
    BY <1>8 DEF ListState, RemoveOthers
  <2>1. TypeOK'
    BY <1>8, <2>0 DEF ListState, RemoveOthers, Steps
  <2>2. OwnerIsOpen' /\ OpenIsThere'
    BY <2>0 DEF OwnerIsOpen, OpenIsThere
  <2>3. OpenIsOwned
    OBVIOUS
  <2>4. OpenIsOwned'
    BY <2>0, <2>3 DEF OpenIsOwned, Inside, Outside
  <2>5. OwnerIsNamed'
    BY <2>0 DEF OwnerIsNamed
  <2> QED BY <2>1, <2>2, <2>4, <2>5
<1>9. ASSUME NEW p \in Procs, Unlink(p) PROVE IInv'
  <2>0. /\ UNCHANGED <<owner, says, kind, open, unnamed>>
        /\ step[p] = "unlink" /\ step'[p] = "over"
        /\ \A q \in Procs : q # p => step'[q] = step[q]
    BY <1>9 DEF Unlink
  <2>1. TypeOK'
    BY <1>9, <2>0 DEF Unlink, Steps
  <2>2. OpenIsThere'
    BY <1>9, <2>0 DEF Unlink, OpenIsThere
  <2>3. OwnerIsOpen' /\ OwnerIsNamed'
    BY <2>0 DEF OwnerIsOpen, OwnerIsNamed
  <2>4. OpenIsOwned'
    BY <2>0 DEF OpenIsOwned, Inside, Outside
  <2> QED BY <2>1, <2>2, <2>3, <2>4
<1> QED
  BY <1>0, <1>1, <1>3, <1>4, <1>5, <1>6, <1>7, <1>8, <1>9 DEF LockNext

\* What lock.go's Lock and uninstall.go's stateRemovals come to: no two runs
\* change the stores or the state file under the lock at one time, unless an
\* uninstall unlinked the file of one of them as it was taken.
THEOREM LockIsExclusive == LockSpec => []Exclusive
<1>1. IInv => Exclusive
  BY DEF IInv, TypeOK, Exclusive, Holds, Working, OpenIsOwned, OpenIsThere, Inside
<1> QED
  BY <1>1, InitIInv, StepIInv, PTL DEF LockSpec

\* What holdStateFile reads of the holder: a service is turned away by a
\* service, or by a name its holder has not written over yet.
THEOREM ServicesWaitForOthers == LockSpec => RefusedByAService
<1> DEFINE Turned(p) ==
      step[p] = "held" /\ kind[p] = "service" /\ step'[p] = "refused" =>
          \/ owner[path] = NoOne
          \/ kind[owner[path]] = "service"
          \/ step[owner[path]] = "locked" \/ owner[path] \in unnamed
<1>1. ASSUME IInv, LockNext, NEW p \in Procs,
             step[p] = "held", kind[p] = "service", step'[p] = "refused"
      PROVE  path \in Files /\ says[path] = "service"
  <2>1. PICK q \in Procs :
          \/ \E k \in Kinds : StartUp(q, k)
          \/ Open(q) \/ TryFlock(q) \/ NameHolder(q) \/ ReadHolder(q) \/ Poll(q)
          \/ Release(q) \/ ListState(q) \/ RemoveOthers(q) \/ LetGo(q) \/ Unlink(q)
          \/ Kill(q)
    BY <1>1 DEF LockNext
  <2>2. step \in [Procs -> Steps] /\ path \in Files \cup {NoInode}
    BY <1>1 DEF IInv, TypeOK
  <2>3. ReadHolder(q) /\ q = p
    BY <1>1, <2>1, <2>2 DEF StartUp, Open, Opens, TryFlock, WithoutLock, NameHolder, ReadHolder,
       Poll, Release, ListState, RemoveOthers, LetGo, Unlink, Kill, Goes
  <2>4. Goes(p, "refused") => ~Goes(p, "waiting")
    BY <1>1, <2>2 DEF Goes
  <2> QED BY <1>1, <2>2, <2>3, <2>4 DEF ReadHolder, Goes
<1>2. ASSUME IInv, path \in Files, says[path] = "service", owner[path] # NoOne
      PROVE  \/ kind[owner[path]] = "service"
             \/ step[owner[path]] = "locked" \/ owner[path] \in unnamed
  <2> DEFINE o == owner[path]
  <2>1. o \in Procs /\ open[o] = path /\ open[o] # NoInode
    BY <1>2, LockAssumption DEF LockAssumption, IInv, TypeOK, OwnerIsOpen
  <2>2. step[o] # "opened"
    BY <2>1, <1>2 DEF IInv, OpenIsOwned
  <2>3. step[o] \in Inside
    <3>1. step[o] \in Steps /\ step[o] \notin Outside
      BY <1>2, <2>1 DEF IInv, TypeOK, OpenIsOwned
    <3> QED BY <2>2, <3>1 DEF Steps, Inside, Outside
  <2> QED BY <1>2, <2>1, <2>3 DEF IInv, OwnerIsNamed, Inside
<1>3. IInv /\ [LockNext]_lock => [\A p \in Procs : Turned(p)]_lock
  BY <1>1, <1>2
<1> QED
  BY <1>3, InitIInv, StepIInv, PTL DEF LockSpec, RefusedByAService

=============================================================================
