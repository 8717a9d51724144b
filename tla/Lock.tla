--------------------------------- MODULE Lock ---------------------------------
(***************************************************************************)
(* The lock beside the state file (internal/run/lock.go) and the commands  *)
(* that take it: the service for its life, -migrate -yes, a one-shot run   *)
(* that applies before its sweep, and -uninstall -yes, which removes the   *)
(* lock file itself (cmd/ghchronicle/migrate.go, uninstall.go).            *)
(*                                                                         *)
(* A file is an inode: an unlinked one lives while a process has it open,  *)
(* and so does its flock.  Any process may be killed at any step, and any  *)
(* call may fail.  Not here: no state file, and systems without flock,     *)
(* where nothing is locked.                                                *)
(***************************************************************************)
EXTENDS Naturals

CONSTANTS
    Procs,   \* processes, each run again and again
    Files,   \* inodes
    MaxRuns, \* bound: how many runs there are of them all
    NoOne, NoInode

ASSUME LockAssumption == MaxRuns \in Nat /\ NoOne \notin Procs /\ NoInode \notin Files

Kinds == {"service", "migrate", "start", "uninstall"}
Steps == {"over", "refused", "opening", "opened", "locked", "blank", "working",
          "held", "waiting", "listed", "last", "unlink"}

VARIABLES
    path,  \* the file the lock's name leads to
    owner, \* who has the flock of each file
    says,  \* the kind of run named in each file, "" for none
    step,  \* where each process is
    kind,  \* what it runs as
    open,  \* the file it has open
    \* Bookkeeping of the model.
    stray,   \* files an uninstall unlinked while another process had them open
    unnamed, \* processes that hold a lock they could not write their name into
    runs     \* how many there were

lock == <<path, owner, says, step, kind, open, stray, unnamed, runs>>

-----------------------------------------------------------------------------
(* Processes.                                                              *)

Goes(p, next) == step' = [step EXCEPT ![p] = next]

\* Where a process does what the lock is for.  An uninstall has only the lock
\* file left to remove once it is past that.
Working(p) == step[p] \in {"working", "listed"}

Holds(p) == Working(p) /\ open[p] # NoInode

\* The descriptor is closed, and the lock it may have goes with it.
Closes(p) ==
    /\ open' = [open EXCEPT ![p] = NoInode]
    /\ owner' = [f \in Files |-> IF owner[f] = p THEN NoOne ELSE owner[f]]
    /\ unnamed' = unnamed \ {p}

\* An error of TakeLock that is not a lock held: the service and an uninstall
\* go on without one, the others change nothing.
WithoutLock(p) ==
    /\ Closes(p)
    /\ Goes(p, IF kind[p] \in {"service", "uninstall"} THEN "working" ELSE "over")

\* An uninstall makes no lock file where there is none.
StartUp(p, k) ==
    /\ step[p] \in {"over", "refused"} /\ runs < MaxRuns
    /\ runs' = runs + 1
    /\ kind' = [kind EXCEPT ![p] = k]
    /\ Goes(p, IF k = "uninstall" /\ path = NoInode THEN "working" ELSE "opening")
    /\ UNCHANGED <<path, owner, says, open, stray, unnamed>>

-----------------------------------------------------------------------------
(* TakeLock.                                                               *)

\* OpenFile makes the file if the name leads to none.
Opens(p, f) ==
    /\ open' = [open EXCEPT ![p] = f]
    /\ Goes(p, "opened")
    /\ path' = f

Open(p) ==
    /\ step[p] = "opening"
    /\ \/ path # NoInode /\ Opens(p, path) /\ UNCHANGED <<owner, says, stray, unnamed>>
       \/ /\ path = NoInode
          /\ \E f \in Files :
               /\ \A q \in Procs : open[q] # f
               /\ Opens(p, f)
               /\ says' = [says EXCEPT ![f] = ""] /\ stray' = stray \ {f}
          /\ UNCHANGED <<owner, unnamed>>
       \/ WithoutLock(p) /\ UNCHANGED <<path, says, stray>>
    /\ UNCHANGED <<kind, runs>>

TryFlock(p) ==
    /\ step[p] = "opened"
    /\ \/ /\ owner[open[p]] = NoOne
          /\ owner' = [owner EXCEPT ![open[p]] = p] /\ Goes(p, "locked")
          /\ UNCHANGED <<open, unnamed>>
       \/ owner[open[p]] # NoOne /\ Closes(p) /\ Goes(p, "held")
       \/ WithoutLock(p)
    /\ UNCHANGED <<path, says, kind, stray, runs>>

Names(p, name) == says' = [says EXCEPT ![open[p]] = name] /\ UNCHANGED unnamed

\* nameHolder truncates, then writes; what fails is not the caller's concern.
NameHolder(p) ==
    /\ \/ step[p] = "locked" /\ Names(p, "") /\ Goes(p, "blank")
       \/ step[p] = "blank" /\ Names(p, kind[p]) /\ Goes(p, "working")
       \/ /\ step[p] \in {"locked", "blank"} /\ Goes(p, "working")
          /\ unnamed' = unnamed \cup {p} /\ UNCHANGED says
    /\ UNCHANGED <<path, owner, kind, open, stray, runs>>

\* A fault to find: whoever holds it turns a service away.
ReadHolderRefuses(p) ==
    /\ step[p] = "held" /\ Goes(p, "refused")
    /\ UNCHANGED <<path, owner, says, kind, open, stray, unnamed, runs>>

\* readHolder, by name and not by the descriptor, which may not be read, and
\* what is done about it: a service that finds no service waits, any other run
\* gives up.
ReadHolder(p) ==
    /\ step[p] = "held"
    /\ \/ kind[p] # "service" /\ Goes(p, "refused")
       \/ kind[p] = "service" /\ path # NoInode /\ says[path] = "service" /\ Goes(p, "refused")
       \/ kind[p] = "service" /\ Goes(p, "waiting")
    /\ UNCHANGED <<path, owner, says, kind, open, stray, unnamed, runs>>

Poll(p) ==
    /\ step[p] = "waiting"
    /\ Goes(p, "opening") \/ Goes(p, "over")
    /\ UNCHANGED <<path, owner, says, kind, open, stray, unnamed, runs>>

-----------------------------------------------------------------------------
(* Release, and the lock file of an uninstall.                             *)

\* A fault to find: the file goes with the lock.
ReleaseRemoves(p) ==
    /\ step[p] = "working" /\ kind[p] # "uninstall"
    /\ Closes(p) /\ Goes(p, "over") /\ path' = NoInode
    /\ UNCHANGED <<says, kind, stray, runs>>

\* The file itself stays.
Release(p) ==
    /\ step[p] = "working"
    /\ Closes(p) /\ Goes(p, "over")
    /\ UNCHANGED <<path, says, kind, stray, runs>>

\* A fault to find: the lock file goes first, as it is listed.
ListStateFirst(p) ==
    /\ step[p] = "working" /\ kind[p] = "uninstall" /\ path # NoInode
    /\ Goes(p, "listed") /\ path' = NoInode
    /\ UNCHANGED <<owner, says, kind, open, stray, unnamed, runs>>

\* stateRemovals: the lock file is on the list if it is there.
ListState(p) ==
    /\ step[p] = "working" /\ kind[p] = "uninstall" /\ path # NoInode
    /\ Goes(p, "listed")
    /\ UNCHANGED <<path, owner, says, kind, open, stray, unnamed, runs>>

RemoveOthers(p) ==
    /\ step[p] = "listed" /\ Goes(p, "last")
    /\ UNCHANGED <<path, owner, says, kind, open, stray, unnamed, runs>>

LetGo(p) ==
    /\ step[p] = "last" /\ Closes(p) /\ Goes(p, "unlink")
    /\ UNCHANGED <<path, says, kind, stray, runs>>

\* os.Remove takes whatever the name leads to by then.
Unlink(p) ==
    /\ step[p] = "unlink" /\ Goes(p, "over")
    /\ \/ /\ path' = NoInode
          /\ stray' = stray \cup {f \in Files : f = path /\ \E q \in Procs : open[q] = f}
       \/ UNCHANGED <<path, stray>>
    /\ UNCHANGED <<owner, says, kind, open, unnamed, runs>>

\* The operating system takes the lock back, however the process ends.
Kill(p) ==
    /\ step[p] \notin {"over", "refused"}
    /\ Closes(p) /\ Goes(p, "over")
    /\ UNCHANGED <<path, says, kind, stray, runs>>

LockInit ==
    /\ path = NoInode /\ stray = {} /\ unnamed = {} /\ runs = 0
    /\ owner = [f \in Files |-> NoOne] /\ says = [f \in Files |-> ""]
    /\ step = [p \in Procs |-> "over"] /\ kind = [p \in Procs |-> "service"]
    /\ open = [p \in Procs |-> NoInode]

LockNext ==
    \E p \in Procs :
        \/ \E k \in Kinds : StartUp(p, k)
        \/ Open(p) \/ TryFlock(p) \/ NameHolder(p) \/ ReadHolder(p) \/ Poll(p)
        \/ Release(p) \/ ListState(p) \/ RemoveOthers(p) \/ LetGo(p) \/ Unlink(p)
        \/ Kill(p)

LockSpec == LockInit /\ [][LockNext]_lock

-----------------------------------------------------------------------------
(* Properties.                                                             *)

\* Nobody changes the stores or the state file beside another that holds the
\* lock (lock.go, Lock), but for a file that an uninstall unlinked between
\* letting go of it and removing it, while another took it.
Exclusive ==
    \A p, q \in Procs : p # q /\ Holds(p) /\ Holds(q) =>
        open[p] \in stray \/ open[q] \in stray

\* A service is turned away only by another service (holdStateFile): whoever
\* else has the lock is waited for.  The name it reads may be the last
\* holder's until the one there has written its own, or if that failed.
RefusedByAService ==
    [][\A p \in Procs :
         step[p] = "held" /\ kind[p] = "service" /\ step'[p] = "refused" =>
             \/ owner[path] = NoOne
             \/ kind[owner[path]] = "service"
             \/ step[owner[path]] = "locked" \/ owner[path] \in unnamed]_lock

=============================================================================
