------------------------------- MODULE Expanded -------------------------------
(***************************************************************************)
(* The memory of the workflow runs whose jobs were written: a sweep does   *)
(* not list the jobs of a run it remembers (internal/collect/actions.go),  *)
(* the runner settles what a pass added on whether every sink took its     *)
(* rows, and the cache file hands it to the next process                     *)
(* (internal/run/cache.go: settleExpanded, saveCache, loadCache,           *)
(* ForgetInCache).  Wrong, it keeps a run's jobs out of a store for good.  *)
(*                                                                         *)
(* Of an actions pass over the repositories this is the part that decides  *)
(* what is remembered; what it reads is what GitHub holds, as Answers      *)
(* promises of the client.                                                 *)
(***************************************************************************)
EXTENDS Naturals, FiniteSets

CONSTANTS
    Runs,       \* attempts of workflow runs
    Stores,     \* the sinks a configuration may name
    MaxJobRuns, \* the jobs of how many runs a pass lists
    NoFile

ASSUME ExpandedAssumption ==
    IsFiniteSet(Runs) /\ Stores # {} /\ MaxJobRuns \in Nat \ {0}

Claims == [runs : SUBSET Runs, stores : SUBSET Stores]

ASSUME NoFileAssumption == NoFile \notin Claims

VARIABLES
    phase,    \* "down", "idle", or "collected": a pass has its rows in hand
    stores,   \* the sinks of this process
    expanded, \* the runs it does not list again
    kept,     \* those the last pass that was delivered left
    rows,     \* the runs whose jobs the pass in hand lists
    jobs,     \* what each store holds
    ledger,   \* the file of the write ledger remembers something
    owed,     \* the stores owed a refill of this family
    cleared,  \* the store just cleared, while its claims stand
    claims,   \* the cache file: the runs, and the stores that hold their jobs
    \* Bookkeeping of the model.
    replaced, \* the stores emptied by hand since that file was written
    orphaned  \* those whose old claims outlived the process to drop them

memory     == <<stores, expanded, kept, rows>>
world      == <<jobs, ledger, owed, cleared, replaced, orphaned>>
remembered == <<phase, memory, claims, world>>

-----------------------------------------------------------------------------
\* loadCache: the runs of the file are believed when every store of this process
\* is one of those they were offered to, and the ledger is not empty.
Believed(ss) == ledger /\ ss \subseteq claims.stores

\* A process starts; a file that cannot be read whole is not read.
Start(ss) ==
    /\ phase = "down"
    /\ phase' = "idle"
    /\ stores' = ss
    /\ \E readable \in BOOLEAN :
           expanded' = IF claims # NoFile /\ readable /\ Believed(ss) THEN claims.runs ELSE {}
    /\ kept' = expanded'
    /\ orphaned' = orphaned \cup cleared /\ cleared' = {}
    /\ UNCHANGED <<rows, claims, jobs, ledger, owed, replaced>>

\* runPoints and Collect: of the runs on the newest pages, whichever those
\* are, ones not remembered have their jobs listed, up to the bound or an
\* error, and are remembered.
Collect ==
    /\ phase = "idle"
    /\ \E new \in SUBSET (Runs \ expanded) :
         /\ Cardinality(new) <= MaxJobRuns
         /\ rows' = new
         /\ expanded' = expanded \cup new
    /\ phase' = "collected"
    /\ UNCHANGED <<stores, kept, claims, world>>

SettleAll(delivered) ==  \* a mutant: whatever became of the rows
    kept' = expanded /\ UNCHANGED expanded

\* settleExpanded.
Settle(delivered) ==
    IF delivered THEN kept' = expanded /\ UNCHANGED expanded
                 ELSE expanded' = kept /\ UNCHANGED kept

\* emit and settleExpanded: each sink takes the rows, or fails and may have
\* taken them all the same.  The ledger saves itself on its own clock.
Emit ==
    /\ phase = "collected"
    /\ \E took \in SUBSET stores : \E failed \in SUBSET stores :
         /\ stores \subseteq took \cup failed
         /\ jobs' = [s \in Stores |-> IF s \in took THEN jobs[s] \cup rows ELSE jobs[s]]
         /\ Settle(rows = {} \/ failed = {})
         /\ ledger' \in {ledger, ledger \/ (rows # {} /\ failed # stores)}
    /\ rows' = {}
    /\ phase' = "idle"
    /\ UNCHANGED <<stores, claims, owed, cleared, replaced, orphaned>>

\* saveCache: what no sweep has listed since the horizon is left out.
SaveCache ==
    /\ \E gone \in SUBSET kept : claims' = [runs |-> kept \ gone, stores |-> stores]
    /\ replaced' = {}

\* Between two families.
SaveBetween ==
    /\ phase = "idle"
    /\ SaveCache
    /\ UNCHANGED <<phase, memory, jobs, ledger, owed, cleared, orphaned>>

ProcessOver ==
    /\ phase' = "down"
    /\ stores' = {} /\ expanded' = {} /\ kept' = {} /\ rows' = {}

\* On the way out; a pass that was canceled is not settled.
Stop ==
    /\ phase # "down"
    /\ SaveCache
    /\ ProcessOver
    /\ UNCHANGED <<jobs, ledger, owed, cleared, orphaned>>

\* The process is killed, or the file cannot be written.
Crash ==
    /\ phase # "down"
    /\ ProcessOver
    /\ orphaned' = IF ledger THEN orphaned \cup replaced ELSE orphaned
    /\ UNCHANGED <<claims, jobs, ledger, owed, cleared, replaced>>

\* A migration clears a store, before the process sweeps, and the refill is
\* owed by then.
Clear(s) ==
    /\ phase = "down" /\ cleared = {}
    /\ owed' = owed \cup {s}
    /\ jobs' = [jobs EXCEPT ![s] = {}]
    /\ cleared' = {s}
    /\ UNCHANGED <<phase, memory, claims, ledger, replaced, orphaned>>

\* Then what the file claims is forgotten, unless the process ends in between
\* or the file cannot be written.
ForgetInCache ==
    /\ phase = "down" /\ cleared # {}
    /\ claims' = IF claims = NoFile THEN claims ELSE [claims EXCEPT !.runs = {}]
    /\ cleared' = {} /\ replaced' = {}
    /\ UNCHANGED <<phase, memory, jobs, ledger, owed, orphaned>>

\* A refill reads every run there is, whatever is remembered, and is paid
\* when the store took every row.  It writes through the ledger of its run: a
\* one-shot run has none, and a service that goes on to its sweep has looked
\* at the file before; one that ends here may leave it remembering.
Refill(s) ==
    /\ phase = "down" /\ s \in owed
    /\ jobs' = [jobs EXCEPT ![s] = Runs]
    /\ owed' = owed \ {s}
    /\ ledger' \in {ledger, TRUE}
    /\ cleared' = cleared \ {s}
    /\ replaced' = replaced \ {s}
    /\ orphaned' = (IF ledger' THEN orphaned \cup replaced ELSE orphaned) \ {s}
    /\ UNCHANGED <<phase, memory, claims>>

\* A backfill, however far it gets: it is a one-shot run, which opens no
\* ledger, it remembers nothing and it saves no cache file.
Backfill ==
    /\ phase = "down"
    /\ \E some \in [Stores -> SUBSET Runs] :
           jobs' = [s \in Stores |-> jobs[s] \cup some[s]]
    /\ UNCHANGED <<phase, memory, claims, ledger, owed, cleared, replaced, orphaned>>

\* The operator empties a store and deletes the ledger, to fill it again.
Replace(s) ==
    /\ phase = "down"
    /\ jobs' = [jobs EXCEPT ![s] = {}]
    /\ ledger' = FALSE
    /\ replaced' = replaced \cup {s}
    /\ UNCHANGED <<phase, memory, claims, owed, cleared, orphaned>>

MemoryInit ==
    /\ phase = "down"
    /\ stores = {} /\ expanded = {} /\ kept = {} /\ rows = {}
    /\ jobs = [s \in Stores |-> {}] /\ ledger = FALSE
    /\ owed = {} /\ cleared = {} /\ claims = NoFile
    /\ replaced = {} /\ orphaned = {}

MemoryNext ==
    \/ \E ss \in SUBSET Stores \ {{}} : Start(ss)
    \/ Collect \/ Emit \/ SaveBetween \/ Stop \/ Crash \/ ForgetInCache \/ Backfill
    \/ \E s \in Stores : Clear(s) \/ Refill(s) \/ Replace(s)

MemorySpec == MemoryInit /\ [][MemoryNext]_remembered

-----------------------------------------------------------------------------
(* Properties.                                                             *)

\* A run whose jobs are not listed again has them in every store of the
\* process (settleExpanded, loadCache, ForgetInCache): whichever sink refused
\* them, whatever a stop cut short, whichever store was added, cleared or
\* replaced since.  The exception is a store whose old claims were left
\* standing: see orphaned.
RememberedIsHeld ==
    phase # "down" =>
        \A s \in stores \ orphaned : (expanded \ rows) \cup kept \subseteq jobs[s]

=============================================================================
