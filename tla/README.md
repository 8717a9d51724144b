# ghchronicle, modelled

TLA+ models of [ghchronicle](../src/README.md), a service that copies the
history GitHub forgets about an account into time-series stores. The modules
are translated from the Go source; docs and comments are only used as claims to
check. TLC checks small instances, TLAPS proves the theorems for all of them.

## 1. Inventory

| Part | State it keeps | Operations | Interacts with |
|---|---|---|---|
| **Sweep loop** `internal/run/runner.go` | repository list, what is due, state in memory | `Serve`, `Once`, `family`, `collectFamily`, `markRun`, `emit` | everything below |
| **Resumable backfill** `run/progress.go`, `cmd/ghchronicle/main.go` | checkpoint file, checkpoint in memory, `gained` per pass | `OpenProgress`, `WroteRepo`, `FinishFamily`, `Learn`/`Restore`, `closeProgress`, `walkUntilDoneOrStuck` | sweep loop, state file, sinks |
| **Write ledger** `internal/sink/unchanged.go` | hash and day per row, salts, its file | `Reserve` + commit, `Save`, `trimLocked`, `LoadLedger`, `Salt`, `Unchanged.Write` | every sink, migrations |
| **State file** `run/state.go`, `merge.go`, `stores.go` | marks, cursors, store records | `Save` (three-way merge of the records), `OpenState` | two processes at once |
| **Process lock** `run/lock.go` | an advisory lock | `TakeLock`, `Release` | service against one-shot runs |
| **Turns** `run/turns.go` | `started`, `held` | `takeTurns`, `turnsPerSweep` | cadences, marks |
| **Cache file** `run/cache.go`, `refusals.go` | answers, `expanded`/`expandedKept`, refusals | `settleExpanded`, `saveCacheSoon`, `ForgetInCache` | `emit`, migrations |
| **Migrations** `internal/migrate` | owed refills, applied marks, copies set aside | `Apply`, `one`, `settleFailure`, refill, `Purging` | state file, ledger, cache, backfill |
| **GitHub client** `internal/ghapi` | rate windows, ETag cache | `brake`, `sendTwice`, `GetJSON`, `put`/`evict` | collectors |
| **Collectors** `internal/collect` | none of their own | one `Collect` per family | client, cursors in the state |
| **Sinks** `internal/sink` | batches, exporters' registers | `Write`, `Close` | ledger in front of them |
| **Teardown, uninstall** `internal/teardown` | none | inspect, set aside, purge | stores |
| **Configuration, cards, dashboards, setup** | none | parse, render, generate | - |

What is hard about it, and what makes each part correct:

* *Backfill.* Hours long, stopped by signals, kills, spent budgets and refusing
  stores. The checkpoint is a claim ("every sink has this") that a later process
  skips work on. Correct when the claim is never false, never shrinks, is not
  read under other settings, and a walk that ends has covered what it asked for
  repository by repository (what it asks for in one query it may lose, section 5).
* *Ledger.* Suppresses writes, so a wrong memory is a row the store never gets.
  Correct when a row held back is a row the store has, whatever saves, tables
  and other stores did.
* *State file, lock.* Two processes and no transaction: correct when neither
  loses what the other recorded of a store, and when one at a time changes the
  stores.
* *Migrations.* Three files and a store changed in an order a kill may cut:
  correct when history set aside is always owed, paid once, and not held back.
* *Setting aside.* A clear is several requests to a server, any answer of which
  may be lost: correct when no row is left in no table and no copy, and what the
  clear says it did is what was done.
* *Turns.* Slow families due together take turns. Correct when each waits for a
  bounded number of sweeps, a restart that runs them before their time does not
  mark them together, and a family runs on its tick.
* *Client.* Callers share a cache of conditional answers and a budget somebody
  else spends too. Correct when an answer is what GitHub held at one instant of
  the call, and the reserve is left alone but for what nobody is told of.
* *Remembered runs.* A sweep does not list again the jobs of a run it has
  listed. Correct when every store holds them, whatever refused, stopped, was
  cleared or emptied since.
* *Feeds and windows.* A sweep reads what is new since a cursor or a mark, which
  failed reads, spent budgets, late sweeps and lost saves move. Correct when what
  lies before cursor or mark was given to the stores, or is of a kind the code
  gives up by name.

## 2. Plan

Done, in this order: **Backfill**, **Ledger**, then **StoreRecords** and
**Migration** (the merge, and everything that goes through it), **Turns** and
**Lock**, **Client** with its abstract specification **Answers**, **Budget**,
**Expanded**, **SetAside**, **Feeds** and **Windows**; a proof module beside
each of those (StoreRecords and Migration share `MigrationProofs`, Client and
Budget `ClientProofs`, Feeds, Windows and Expanded `ReadsProofs`).

How they fit together. Modules whose parts share state are composed:
Migration EXTENDS StoreRecords, whose operators are its state file. Where one
part relies on another only through a promise, the promise is a property of one
module and an assumption, named in its header, of the other: Migration takes
the answer of a clear as SetAside proves it, one process at a time as Lock
proves it, and of a finished walk what Backfill proves; Expanded takes from the
client what Answers promises; Ledger has the salt of a cleared table; Windows
takes a backfill whole.

Left: the refusals and page sizes of the cache file; the windows of the inbox,
commits and actions; pages and GraphQL in the client; a configuration changed
under a process that runs with the old one.

## 3. Modules

### Backfill

One process at a time runs passes over the families; everything between two
saves is a step of its own.

| Model | Code |
|---|---|
| `stores` | how deep each store holds each unit: rows themselves are abstracted to "the collector's whole answer for this repository, back to this date" |
| `ck`, `saved` | the checkpoint file and the state file |
| `p`, `st` | `Runner.Progress`, `Runner.State`; `facts` are what a collector learned of a repository (`LastHead` and the like), `marks` are `LastRun` |
| `scope` | `Scope`: its sinks, its date bound (`depth`), its families; `Differs` is inequality |
| `repos`, `toCover`, `failed`, `asked` | `Runner.repos`, `familyPass.covered`, `.failed`, the position of the loop |
| `BeginPass` ... `Finish`, `Close` | `Once`: listing, families, `finish`, `closeProgress` |
| `AccountCollected`, `AccountFailed` | `family` |
| `Batch`, `RepoCollected`, `RepoFailed`, `BudgetSpent`, `StopShort`, `Interrupted`, `CloseFamily` | `collectFamily` and `repoFamilies` around it |
| `GoBack`, `GiveUp` | `afterPass` and the loop of `walkUntilDoneOrStuck` |
| `Ask`, `DeleteRefused`, `Start` | the operator: other settings, a refused checkpoint deleted, the command run again |
| `Cancel`, `Crash` | a signal, a kill at any step |

A collector's failure is nondeterministic, as is which sinks took a batch and
whether a file was saved. `Restore` and `Learn` are modelled in the order the
code calls them. A checkpoint is a record, its JSON is not modelled; saves are
atomic because `replaceFile` writes beside the file and renames over it.
A family with no repository left to ask still passes through `Batch` and
`CloseFamily`, as the code does.

### Ledger

A row is what a store keys by and a hash is the thing hashed, so collisions are
out of the model. `store` is what each store holds; `seen` the shared map;
`file` what was last saved; `salts` how many times a store's table was set
aside. `Accepted`, `Partly` and `Refused` are the three ways `Unchanged.Write`
returns (no error; `RejectedError`/`DroppedError`; any other error, with any
subset of the rows landed, since a batch is several requests). A write carries
the save it may trigger: due and done, due and failed, not due. `rejected` and
`uncertain` are bookkeeping: rows a store refused for what they say, and rows
of which memory or file may hold an older value than the store.

### StoreRecords and Migration

A start of the program (a service, or a one-shot run that also sweeps) and
`-migrate -yes` bring the stores along: what is pending is owed a refill on
disk, the store is cleared, the answer is recorded, and one walk reads back all
that is owed. They share a state file, which a save merges three ways.

| Model | Code |
|---|---|
| `disk`, `st`, `loaded` | the `stores` of the state file, of `State`, and `State.loaded`, the base of the merge |
| a `Record` | `StoreRecord`: where the sink points, what was applied or not needed, the refill owed, the copies set aside, and the same of the places it pointed to before (`Former`) |
| `MergeRecord` and below | `mergeRecord`, `mergeFormer`, `mergeAsides`, `unionRefill` |
| `Stamp`, `Retarget` | a configuration that points a sink elsewhere |
| `back`, `old`, `copies`, `letGo` | a place (sink and destination): how far back each repository's rows go, which old shapes it holds, its copies, and those of them let go of |
| `StartOneShot`, `Opened`, `TakeLock`, `ToSweep`, `StartHolding`, `End` | `migrateOnStart`, `migrateApply`, `main` |
| `Owe`, `Clear`, `NotCleared`, `OnlyCopy`, `Settle` | `Applying.one`, its save, the store's answer (done, untouched, unknown), `settleFailure` |
| `OpenRefill`, `WalkUnit`, `WalkStops`, `WalkEnds`, `Paid` | `Applying.refill`, `refiller`, and the checkpoint `ck` of their own |
| `Purge`, `Purgers` | `Purging.Run`: a copy that has fallen due is let go of. Of a sink in `Purgers` (Postgres, Elasticsearch) it is purged, then forgotten; of the others, whose server purges copies by its own clock (`ByServer`) or keeps them (`ForGood`), it is forgotten when the record says it is due. `-migrate` also asks the first kind for copies no record names |
| `ours` | whether the `rec` that `one` took before its save is still the record of the state: a merge may have replaced it |
| `Crash`, a failed `Save` | a kill between any two steps; a disk that refuses |

A checkpoint is resumed when its scope is the same: the bound, what is written
to which sink (`keep`) and where those point (`to`), but for the sinks whose
destination is a credential and stays out of the file (`Secret`: Postgres, by its DSN).
When a copy falls due is left open: a `Purge` may come at any time after the copy.
The configuration changes while nothing runs, so both sides of a merge point
at one place, and no save here reaches `MergeElsewhere`.

`paid`, `ended`, `gaps` and the checkpoint's `at` are bookkeeping of the model:
what a process has read back, the debts that ended since their store was last
cleared, the clears whose refill the code loses (section 5), and where the
runs that wrote under the checkpoint pointed.

### Turns

A sweep is one step. `last`, `saved` are `State.LastRun` in memory and on disk,
`started` is `Runner.started`, `next` the ticker. `Due`, `Tick`, `Slack`,
`OverdueSince`, `TakeTurns`, `TurnsPerSweep` are the functions of those names;
`Marked` is `markRun`, which a primed sweep limits to what was due; `Collect` a
sweep whose listing answered, `NotListed` one whose did not; `OtherRun` a
`-once` or a `-backfill` between two services. A sweep reads the clock up to
`MaxLate` after its tick. `waits`, `passed`, `ticks` and `at` are bookkeeping.

### Lock

A file is an inode, so an unlinked one can be locked still. `Open`,
`TryFlock`, `NameHolder` are `TakeLock`, `ReadHolder` what its loser makes of
`readHolder`, `Poll` the service's wait, `ListState`, `RemoveOthers`, `LetGo`,
`Unlink` an uninstall, `Kill` the end of any process at any step. `stray` and
`unnamed` are bookkeeping for the two windows of section 5.

### Client and Answers

`entries`, `order`, `bytes` are the cache; `Get`, `Put`, `Store`, `Drop`,
`Staying` its operations, the last one all evictions of one `put`. `Ask`,
`Serve`, `Return` are the three parts of `GetJSON` around the request,
`Refuse`, `AskedInVain`, `SendAgain`, `GiveUp` the ways it ends or goes round
otherwise (`sendTwice`). `Save`, `Load`, `Restart` hand the cache to the next
process, which may be another release, whose types may keep other fields:
`ShapeOf` is `decodingName`. A body is who encoded it and of what; read back by
another type it is `Partial`.

Answers is the promise: a call is answered with what GitHub held at one instant
of it. The mapping takes a call that waits as asked, and the answer as made out
when GitHub has replied; `Serve` is then the instant. Everything else the
client does is a stutter of it.

### Budget

One call at a time, through `brake` (`Passes`, `Through`, `Stopped`, `Wait`,
`Waited`), the request (`Redirect`, any number of them under one brake, each
charged; then `Charge`, free or not, or `NoAnswer`, charged or not), `readRate`
(`ReadRate`, in `Take`) and `sendTwice` (`Retry`, `RefuseRetry`, `Cancel`).
An answer without `x-ratelimit-limit`, or that names another bucket, leaves the
reading as it was. Windows turn over at any moment, processes start with nothing
read. `read`, `blind` and `dark` are bookkeeping: whether this process has a
reading of this window, what was charged for answers that tell of the bucket
while it had none, and everything charged, since GitHub last told of more than
the reserve, while it had none or without telling.

### Expanded

`expanded`, `kept`, `rows` are the collector's memory, what the last delivered
pass left of it, and the pass in hand. `Collect`, `Emit` (each sink takes the
rows or not) with `Settle`, `SaveBetween`, `Stop`, `Crash`, `Start` with
`Believed`; `Clear`, `ForgetInCache`, `Refill` the migrations' part; `Replace`
a store emptied by hand, whose ledger is then thrown away. A `Backfill` is a
one-shot run: it writes rows and opens no ledger.

### SetAside

Clear of the four kinds of server, a request a step: `Rename`, `LookAgain` for
PostgreSQL; `Block`, `CloneAside`, `Compare`, `DeleteIndex`, `CountAgain`,
`PurgeClone`, `Unblock` for Elasticsearch; `DeleteTable`, `ListAgain` for
InfluxDB 3; `DeleteRows` for InfluxDB 2. Each may be carried out with its
answer lost. `Purge` is `PurgeCopy`.

### Feeds

The feed is a sequence of at most `Pages * PageSize` events, less what grew too
old. An event reaches it in any place, mostly the first; `late` are those that
came behind one already served to a read that counts, until a read brings them.
The feed moves between two pages. `BeginRead`, `ReadPage`, `SkipPage`, `FailPage` are
`events` and `Events.Collect`, a page each, `Deliver` the rest of `family`,
`SaveCursor` the save at the end of the sweep, `ReaderStops` a process that ends
anywhere. `offered`, `skipped` and `late` are bookkeeping.

### Windows

A sweep over the two families that read what moved in a window: `BeginSweep`
with the movement query, `PassOver` or `OpenFamily`, then for each repository
`ReadRepo`, which is `sinceWindow` with the windows of `pulls` and
`issueEvents`, `BudgetEnds`, `CloseFamily` with the mark, and `EndSweep`.

| Model | Code |
|---|---|
| `ran`, `dayRead` | `State.LastRun` of the family, `State.LastFull` of issues in a repository |
| `swept` | `primed`, and that two sweeps are never of the same time |
| `sweep.seen` | `Runner.moved`; a repository not in it had no answer |
| `sweep.found`, `.failed`, `.answered`, `.spent` | `familyPass`: its rows, who failed, who answered, the budget |
| `Since`, `DayReadDue`, `DayReadFrom`, `StayedPut`, `Marks` | `pulls` and `issueEvents`, `dayReadDue`, `dayReadFrom`, `stayedPut`, the end of `repoFamilies` |
| `ProcessEnds`, `Backfilled` | a stop or kill at any step; a backfill between two services: bounded by a date (`backTo`), resumed (`readAt`, when a repository was read, which may be long before the end), ended with or without the mark |

`given`, `promised`, `excused` and `missed` (with the marks of the file,
`missedSaved`) are bookkeeping. The movement query is
asked by the first family that needs it, here as the sweep begins; time stands
still within a sweep. A month, how far back a first read goes, is longer than
anything here.

Operators that a comment calls a mutant or a fault to find, and those whose
names end in `Mutant`, are seeded faults, one for each property: put in place of
the definition they follow, they make that property fail.

## 4. Runs

| Run | Question | Instance | Result |
|---|---|---|---|
| `backfill` | is the record sound, kept, marked; does a finished walk lack nothing but batches; does the retry loop give up only when stuck | 2 sinks, 2 repositories, 3 families (account-wide, batch-only, batched with a per-repository part), 2 scopes, 2 mishaps, 2 further asks; symmetry over the repositories | holds, about 962,000 states |
| `backfill_ends` | does a walk run again and again end | two scopes, 1 mishap, 1 further ask, no symmetry | holds, about 42,000 states |
| `ledger` | is what is held back in the store | 2 sinks on one ledger of one entry, 1 row, 2 values, 1 table set aside each, 1 refused write, 1 loss; symmetry over sinks and values | holds, about 327,000 states |
| `ledger_converges` | do stores come to hold what GitHub says | 1 sink, the horizon of one day passed | holds, about 21,000 states |
| `migration` | is history that a clear took owed or read back; does a debt end only by being paid; does a copy stay named until it is let go of | a service, a `-migrate` and a one-shot run, 2 sinks of which one can be asked and has its copies purged and one neither, 1 migration, 2 repositories, 2 destinations, 2 clears a store, 3 starts, 2 mishaps, 1 change of destination; symmetry over repositories and destinations | holds, about 1,004,000 states |
| `turns` | are waits bounded, are families on their tick, does a restart leave apart what it runs before its time; is the lock exclusive, whom does a service give way to | tick 4, slack 2, cadences 4, 12, 12, 16, one family that sizes another, two that fail, 2 services, 1 other run, 1 failed save or listing; 3 processes, 4 runs, 2 inodes | holds, about 1,899,000 states |
| `parts` | is an answer GitHub's; is the reserve kept; is a remembered run in every store; does a clear lose rows or answer falsely; does the feed's cursor step over an event; is what lies before a mark or a day's read in the stores | 2 callers, 1 URL, 2 types, 2 releases one of which changes a type, a cache of 2 and a file of 1; a window of 15 of which 3 are held back, 2 further processes and 4 charges in the dark in it; 2 runs and 2 sinks; 2 rows, 2 clears, 3 tries of a rename; 4 events on 2 pages of 2; 2 repositories, a cadence of 1 in a day of 4, a clock to 4, 1 move, 2 failures; one exchange of all pairs as symmetry | holds, about 1,570,000 states |
| `backfill_batch`, `backfill_learned`, `backfill_outage`, `backfill_no_user`, `ledger_lost` | claims of comments and docs | as above, smaller | violated, section 5 |

Bounds. `MaxMishaps` counts everything that goes wrong (a refusal, a failed
save, a failure of a collector, a signal, a kill): two let a failure meet a
crash, the second failing in another process or another pass. Two sinks let one
refuse what the other takes; two repositories let a family be half recorded; one
family of each kind takes every branch of `collectFamily`; the two scopes differ
in sinks and in depth, and in `backfill_ends` in families too. `MaxAsks` lets
the settings change and change back over one checkpoint. In `ledger`, `Horizon =
0` drops what was not offered today, so one change of day prunes, and
`MaxEntries = 1` makes two sinks compete for one entry; `ledger_converges`
passes a horizon of one day on a calendar of three. In `turns` and `parts` the
modules share no state, so one of them moves and the others stay where they
start: what is explored is the sum of their states. For Feeds, four events on
two pages, in any place, fill both, shift the pages under a read and come late
between two reads; `Ages` takes them off. For Budget, a window of 15 and a
reserve of 4 hold back a fifth, 3, so that what is left can fall under it and
stay above nothing; four charges in the dark let a redirect, an untold answer
and its retry meet a second process. For Windows, one move is enough since
another only makes a sweep read more; two failures let one pass fail for a
repository and the next be late or lost; a day of four cadences and a clock to
four give a day's read, a gap of more than two cadences within its day, and the
next day's.

Deadlock. The backfill runs say `CHECK_DEADLOCK FALSE`: a walk that is over
with nothing more asked stops. So do `turns` and `parts`: the clock, the runs and
the clears are bounded, and nothing in these modules has to go on. `migration`
says so for the same reason, its starts are bounded. The ledger runs check it.

Fairness. `Backfill!FairSpec` has weak fairness of the process's own steps
(nothing in Go blocks them but calls with timeouts) and of the operator running
the command again, which is what the log line "run the same command again" asks
for. Failures and signals are never fair. `Ledger!FairSpec` has weak fairness of
a restart that reads the file, and strong fairness of a store accepting a whole
offer: every sweep offers every row again, and a store that never accepts can
hold nothing.

## 5. Where the code and what is said of it differ

* **A refused batch is recorded complete** (`backfill_batch`). `collectFamily`
  drops the answer of the batch's `emit` (runner.go:733). One sink refuses the
  batch, takes every repository after it, the family completes, and the resume
  never opens it again. progress.go:69: "Complete is every family whose whole
  pass reached every sink".
* **A resume forgets what was learned** (`backfill_learned`). `openProgress`
  points the checkpoint at the running state (progress.go:804) before `Restore`
  reads it (808), so `Restore` copies the state onto itself, and the next save
  writes the loss to disk. The test of this (progress_test.go:868) calls
  `Restore` by itself.
* **Without a login a walk never ends** (`backfill_no_user`). `family` returns
  at once for every account-wide family, `ScopeOf` still names them, so they
  are unfinished for ever and the checkpoint stays (runner.go:1456,
  progress.go:717; how-it-works.md:440).
* **A resumed outage is marked as run** (`backfill_outage`). `failed` counts
  every repository (`batched`), `covered` the ones left, compared by equality
  (runner.go:594), against the comment at runner.go:834.
* **A lost save may cost a row, not a rewrite** (`ledger_lost`). The ledger on
  disk says A, the store was since given B, the process is killed, the value
  goes back to A: the restarted ledger holds A back for as long as it is A, and
  every offer keeps the entry young (unchanged.go:248, 223-229). The run for
  what does hold, `Converges`, exempts those rows by name (`uncertain`).

Known gaps that no run is spent on; the properties exempt exactly these, by
name, and hold of everything else:

* *Backfill* (`NoRepo` of a batched family). `FinishedWalkIsHeld` and
  `RecordedIsHeld` do not ask for the rows of a family's one query, whose
  refusal the code drops: `backfill_batch` above. A checkpoint that could not be
  removed at the end (progress.go:872) makes the next backfill of the same scope
  read nothing: what it claims is held, but repositories that appeared since are
  left out.
* *Budget* (`dark`). The brake knows what answers told it. A request with no
  answer, an answer without `x-ratelimit-limit` (client.go:1337) and a hop of a
  redirect that `http.Client` follows by itself (client.go:121, 679) may be
  charged and leave the reading as it was, and the next brake, a retry's among
  them, passes on it. A process that begins knows nothing of the window.
* *Migration* (`gaps`). A store cleared again under an unfinished refill resumes
  over rows the second clear removed, because the refill's checkpoint is not
  (refill.go). A checkpoint is resumed over another database when only the DSN
  of Postgres changed: progress.go:165 says of a sink that "retarget an existing
  one and the same hole opens in a different place", and the scope is there to
  refuse it, but the whole DSN is a secret (config.go:349), which `sinkSettings`
  leaves out; the test of it (progress_test.go:764) is of InfluxDB. A one-shot
  run reads the state before it holds the lock, so a debt another run pays
  meanwhile is taken as owed and then merged away (migrate.go:142, 182). A run
  whose ending of a debt could not be saved ends a newer one with its last save.
  Besides: `one` takes its record before a save that may replace it, so its mark
  of applied may go nowhere (`ours`; the store is then asked again), and a merge
  of different destinations drops the other's former places where it owes
  nothing itself (merge.go:99). A copy whose store purges it itself, or keeps it
  for good, is forgotten by the clock, whether the store still has it or not
  (purge.go:136-140, `letGo`): `NamedUntilLetGo` is about when a record ends,
  not about the copy.
* *Lock* (`stray`, `unnamed`). Between letting go of the lock file and removing
  it an uninstall lets another process lock a file that is then unlinked
  (uninstall.go:341); the comment there knows of one order of it. The name in
  the file is the last holder's until the new one is written, so a service that
  finds the lock held in between may refuse where it should wait: lock.go:99
  says a failure there "costs the next reader the name and nothing else".
* *Turns*. turns.go:44-52 says a family waits for each of the others at most
  once. It is so of a family whose last turn was a run; one that failed itself
  is queued by that turn, behind families that came due since. `StayApart`
  exempts the first sweep of a service that finds two families due: it runs and
  marks both, so such a restart brings them together.
* *Expanded* (`orphaned`). A store emptied by hand is found out by its empty
  ledger, until something writes the ledger again, a service or the refill of a
  migration: an older cache file is then believed at the next start
  (cache.go:174). A backfill opens no ledger (main.go:1217), so to empty the
  store, delete the ledger, backfill and start is not exempt. A migration makes
  the cache file forget what it claims (`ForgetInCache`); where the process ends
  before that, or the file cannot be written, the claims stand, and a store
  cleared and not yet read again counts as orphaned when a start believes them.
* *Feeds* (`skipped`). A page GitHub will not give is taken as the end of the
  feed, and the cursor goes to the newest event all the same (events.go:78). An
  event may reach the feed late, behind others (`late`): a page is written whole
  for its sake (events.go:35), which brings it where the next read still comes
  to its page, and not where that read stops at an earlier one. Besides: a store
  that refuses the rows, or a signal between the read and the write, leaves the
  cursor past rows that store never had, and they are not read again once a
  sweep is saved; the property says "given to every store to take".
* *Windows* (`missed`, `excused`). A backfill marks a family when it ends,
  though its date bound kept part of the past from it (runner.go:1073), or it
  resumed a walk that had read the repository hours or days before
  (runner.go:754, 611): the next window of issue events starts from the mark,
  and what moved between a reading and the mark may be in none. In a sweep, too,
  a family is marked when some repository answered. One that failed twice
  running has a gap in its events for good: runner.go:1054 knows of it and has
  the day's read of issues for it, which issueevents has not. The first pass of
  issues, while no pass is marked, reads two cadences back where the day's read
  is on record already (`Unmarked`, runner.go:1088): when the budget then ends
  that family unmarked, and the next sweep is later than two cadences on the
  same day, what moved in between waits for the next day's read. `commits` reads
  two cadences back whatever was read before, a page of fifty, so a longer stop
  leaves commits to the next backfill; it is not modelled, having nothing to
  promise.
* *SetAside* (`stuck`). A process killed while an index is blocked, or whose
  request to unblock it fails, leaves the index refusing writes until it is
  cleared again. A clone whose answer was lost stays without a name in the state
  file until a purge asks the store for copies.

## 6. Proofs

`BackfillProofs.tla`, from the named assumptions on the constants only:

* `TypeCorrect`: `Spec => []TypeOK`. Not inductive alone: that `failed` stays
  within the repositories plus one needs `FailuresCounted`, which counts a
  pass's failures against the repositories it has not asked yet.
* `RecordSound`: `Spec => []RecordedIsHeld`, for any number of stores,
  repositories, families, scopes and failures. The inductive invariant
  `RecordInv` adds `OwnScope`: while a process runs, its checkpoint's scope is
  the scope asked for, which is what turns "taken by the sinks of this walk, as
  deep as this walk" into what the checkpoint claims. The proof splits the
  steps into those that leave the record alone (`QuietStep`: stores only grow
  deeper, `HeldGrows`), and those that record (`RecordingStep`: a repository,
  an account-wide family, a per-repository family whose claims were all
  written already, `FinishReposClaims`).
* `RecordStays`: `RecordKept`, from `FileBehind`: the record in memory says all
  the file does, so a save takes nothing out (`StepGrows`: a step only adds).
* `CompleteMarked`: `[]CompleteIsMarked`. Between passes a record read back may
  be ahead of the state read from disk, until the next pass copies it over;
  `AheadOnlyResumed` confines that to a record of an earlier process.
* `GivesUpOnlyStuck`: `GaveUpOnlyIfStuck`. The code compares two numbers, of
  which one falls when a family completes; a pass only adds (`Gaining`), so that
  equal numbers are equal records (`SameCountSameRecord`, by finite sets).
* `FinishedIsHeld`: `FinishedWalkIsHeld`, of each account-wide family and each
  family in each repository. `WholeListing`: each complete family
  covered every repository that no listing of the walk left out; with
  `RecordSound` every store then holds them.

`LedgerProofs.tla`, from `LedgerAssumption` (sizes are numbers, `None` is
neither a value nor an entry):

* `LedgerTypeCorrect`: `Spec => []TypeOK`, inductive as it stands.
* `HeldBackRowsAreThere`: `Spec => []HeldBackIsThere`, and
  `RememberedValuesAreHeld`: `Spec => []RememberedIsHeld`. They need each other
  and two strengthenings (`IInv`). `FutureUnknown`: no entry is salted as a
  table yet to come, so a table set aside is empty and unremembered at once.
  `DownIsKnown`: while the process is down, the file says of every row what the
  store holds or the row is uncertain, so that a start can read it back. While
  the process runs the file alone may be wrong, which is why this part speaks
  of the process being down. All three outcomes of a write are instances of one lemma,
  `WriteKeeps`; pruning and trimming enter only as "entries are dropped, none is
  made" (`PrunedDrops`), so the proof does not depend on the cut.
* `OfferedTodayIsKept`: `OfferedIsKept`, which is about the cut: it is the last
  day with as many entries as fit (`LastOfDays`), a day already begun since no
  entry is of a day to come (`DaysPast`), and what is of that day stays.

`TurnsProofs.tla`, from `TurnsAssumption` and `LateAssumption`:

* `TypeCorrect`, with `Clock`: no mark and no start is of a time to come.
* `WaitIsBounded`: the invariant `Queue` counts for each waiting family the
  sweeps it waited by the distinct families that started in them (`passed`):
  none of those comes before it again, since its last start is later. With
  `Turns` starts in each sweep, the wait times `Turns` is at most the number of
  others. `WaitUnderCadence` puts into that what `turnsPerSweep` computes.
* `GroupsDoNotForm`: `StayApart`, with its exception (`Later`: no turn is later
  than the clock). `DueOnItsTick`
  (`Phase`: a mark is within the lateness of its tick; twice the lateness is
  less than a tick, so the slack of half a tick rounds to the right one).

`LockProofs.tla`: `LockIsExclusive`, `ServicesWaitForOthers`. The invariant says
who owns a flock has the file open, every open file the name does not lead to is
stray, and a file names the owner of its flock once that is past writing it.

`ClientProofs.tla`: `EntriesAreSound`, an invariant over the cache, the file and
every call, and from it `AnswersAreHeld`, the refinement of Answers: the initial
states map, and every step is a step of Answers or a stutter. Eviction matters
to neither: the entry asked with is held by the call (`saved`).

`CacheIsInOrder`, in the same module: `CacheInOrder`, for any limit, sizes and
keys. On top of the entries' soundness the invariant (`Books`) needs the file:
its list and its entries name the same keys, each once (`FileBooks`), or reading
it back would list a key twice. An eviction and a reading back stop where the
most fits (`Maximum`, which is not choosing from nothing only because the count
was exact before), and the count follows what is stored, replaced, dropped,
evicted and read because the size of disjoint keys adds up (`SizeJoin`). So that
it can be, `SizeOf` is the number of the entries' bytes and `Only`, the filter of
a list, is defined by places: the library's sum is a fold and `SelectSeq`
recursive, and both would need induction over data.

`ReserveIsKept`, `BlindIsBounded`, in the same module for Budget. The invariant
`Braked` ties what the client knows to what is left: its reading is at most what
is left and what was charged in the dark, once it has read one answer of the
window, and it asks only above the reserve. What was charged in the dark is
forgotten only when an answer tells of more than the reserve.

`SetAsideProofs.tla`: `RowsAreKept`, `AnswersAreTrue`. The invariant follows each
request: where the rows were before it are the table, the copy, or both, and
what the code knows of which.

`MigrationProofs.tla`, from `RecordsAssumption` and `ProcessAssumption`, for any
number of processes, sinks, destinations, migrations and repositories:

* `AlwaysTyped`: `Spec => []TypeOK`, with `Base`: only the holder of the lock
  works on the stores, and while a process runs its records point where the
  configuration does, as does the state file unless it is as that process read
  it (`Pointed`), so that a merge is always of one destination.
* `AlwaysOwed`: `Spec => []MissingIsOwed`; `AlwaysPaid`: `DebtOnlyPaid`;
  `AlwaysNamed`: `NamedUntilLetGo`. All three are about what a save may take
  out of a file that somebody else wrote since. `Kept` says it of the merge: what
  the result lacks of one side, another had taken out. So the invariant must
  say of every process, at any distance from its next save, what it has taken
  out: no more than copies let go of and debts that are over (`Drops`).
  It is kept by each save (`SavingWithin`), and is what breaks when a store is
  cleared and its debt is owed anew: from then on no process may still be about to
  strike that debt out, which is `Touching`, true because the debt was just
  saved and the processes that may be are in `gaps`.
* What is over is back in its store (`EndedIsBack`), for the two reasons a debt
  ends. It was read back: the walk covers all that is owed, as far back as it
  is owed (`Walking`, `InTime`), and what its checkpoint claims was
  written where it points now (`WalkedIsBack`). Or it is taken back from a
  store that says it was left alone: then nothing was missing before either,
  since else the debt would have been on disk and in `before` (`TakenBack`).
* Together (`Inv`, `AlwaysInv`): what is missing was owed, and stays on disk while it
  is missing (`MissingStep`). Of the types, `OldIsWhole` (an old shape is only
  where nothing was cleared) is what bounds how far back a debt must reach.

`DebtOnlyPaid` was once stated of the process that takes the debt out; the
attempt to prove it showed that false for two one-shot runs that each hold a
copy of a debt a third has paid, and it now speaks of the debt.

`ReadsProofs.tla`, for every size of a page, number of pages, cadence and day:

* `NothingIsSteppedOver`: `SteppedOverIsOffered` of Feeds. `Reading` says, place
  by place, what the pages read so far hold of the feed behind the newest event
  seen, `InHand` what a read that is over holds. An event that comes only moves
  others back (`HappensMoves`), and one that comes in behind a served one is
  `late`, so that what is behind an event before is behind it after
  (`HappensBehind`); a read that ends early ends at the feed's end or at the
  cursor, behind which all is accounted for.
* `DayReadsCatchUp` and `PassesDoJoin`: `DayReadCatchesUp` and `PassesJoin` of
  Windows. `UnderWay`: a repository that answered brought what lies in the
  window of the last mark, since one that stayed put has nothing there.
  `Marked`: what lies before a mark was given out or is excused, in memory and
  in the file. `DayReads`: the same of the days' reads, of which the last may
  still be in hand. Each window reaches back to what the record it starts from
  covers ((`SinceReaches`). A backfill marks whatever it read, so that what it
  steps over is excused where it is first promised (`BackfilledKept`). The proof
  of `PassesJoin` is what asked for `Unmarked`.
* `RememberedRunsAreHeld`: `RememberedIsHeld` of Expanded. While no process
  runs, the promise lies in the file: what it claims is held by every store it
  names but those emptied since, of which there are none while the ledger
  remembers something.

Every safety property the runs check has a theorem. Only model-checked: liveness
(WalkEnds, Converges), which is out of the prover's reach under fairness. No
definition is recursive.

## 7. Not modelled

Most of the source by size: dashboards, cards, panels and their queries
(`internal/dashboards`, `internal/grafana`, `internal/render`), the parsing and
checking of a configuration, the forty collectors, the wire formats of the
sinks, setup. They translate one value into another or into text, in one call,
with no state that outlives it and no other actor: nothing there is a matter of
order, failure or bounds beyond what the modules above take of them (a
collector's answer, a sink's, a configuration's constants), so the share of the
source's lines that the models map stays small.

Of the modelled parts: `-backfill-status`, the plan `-migrate` prints and the
card a backfill draws only read. The cursor of the inbox (feeds.go), the record
of the day's read 2.6.4 left, repositories found after the first sweep, the
refusals and page sizes of the cache file (refusals.go), GraphQL, paging and
text requests of the client, purges by InfluxDB itself and the lock of Windows
are left out. Of the brake: another user of the token, an answer of another
bucket filed under this one because it does not say which it is of
(client.go:1339), and the text requests, whose redirects lead to storage that
charges nothing. Of the cache: an entity tag stands for a content and its
`Link`, so a 304 that brings a newer `Link` is not met. Of the migrations: a
store that keeps its own copies makes no step on the records the run has not
from Postgres, and the theorems are for any `Purgers`. The wait between passes
and the wait for budget of a backfill are passing time; their only outcome here
is that a signal may end them.
