# A TLA+ model of grc-explorer's indexer

grc-explorer copies the Gridcoin chain from a daemon into MariaDB and serves it
through an API. This directory models the part of it that is hard to get right:
how the copy is made and kept equal to a chain that grows and reorganises, how
everything derived from the copy (totals, rollups, clusters, search documents,
mempool stamps) follows it, and how jobs, wipes and restarts get along, all of it
without a transaction around any two statements. TLC checks the models on small
instances; TLAPS proves the main invariants of eight of them, and both refinements,
for every value of their parameters.

Paths below are relative to `src/packages/grc-explorer/src/`.

## The system

One Node process. `index.ts` (`bootIndexer`) puts each job on `schedule()`, which
runs its ticks one after the other; different jobs interleave at every `await`.
A statement is committed by itself: there is no transaction that spans two.

| Part | State | Operations | Talks to |
|---|---|---|---|
| Backfill pipeline, `services/indexer/HistoricalBackfiller.ts` (`BackfillJob`) | buffer, pending group, two counters, calls in flight | `pump`, `fetchSpanCall`, `drain`, `flushPending` | daemon (RPC), BlockWriter, wipe lock |
| Backfill lifecycle, same file (`run`, `markLive`) | - | resume from cursor and `max(height)`, walk to tip - `SAFE_CONFIRMATIONS`, hand over | cursor, `blocks` |
| TipFollower, `services/indexer/TipFollower.ts` | - | `tick`: tip, span, check of the previous hash, apply | cursor, BlockWriter, reorganisation handler |
| Reorganisation handler, `services/indexer/ChainReorgHandler.ts`, `lib/chainTables.ts` | - | `handle`, `findForkPoint`, `safetySweep`, DELETE walk | all chain tables, cursor, totals, rollups |
| BlockWriter, `services/indexer/BlockWriter.ts` | - | `applyBlocks`: 22 writes at once, `blocks` last, cursor, post-commit hooks | tables, cursor, rollups, search queue |
| Address totals, `lib/addressState.ts`, `scripts/rebuildAddressState.ts` | `address_balance_history` (log), `address_state` (totals) | add deltas, repair, rebuild | tables |
| Cursor and wipe lock, `lib/redis.ts` | one hash, one key with a TTL | get, set | Redis |
| Scheduler and shutdown, `lib/schedule.ts`, `lib/shutdown.ts` | single-flight flag, set of promises | tick, drain | every job |
| Admin tasks and wipe, `lib/adminTask.ts`, `services/admin/adminWatcher.ts`, `scripts/wipeExplorer.ts` | request, status, lock | request, claim, run | everything |
| Rollups, `services/jobs/RollupMaintainer.ts` | running flag, pending window | `refreshRollups`, `doRefresh` | tables |
| RPC lanes, `lib/gridcoin.ts`, `services/indexer/AdaptiveLimits.ts` | two breakers, a semaphore, AIMD limits | call, success, failure | daemon |
| Mempool, `services/indexer/MempoolWatcher.ts`, `reconcileMempool` | last snapshot, `mempool_txs` | entry, exit, confirmation | daemon, tables |
| Search queue, `lib/meili.ts`, `services/search/MeiliIndexer.ts` | stream, saved position | enqueue, drain | Redis, Meilisearch |
| Watermark jobs, poll weights, statistics, imports (`services/jobs/`, `services/network/`) | a watermark or a day bucket each | periodic tick | tables |
| Parser (`ContractParser.ts`, `PhantomSpendDetector.ts`), block page (`lib/blockFlow.ts`) | - | JSON block to rows, rows to flows | - |
| Events, API, presenters, frontend | caches, SSE clients | read only | tables |

What makes it hard:

* **interleaving**: three jobs write `blocks` and the cursor, the admin task
  writes the totals, and the daemon's chain moves between any two awaits;
* **crashes**: the process may die between two statements, and a tick may end
  between two statements because one of them throws;
* **ordering**: spans arrive out of order and short; rows must land before the
  `blocks` row that vouches for them;
* **replay**: `INSERT IGNORE` and the `last_seen_block` filter must make a
  repeated batch harmless, and a rollback must leave nothing they would skip;
* **liveness**: the backfill promise must settle, or its single-flight flag stays
  set; the index must reach the daemon's chain once that is at rest.

What correctness means, part by part: the pipeline writes an unbroken run of
heights and settles; the index is a chain, becomes the daemon's chain, and its
cursor is a fully-committed watermark; the totals are the sums of the log. The
full list, at the lines where it bites, is `hazards` in `PROJECT.json`.

## The modules

### `BackfillJob` and `IndexedChain`

`BackfillJob` is one walk over the heights `From .. To`. A block is its height. An
action is what JavaScript runs between two awaits; `phase` names the await
`drain()` is suspended at, or says that it is running on (`"loop"`, `"tail"`), in
which case `Calm` holds every other action back.

| Code | Model |
|---|---|
| `this.blocks`, `rawGroup`, `this.pending`, the group in `flushPending` | `buffer`, `raw`, `pending`, `group` |
| `fetchSpanCall` awaiting the RPC | an element of `flights` |
| `fetchSpanCall` after `drain()`, before `pump()` | one unit of `cooling` |
| `pump`, answers, errors | `Pump`, `RpcReturns`, `RpcFails` |
| `drain`: loop head, lock check, lookup, parse, flush, end | `DrainLoop`, `WipeSeen` and `Collect`, `Parse`, `FlushDone`, `DrainTail`, `Conclude` |
| its `catch` | `DrainThrows` |

The limits of `AdaptiveLimits` may change between two pumps: each pump takes any
values below the ceilings. `cooldown` says whether `BACKFILL_BATCH_DELAY_MS > 0`;
both values are initial states.

`IndexedChain` is what the walk promises: the table is `0 .. h` for a growing `h`,
until a block is lost. `BackfillJob` implements it (`ImplementsChain`) with
`intact` standing for "no await of `drain()` has thrown".

### `ChainSync` and `ChainMirror`

`ChainSync` composes TipFollower, the reorganisation handler, the sweep, the
sequential backfiller, BlockWriter, the tables, the cursor and a daemon whose
chain grows and reorganises. `Jobs` chooses which jobs run. An action is one
await of one job: `pc[j]` is the await, `at[j]` the job's locals. A hash is the
path of branches from genesis to its block, so that parent, height and "on the
daemon's chain" are operations on sequences. `rows` is `blocks`, `extras` the rows
of all other tables together. `Throws` ends a tick at any await, `Crash` ends all
of them; tables and cursor survive.

`ChainMirror` is what a reader of the index sees: its highest block moves to a child or
back to an ancestor, never sideways and never to nothing. `ChainSync` implements it
(`ImplementsMirror`) as long as no tick is cut short around a reorganisation.

### `AddressState`

The event log and the totals, statement by statement: `InsertLog`, `ReadSeen`,
`Upsert` (`applyBlocks`), `CollectDirty` to `MoveCursor` (`handle`),
`RebuildTruncate` and `RebuildInsert` (`rebuild-wallets`). A total counts how often
it has absorbed each delta: sums of amounts would hide an error that cancels out.
A block is its height and the number of the reorganisation that brought it. The
races between the daemon and the fetch are `ChainSync`'s, so `Fetch` takes the check
and the batch in one step; one indexer runs (the sweep is again `ChainSync`'s).

### `Rollups`

`refreshRollups` and its callers: `applyBlocks` at the tip waits for it, a post-commit of
the backfill is left behind (`Deferred`), a rollback asks for it before it moves the cursor.
`Request` is the coalescing (`running`, `from`, `fromHeight`); `Delete` to `InsertAll` are the
statements of `doRefresh`; `PassDone` is its loop. A bucket holds the set of blocks it was
summed over. Two rollups keyed by time, of different bucket length, stand for all of them;
the two superblock rollups are modelled as they are, per superblock and per year.

### `RpcLanes`

Time is in ticks: `left`, `quiet`, `debounce` are what is left of the code's timestamps.
`Pump` is the call of `getblocksbatch` by a walk and its two refusals, `Acquire` and
`Release` the semaphore, `RecordSuccess`, `RecordFailure`, `Probing` a breaker, `OnStress`
and `OnSuccess` the limits. A rejected walk leaves `current` and keeps its calls. `StartWalk` asks
the status as `run()` does; a walk may run out of heights at any pump, and ends in `Finish`
(`markLive`); `FallBehind` is TipFollower handing back to the backfiller.

### `Maintenance`

`schedule()` (`Fire`, `Check`, `CheckFails`, `End`), the admin watcher (`Claim` to `Clear`),
`runWipe` from the watcher or by hand (`CliStart`, `CliWipe`, `Heartbeat`), the lock with
its TTL (`Tick`), shutdown and crash, next to both indexer jobs reduced to the cursor and
the two kinds of rows. `Slot` numbers the ticks of one job that may be under way: a timer that fires
during the lock check of an earlier tick starts a second one, within `MaxEvents`. `GraceOver`
comes whenever the watcher's sleep or the deadline of the wipe by hand does, whether or not a batch
is in flight.

### `SearchQueue`

The stream with its MAXLEN (`Added`), the drain one await at a time (`LoadCursor`,
`CheckLock`, `Read`, `Flush`, `SaveCursor`), the indexes with the primary key Meilisearch
infers or not, `reindexMeili`, full and partial wipes, rollbacks (which delete rows, not
documents). A wipe that fails leaves the lock, if it was started by hand, to its TTL (`LockExpires`). `lost` names the kinds of which an envelope was dropped or overtaken.

### `Mempool`

The daemon's pool and chain; the watcher's tick (`ReadPool`, `EnterRow`, `EnterMrc`,
`AskDaemon`, `StampExit`, `TickDone`); the three writes of `applyBlocks` that touch the
same rows (`Reconcile`, `InsertMrcRequests`, `CaptureSnapshot`), in any order. There are two clocks: `now`
is the watcher's, which it stamps by, and a block carries whatever time its staker put in the header.
`ahead` remembers whether that was past `now` as the block was mined. `lost` names transactions of a disconnected
block and those whose entry or exit failed, until they enter again; `overtaken` those whose confirmation
the watcher wrote over.

### `WatermarkJobs`

Three jobs that read the index behind it: clusters (read groups, read assignments,
upsert, repoint, save), vote claims (batch, verify, upsert, save), poll weights
(anchor,
polls, weigh, final). Clusters without a watermark are rebuilt, or replayed from `SEED_REPLAY_BLOCKS`
below the tip. One job per behaviour, since they share only the index; the
indexer appends, rolls back and is wiped between any two of their awaits.

### `BlockParser` and `BlockTables`

`BlockParser` has no state: rows of a transaction (`Inputs`, `Outputs`, `Legs`),
`MarkPhantoms`, `PollRows`, `VotesOf`, `Candidates`, `MrcPayoutVouts`, `CoinstakeSidestakes`, which count
outputs from the back and skip `nulldata` ones, and the flows of the block page (`Matched`, `CollectedFees`, `SidestakeFlows`). `BlockTables` mines chains
of such blocks, applies them in batches of any length, fails a batch when some of its
inserts have landed (the others land later or never), applies it again, and replaces the chain.

## The runs

| Run | Question | Bounds |
|---|---|---|
| `backfill` | Is the table contiguous, every lookup complete, a wiped job silent; does the job settle, resolved only when complete, and implement `IndexedChain`? | 4 heights; 2 calls, 2 blocks per span, 2 per batch; one under-fill, RPC error, write fault, wipe, abort |
| `chain_follow` | Do the rows stay a chain, are rows and cursor consistent when settled, are only abandoned rows deleted, does the index become the daemon's chain, does it implement `ChainMirror`? | TipFollower; tip 2 to 5; two reorganisations of up to 3 blocks against `MAX_REORG_DEPTH` 2; one fault |
| `chain_handoff` | Do a fresh backfill, TipFollower and the sweep hand over without losing the cursor or the liveness? | empty start; tip to 5, lag threshold 2; no reorganisation, one fault, one sweep |
| `address_state` | Are the totals the sums of the log, does the log follow the blocks, do the totals become the sums over the daemon's chain? | 2 addresses, 3 heights, batches of up to 2; one reorganisation, one fault, one rebuild |
| `rpc_lanes` | Is the daemon left alone in the drain window, does the lane open again, does full speed come back if calls succeed? | 2 permits, span 1 to 3; two walks and a claim call; two live calls; three faults |
| `rollups` | Is every stale bucket in a window someone will rebuild, do superblock rollups follow, does the refresh end? | 2 heights, times 0 to 1, buckets of 1 and 2, years of 1; one deferred post-commit, one reorganisation, one fault |
| `maintenance` | Is every height the cursor covers in every table; is the index complete and live again after any wipe, crash, shutdown or overlap? | 3 heights, two ticks per job; one request, wipe by hand or overlap of two ticks; one fault |
| `search_queue` | Is the saved position never ahead of the documents, does every row get its document, is nothing deleted brought back? | 2 kinds, 2 contents, stream of 3, batches of 2, 4 envelopes; two wipes or reindexes, one fault |
| `mempool` | Do request and row agree on the arrival, is the snapshot complete, do the rows settle on the truth? | one transaction, 2 blocks with headers in any order, one disconnected, 2 ticks, one fault |
| `jobs` | Is no cluster split or joined without a link, does the window cover each rollback, is a final poll weighed, does each job catch up? | 4 addresses, 3 groups that chain; 4 blocks, depth 1, replay of 1; one rollback, wipe, rebuild, fault each |
| `block_tables` | Are the rows those of the chain, do three balances agree, do indexer and page read one coinstake alike, with and without data outputs and known fees? | 2 addresses, chains of 3 of 4 blocks; two unusual events, one failed batch |

Why these are enough to be of interest: four heights with spans of two give two spans in
flight, either of which may arrive first, be short or fail, and a pending group below
a full batch. `chain_follow` has a rollback to a fork, one during a rollback, one
that goes too deep, and a crash anywhere in them. `LagThreshold` 2 lets the daemon
run ahead of TipFollower and back to the backfiller several times. In `AddressState`
one address is in every block and the other in some, so that a rollback leaves one
address with a shorter history and the other with none. Two rollup callers are the least
that coalesce, and two times with buckets of one and two have a bucket that is cut by a window.
Two permits and a rejected walk fill the queue of the semaphore. A stream of three and four
envelopes drop one unread. Three groups that chain over four addresses merge two clusters that
exist. The interesting cases of `mempool` are about one transaction: the watcher handles them one
after the other. Every bound is a constant named `Max...` or a listed set; `CHECK_DEADLOCK FALSE`
stands where a bounded daemon at its last block leaves nothing to do.
`BackfillJob`, `RpcLanes` and `Maintenance` are checked for deadlock. In `Maintenance` a
wipe and an overlap of two ticks draw on one bound, since together they are too many states;
`CursorVouched` proves the safety half for any number of both.

Each module with typed state has a `TypeOK`. The runs leave it out, to spend their time on what can be
wrong; adding it to the `INVARIANTS` of a cfg checks it (it holds in each), and
those of the modules with proofs are theorems.

One more run, `sweep_race`, shows where a comment says more than the code does, and is a finding
in `PROJECT.json`: after a rollback TipFollower is said to fill the gap (`ChainReorgHandler.ts:18-20`);
when sweep and TipFollower roll back the same reorganisation, the slower one deletes what the faster one
has re-applied, under a cursor that has moved on.

Four more such places have no run of their own. Each is a case that a property excepts by
name; without the exception TLC finds it violated, or the model reaches it in a few steps.

| Where | What the comment says | What happens | Excepted by |
|---|---|---|---|
| `schedule.ts:10-13` | ticks of one job do not overlap | two timers both pass the flag while the first awaits its lock check (:38-47) | no property says so; `Fire` lets them |
| `wipeExplorer.ts:345-347` | no batch is mid-flight when a wipe by hand deletes | the wait watches the cursor only, and gives up after 30 s (:370-372) | `hurt`, set by `DeleteBlocks` |
| `BlockWriter.ts:578-583` | a snapshot is the pool as the block landed | a header ahead of the watcher's clock drops a transaction that was pending (:619-621) | `ahead` |
| `MempoolWatcher.ts:233-235`, `:245` | reconciliation repairs a wrong eviction | it has already run, and does not run again (:268) | `overtaken` |

### What the properties except

A property holds under the condition it names and no wider: `ContiguousUntilFault` on no
failed write, `Undisturbed` and `Clean` on no tick cut short around a reorganisation (and no rebuild
next to the indexer), `hurt`, `lost`, `overtaken`, `stale`, `missed` and `unbuilt` on the cases below, each
set by the step that does the damage. `Punctual`, in `SearchQueue`, says that a drain or post-commit in flight ends
within the grace of a wipe.

What follows is worth knowing of single properties. `SilentAfterWipe` is about a walk that saw the lock: one
that a wipe passes between two looks goes on. What the heavy lane holds is bounded by two theorems,
`CallersGateThemselves` for one caller and `PermitsConserved` for all together. `Recovers` promises full limits only if heavy calls keep succeeding.
`DrainWindow` lets a call that was queued before reach the daemon. `SuperblocksFollow` stops at a rollback.
`CursorWithinData` does not see the cursor move back. `SnapshotComplete` excepts a block that is ahead of the
watcher's clock, `ArrivalAgrees` the transactions of a disconnected block.

## Known limits of the code

Met while modelling; each is a condition of a property or out of the runs.

* **Index.** A failed flush loses its group while others are written above (`HistoricalBackfiller.ts:281`
  against :47-49). With a cooldown, a block that arrives during the last flush stays in the
  buffer (:308, :372). A row written before a crash and reorganised away before the retry is kept
  by `INSERT IGNORE` (`BlockWriter.ts:28` against :34-36). A reorganisation during an outage beyond the lag threshold
  is built upon, since the backfiller compares no hashes (`TipFollower.ts:82-93`). With the sweep
  and a reorganisation together, the properties of `chain_follow` fail as `sweep_race` shows.
* **Totals.** A rebuild next to a batch counts a delta twice (`adminWatcher.ts:76-81`). A rollback that dies
  between its DELETE and the repair is repeated without it (`ChainReorgHandler.ts:55-71`).
* **Rollups.** A reorganisation that removes a superblock leaves it in the superblock rollups until
  the next. A failed pass, or a crash between cursor and post-commit, loses its window. A rollback
  cut short behind the DELETE finds no time to refresh from (`ChainReorgHandler.ts:75`).
* **RPC lanes.** In half-open every call is let through, where the comment says one
  (`gridcoin.ts:87-88`). Calls of a rejected walk go on issuing new ones. Only a success of a heavy call
  raises the limits: an index that goes live after a stress keeps halved ones until it falls behind.
* **Maintenance.** The single-flight flag is set after an awaited lock check: when Redis answers later
  than the next timer, two ticks start (`schedule.ts:38`); the first tick of the fourth job may fall on its interval
  (`schedule.ts:71-74`). They do no lasting harm to the index (`Rebuilt`). A batch
  that is in flight when a wipe deletes goes on to write its rows and its cursor, above a gap. A walk that a full wipe ends writes
  `cursor?.height ?? 0`, and genesis is skipped (`TipFollower.ts:89-92` avoids just that). The watcher's lock
  lasts 600 s without a heartbeat; the Redis flush of a full wipe removes the lock before the search
  indexes are dropped. A process that dies in a task leaves the status `running`, and later requests are
  refused.
* **Search.** No `delete` envelope is ever emitted: documents of rolled-back rows stay. A failed
  `addDocuments` is logged and the position moves on. After a full wipe with the explorer running, indexes
  come back without key and settings until a restart. The partial wipe drops unread envelopes of
  rows that survive.
* **Mempool.** A restart stamps the arrival again. A late `EnterMrc` takes back a confirmed request; a
  failed or late exit overwrites a confirmation, for good (`overtaken`). A block ahead of the watcher's
  clock gets a snapshot without who left before its header time (`ahead`). A rollback deletes the requests of
  its blocks, and with them when they arrived: a request that comes back takes the block's time or the watcher's next
  look, and the row keeps its own (`chainTables.ts:11-40`, `BlockWriter.ts:720-742`). It does not undo `confirmed_at`, and
  `mempool_snapshots` is not among `CHAIN_HEIGHT_TABLES` (`chainTables.ts:3-7`, `routes/blocks.ts:428`).
* **Jobs.** The wall clock may finalise a poll while the last 300 s of votes are not indexed. The reset
  of finalised polls in a partial wipe asks for a height that is the superblock's before the poll
  (`wipeExplorer.ts:232-257`) and matches none. A crash between TRUNCATE and refill leaves
  no clusters, and one before the watermark of a first rebuild is saved only the last `SEED_REPLAY_BLOCKS` to be read
  again (`AddressClusterJob.ts:70`). `rebuild-clusters` next to a tick can split a cluster. A partial wipe
  is not read again below a watermark. Votes that a rollback brings back after the final pass have no weight.
* **Tables.** A coinstake that stakes a spent output books the net, and the phantom correction the gross
  (`PhantomSpendDetector.ts:29-37`). Whether a legacy vote finds a poll whose title recurs depends
  on the batch. Equal MRC payouts may be shown for one another.

## Fairness

* `BackfillJob`: weak fairness of `Work`. A call that was started answers or fails within
  `RPC_TIMEOUT_MS`, a statement answers, a timer fires. Faults, aborts and wipes are
  never forced. `Settles` therefore says that nothing is left hanging by the job's
  own logic; it is conditioned on no cooldown, with which it fails.
* `ChainSync`: weak fairness per job. `schedule()` starts each job's tick again and
  again, and what it awaits answers. A job that is never enabled (its status
  belongs to another) is not forced.
* `AddressState`: weak fairness of the indexer, and of the rebuild once it has
  truncated. Nobody has to request a rebuild.
* `RpcLanes`: time passes, calls end (`RPC_TIMEOUT_MS`), the scheduler starts a walk when none is
  awaited and the status is `backfilling`, a walk pumps and finishes, the live lane is polled. Nobody has to
  ask for a claim, no pump has to find a height left, and TipFollower never has to fall behind: that
  heavy calls are made is a premise of `Recovers` and, through the status, of `Reopens`.
* `Rollups`: a statement of each caller's pass, and of the indexer once it has begun its
  refresh or its rollback. No block has to be applied.
* `Maintenance`: timers fire, what a tick awaits answers, the clock ticks, a shutdown ends. Tasks
  and faults are never forced.
* `SearchQueue`: the drain loops for ever, post-commits and scripts go on, a lock expires.
  `Mempool`: the watcher polls, the indexer follows. `WatermarkJobs`: ticks follow ticks.
* `BlockTables` has safety only.
* No fairness of the daemon: it may stop growing at any time, which is the case
  `Converges` and `TotalsConverge` are about. Their exceptions (`Parked`,
  `Unnoticed`) are what the code documents or cannot see: a reorganisation beyond
  `MAX_REORG_DEPTH`, and one to a tip that is no higher than the indexed one.

## What is proved

Each `X_proof` module EXTENDS `X` and proves its theorems for every value of the constants, from
the named assumption of `X` alone unless a theorem states more. All follow one pattern: an inductive
invariant, `Init` establishes it, each action preserves it, and the property is read off it.
The proofs use the next-state relation only, no fairness. The theorems are listed under `theorems` in
`PROJECT.json`; the properties that they state are those the runs check.

| Module | Property of the runs | Holds | Inductive invariant |
|---|---|---|---|
| `BackfillJob_proof` | `ContiguousUntilFault`, `LookupComplete`, `ResolvedMeansComplete`, `SilentAfterWipe`, `ImplementsChain` | always | `Pipeline`, `Ladder`, `Endings` |
| `ChainSync_proof` | `CursorWithinData` | always | `Shape`, `Straight` |
| | `RowsLinked` | until the first reorganisation, all jobs; through any number, `Jobs = {"tip"}` | `Straight`; `Followed` |
| | `Watermark` | until the first reorganisation; through any number, `Exclusive` | `Straight`; `Vouched`, `TakesTurns` |
| | `SettledConsistent`, `ImplementsMirror` | `Jobs = {"tip"}` | `Followed`, `Mirrored` |
| | `OnlyAbandonedDeleted` | `Jobs = {"tip"}` | `Forked` |
| `AddressState_proof` | `LogFollowsBlocks`, `ProjectionExact` | always | `IInv` |
| `RpcLanes_proof` | `DrainWindow`; beside the runs, `SelfGated` and `Conserved` | always | `Recorded`, `Conserved` |
| `Rollups_proof` | `StaleIsCovered` | always | `Windows` |
| | `SuperblocksFollow` | always | `SuperblocksDue` |
| `Mempool_proof` | `ArrivalAgrees`, `SnapshotComplete` | always | `Mined`, `Watched`, `Stamped`, `Arrived` |
| `Maintenance_proof` | `Vouches` | always | `Sound` |
| `WatermarkJobs_proof` | `NeverSplit`, `NoOverMerge` | always | `Sorted` |
| | `WindowCovers` | always | `Window` |
| | `WeighedWhenFinal` | always | `Final` |

"Always" means: under the condition the property itself names, and no other. Each of the eight also
proves its type invariant, `[]TypeOK`, with no hypothesis.

**Backfill.** `Pipeline` says that the four places a height passes (`blocks`, `group`, `pending`,
`raw`) hold exactly `0 .. nextToWrite - 1` between them, in order, until a write fault: whatever is in the
table is a prefix. Steps of the fetcher leave all four alone, whatever span they rewind to. `Endings` says
which of its outcomes a walk can still have at each await. From both, every step of `drain()` maps to
a step of `IndexedChain` or a stutter.

**Sync.** Two arguments, since the code gives two guarantees. Until the daemon reorganises, all that
the three jobs hold, at every await, is a prefix of one chain (`Straight`): so whoever writes writes the same.
Through reorganisations the code relies on the jobs not writing at the same time. `TakesTurns` is
what the status in the cursor buys: backfiller and TipFollower apply in turn, unless both find an empty
database. With it, `Vouched` holds: a row of `blocks` has all its other rows, and no rollback may separate
them. With TipFollower as the only writer, `Followed` says what a rollback walks along: rows are a
path; the other tables have its blocks, or what is about to be deleted; the fork found is on the path. The
refinement of `ChainMirror` needs in addition that a tick never shows a reader less than it has already
decided to keep (`Mirrored`). These hypotheses are needed: TLC finds `Watermark` and `RowsLinked` violated with
the sweep and one reorganisation (this is `sweep_race`), and `RowsLinked` with the backfiller and one.
`OnlyAbandonedDeleted` has to survive what a tick cut short leaves behind: rows above the cursor, and a daemon
whose chain was moved while the fork was looked for. `Forked` says, until a second reorganisation: the table
ends at most one row above the cursor; a rollback starts from a cursor the daemon has abandoned; and the rows above every
height it has walked past, and above the fork it found, are off the daemon's chain, which can then only grow.

**Totals.** A total must count each logged delta once. The key is `Counted`: at every await an address
has absorbed exactly the logged deltas up to its `last_seen_block`, in a batch, a replay and a rollback
alike, except for the addresses a rollback knows to be dirty. It rests on which heights are in which of the
four tables at that await (`Rows`, `LogRows`).

**RPC lanes.** `Recorded` ties each walk's counter to its calls, `Conserved` the permits to the
calls that hold one. `DrainWindow` is an action property and is read off both.

**Rollups.** `Windows`: a stale bucket is in the pending window, in what the running pass has still to
rebuild, or in the window some caller has yet to ask for; and a pass that was overtaken has a
pending window again. The superblock tables are rebuilt from lists a pass takes (the first superblock of
its window, the years with one in it): `SuperblocksDue` says that what they lack is pending, asked for by a
caller, or still before the running pass, on a list it has taken included.

**Mempool.** Both properties compare what two writers, the watcher and the indexer, leave in one row.
`SnapshotComplete` rests on the stamps: the capture filters on them, so a stamp must be no older than any
header, not ahead of the clock, of a block mined while its transaction waited and still to be indexed (`Stamped`), also
when the watcher has asked the daemon and not yet written (`Watched`). Nothing is assumed of the order of headers. `ArrivalAgrees` rests on the heights: a request that is confirmed has its place in the
daemon's block of that height, and up to there index and daemon agree (`Arrived`), so that no rollback deletes one of the
two and leaves the other. `Mined` is the order of the daemon's chain both use. `lost` stays what the property
excepts; the invariant names no other exception.

**Maintenance.** Ticks of one job may overlap, so that no argument may rest on a job being alone. `Typed` says what
locals a tick, and a wipe of either kind, has at each await. `Sound` says, until the damage `hurt` records: rows are
a prefix, the other tables have them, the cursor is at most their height, and so is every height that a tick under
way has read and will write back (`Covered`); a wipe between rows and cursor is the only time the cursor
may exceed them, and then no tick of the indexer is under way.

**Watermark jobs.** `Sorted`: the address a cluster is named for belongs to it and keeps it together
(`Sound`), no component of a merge meets another or its clusters (`Apart`), what waits to be written has no
cluster yet and no merge to come renames the one it is to get (`Waiting`). From these, new names are
fresh, clusters grow only, and all they join is linked. The lemmas on `Components` (they are the classes of
being linked) hold without finiteness: a class is given outright, not built. `Window`: neither the
watermark nor the bound a tick will save as such is further than `MaxReorgDepth` above a fork that has not been
read again; a replay without a watermark is `unbuilt`'s. `Final`: once a tick has found the poll over, the tip is at most `Fresh` short of its end, so
no block yet to come is in time.

`Max` and `Min` of the community modules choose; that there is something to choose comes from the
well-foundedness of the naturals. The modules that take a greatest or least element prove it (`LeastElement`,
`GreatestElement`).

### What stays with TLC

* **Liveness** (`Settles`, `Converges`, `TotalsConverge`, `Recovers`, `Reopens`, `Rebuilt`, `CatchesUp`) and `ENABLED`: out of
  reach of TLAPS here.
* **Sums over data** in `BlockParser` and all of `BlockTables` (`TablesFollowChain`, `BalancesAgree`, `SidestakesAgree`,
  `FlowsBalance`): recursive operators.
* **`SearchQueue`** (`PositionCovered`, `NoResurrection`): not attempted. A proof has to follow, for every
  indexer and document, which stream entries are above the saved position, through trims, wipes and reindexing.
* The hypotheses above (`Jobs = {"tip"}`, `Exclusive`) are not in the runs' properties: the runs
  check the same properties on instances that meet them.

## Abstractions

* A statement is atomic and commits by itself; a statement that throws may or may
  not have committed where the code can tell (`DrainThrows`).
* A tick that throws is over, except in `BlockTables`, where the other inserts of a failed
  `Promise.all` land later.
* The sequential walk of the backfiller stands for its pipeline in `ChainSync` and `Maintenance`.
* Clocks: in `Mempool` the staker's, in the header, and the watcher's are two, the latter also the database's.
  `Rollups` lets block times come in any order. In `WatermarkJobs` a tip may be as old as it likes, but
  for the poll weights times ascend and none is later than the wall clock.
* `liveRpc.getBlocksBatch` answers with one snapshot of the daemon's chain.
* In `ChainSync` all tables other than `blocks` are one write; the order between them is
  `AddressState`'s, `Mempool`'s and `BlockTables`' subject.
* Amounts are small integers in `BlockParser` and absent elsewhere: what is summed is a set of blocks or
  a count of deltas, so that errors cannot cancel out.

## Not modelled

* **Frontend, API, presenters, metrics**: read-only. Two thirds of the repository's lines are
  pages, and most of what is left is queries; no state of the index depends on them, so the share of
  the lines the models map stays small by nature. The one computation behind a page that has to
  agree with the indexer, `lib/blockFlow.ts`, is in `BlockParser`.
* **Parser detail**: text formats of beacon, superblock, message and protocol contracts,
  blocks older than the MRC layout. Pure data, one format each, with unit tests.
* **Statistics, imports, superblock precompute, network polls**: periodic jobs that replace a row per day,
  snapshot or key; nothing is built on them.
* **Events**: fan-out to SSE clients, where loss is allowed.
* **Migrations, pools, SQL text**: a statement is a step.

`components` in `PROJECT.json` has the status and the reason for each part.

## Plan

Done: all components with state of their own that the index or its derived tables depend on, each
in a module above; both abstract specifications, each shown to be implemented; the theorems above.

Left: a proof of `PositionCovered` in `SearchQueue`, and of `NoResurrection` from it.
