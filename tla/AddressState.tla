---------------------------- MODULE AddressState ----------------------------
(***************************************************************************)
(* The running totals of every address (table `address_state`) and the     *)
(* event log they are a projection of (table `address_balance_history`).   *)
(* Three operations write the totals, each in several statements that are  *)
(* committed one by one:                                                   *)
(*   applyBlocks()            logs the deltas of a batch of blocks and adds*)
(*                            those it has not absorbed yet                *)
(*   ChainReorgHandler.handle()  deletes the abandoned part of the log and *)
(*                            recomputes the addresses it touched          *)
(*   rebuildAddressState()    the admin task `rebuild-wallets`: TRUNCATE,  *)
(*                            then one INSERT ... SELECT                   *)
(* The first two are the indexer, one after the other; the third runs next *)
(* to it.                                                                  *)
(*                                                                         *)
(* A block is its height and the generation of the reorganisation that     *)
(* brought it.  A delta is the block it comes from, and a total counts how *)
(* often it has absorbed each of them: the sum of the log is right if and  *)
(* only if every delta of the log is counted once and no other is.         *)
(***************************************************************************)
EXTENDS Integers, FiniteSets, FiniteSetsExt

CONSTANTS
  Addresses,
  Contents,      \* the sets of addresses a block may touch
  BatchSize,     \* blocks per applyBlocks()
  MaxHeight,     \* bound: the daemon's tip
  MaxReorgs,     \* bound: reorganisations of the daemon
  MaxFaults,     \* bound: awaits that throw, and crashes of the process
  MaxRebuilds    \* bound: rebuild-wallets tasks

ASSUME AddressAssumption ==
  /\ Contents \subseteq SUBSET Addresses
  /\ {BatchSize, MaxHeight} \subseteq Nat \ {0}
  /\ {MaxReorgs, MaxFaults, MaxRebuilds} \subseteq Nat

VARIABLES
  daemon,     \* the daemon's chain above genesis
  log,        \* address_balance_history: the generation at (address, height)
  total,      \* address_state.balance: how often each delta is counted
  lastSeen,   \* address_state.last_seen_block, 0 when there is no row
  blocks,     \* `blocks`: the generation at each height
  cursor,     \* the highest indexed block
  pc,         \* the await the indexer is suspended at
  batch, seen, fork, dirty,   \* the indexer's locals
  admin,      \* the await the rebuild is suspended at
  mixed,      \* the rebuild and an operation of the indexer have overlapped
  reorgs, faults, rebuilds    \* counters for the bounds

chain == <<daemon, reorgs>>
projection == <<total, lastSeen>>
locals == <<batch, seen, fork, dirty>>
task == <<admin, rebuilds>>
vars == <<chain, log, projection, blocks, cursor, pc, locals, task, mixed, faults>>

Heights == 1 .. MaxHeight
Generations == 0 .. MaxReorgs
None == -1                       \* no row
Delta == Heights \X Generations
Block == [gen : Generations, touches : Contents]

IndexerSteps == {"idle", "insertLog", "readSeen", "upsert", "insertBlocks", "setCursor",
                 "findFork", "collect", "deleteBlocks", "deleteLog",
                 "recompute", "dropEmpty", "moveCursor"}

TypeOK ==
  /\ daemon \in [Heights -> Block]
  /\ log \in [Addresses -> [Heights -> Generations \cup {None}]]
  /\ total \in [Addresses -> [Delta -> Nat]]
  /\ lastSeen \in [Addresses -> 0 .. MaxHeight]
  /\ blocks \in [Heights -> Generations \cup {None}]
  /\ cursor \in [height : 0 .. MaxHeight, gen : Generations]
  /\ pc \in IndexerSteps
  /\ batch \in UNION {[S -> Block] : S \in SUBSET Heights}
  /\ seen \in [Addresses -> 0 .. MaxHeight]
  /\ fork \in 0 .. MaxHeight /\ dirty \subseteq Addresses
  /\ admin \in {"idle", "insert"} /\ mixed \in BOOLEAN
  /\ reorgs \in 0 .. MaxReorgs /\ faults \in 0 .. MaxFaults /\ rebuilds \in 0 .. MaxRebuilds

NothingSeen == [a \in Addresses |-> 0]
NoTotal == [d \in Delta |-> 0]
NoLog == [h \in Heights |-> None]

Init ==
  /\ daemon \in [Heights -> [gen : {0}, touches : Contents]]
  /\ log = [a \in Addresses |-> NoLog]
  /\ total = [a \in Addresses |-> NoTotal] /\ lastSeen = NothingSeen
  /\ blocks = NoLog /\ cursor = [height |-> 0, gen |-> 0]
  /\ pc = "idle" /\ admin = "idle" /\ mixed = FALSE
  /\ batch = << >> /\ seen = NothingSeen /\ fork = 0 /\ dirty = {}
  /\ reorgs = 0 /\ faults = 0 /\ rebuilds = 0

-----------------------------------------------------------------------------
(* What the log says of an address. *)
Logged(a) == {h \in Heights : log[a][h] # None}
SumOfLog(a) == [d \in Delta |-> IF log[a][d[1]] = d[2] THEN 1 ELSE 0]

LastLogged(a) == IF Logged(a) = {} THEN 0 ELSE Max(Logged(a))

Step(from, to) == pc = from /\ pc' = to

(* A tick ends, and its locals with it. *)
Ends ==
  /\ pc' = "idle"
  /\ batch' = << >> /\ seen' = NothingSeen /\ fork' = 0 /\ dirty' = {}

-----------------------------------------------------------------------------
(* applyBlocks().                                                          *)

(* The next blocks, when the first of them extends the cursor; else the    *)
(* reorganisation handler.                                                 *)
Fetch ==
  /\ pc = "idle" /\ cursor.height < MaxHeight
  /\ IF cursor.height > 0 /\ daemon[cursor.height].gen # cursor.gen
       THEN pc' = "findFork" /\ UNCHANGED batch
       ELSE /\ pc' = "insertLog"
            /\ \E last \in cursor.height + 1 .. MaxHeight :
                 /\ last <= cursor.height + BatchSize
                 /\ batch' = [h \in cursor.height + 1 .. last |-> daemon[h]]
  /\ UNCHANGED <<chain, log, projection, blocks, cursor, seen, fork, dirty, task, faults>>

(* INSERT IGNORE: a height that has a row keeps it. *)
InsertLog ==
  /\ Step("insertLog", "readSeen")
  /\ log' = [a \in Addresses |-> [h \in Heights |->
               IF log[a][h] = None /\ h \in DOMAIN batch /\ a \in batch[h].touches
                 THEN batch[h].gen ELSE log[a][h]]]
  /\ UNCHANGED <<chain, projection, blocks, cursor, locals, task, faults>>

ReadSeen ==
  /\ Step("readSeen", "upsert")
  /\ seen' = lastSeen
  /\ UNCHANGED <<chain, log, projection, blocks, cursor, batch, fork, dirty, task, faults>>

(* The heights of the batch whose delta the address has not absorbed. *)
Fresh(a) == {h \in DOMAIN batch : a \in batch[h].touches /\ h > seen[a]}

Upsert ==
  /\ Step("upsert", "insertBlocks")
  /\ total' = [a \in Addresses |-> [d \in Delta |->
                 IF d[1] \in Fresh(a) /\ batch[d[1]].gen = d[2]
                   THEN total[a][d] + 1 ELSE total[a][d]]]
  /\ lastSeen' = [a \in Addresses |-> Max(Fresh(a) \cup {lastSeen[a]})]
  /\ UNCHANGED <<chain, log, blocks, cursor, locals, task, faults>>

InsertBlocks ==
  /\ Step("insertBlocks", "setCursor")
  /\ blocks' = [h \in Heights |-> IF blocks[h] = None /\ h \in DOMAIN batch
                                    THEN batch[h].gen ELSE blocks[h]]
  /\ UNCHANGED <<chain, log, projection, cursor, locals, task, faults>>

SetCursor ==
  /\ pc = "setCursor" /\ Ends
  /\ LET last == Max(DOMAIN batch)
     IN  cursor' = [height |-> last, gen |-> batch[last].gen]
  /\ UNCHANGED <<chain, log, projection, blocks, task, faults>>

-----------------------------------------------------------------------------
(* ChainReorgHandler.handle().                                             *)

FindFork ==
  /\ Step("findFork", "collect")
  /\ fork' = Max({0} \cup {h \in 1 .. cursor.height : blocks[h] = daemon[h].gen})
  /\ UNCHANGED <<chain, log, projection, blocks, cursor, batch, seen, dirty, task, faults>>

(* The addresses with a logged delta above the fork point. *)
Touched == {a \in Addresses : \E h \in Logged(a) : h > fork}

CollectDirty ==
  /\ Step("collect", "deleteBlocks")
  /\ dirty' = Touched
  /\ UNCHANGED <<chain, log, projection, blocks, cursor, batch, seen, fork, task, faults>>

Above(table) == [h \in Heights |-> IF h > fork THEN None ELSE table[h]]

DeleteBlocks ==
  /\ Step("deleteBlocks", "deleteLog")
  /\ blocks' = Above(blocks)
  /\ UNCHANGED <<chain, log, projection, cursor, locals, task, faults>>

(* Bug: the table is missing from CHAIN_HEIGHT_TABLES. *)
DeleteLog_Missing ==
  /\ Step("deleteLog", "recompute")
  /\ UNCHANGED <<chain, log, projection, blocks, cursor, locals, task, faults>>

DeleteLog ==
  /\ Step("deleteLog", "recompute")
  /\ log' = [a \in Addresses |-> Above(log[a])]
  /\ UNCHANGED <<chain, projection, blocks, cursor, locals, task, faults>>

(* Bug: last_seen_block by GREATEST, as in applyAddressStateDeltas(). *)
Recompute_KeepsSeen ==
  /\ Step("recompute", "dropEmpty")
  /\ total' = [a \in Addresses |-> IF a \in dirty /\ Logged(a) # {} THEN SumOfLog(a) ELSE total[a]]
  /\ UNCHANGED <<chain, log, lastSeen, blocks, cursor, locals, task, faults>>

(* The two statements of repairAddressState(): recompute the addresses that*)
(* still have a delta, then drop the rows of those that have none.         *)
Recompute ==
  /\ Step("recompute", "dropEmpty")
  /\ LET repaired == {a \in dirty : Logged(a) # {}}
     IN  /\ total' = [a \in Addresses |-> IF a \in repaired THEN SumOfLog(a) ELSE total[a]]
         /\ lastSeen' = [a \in Addresses |->
              IF a \in repaired THEN LastLogged(a) ELSE lastSeen[a]]
  /\ UNCHANGED <<chain, log, blocks, cursor, locals, task, faults>>

(* Bug: the second statement is missing. *)
DropEmpty_Forgotten ==
  /\ Step("dropEmpty", "moveCursor")
  /\ UNCHANGED <<chain, log, projection, blocks, cursor, locals, task, faults>>

DropEmpty ==
  /\ Step("dropEmpty", "moveCursor")
  /\ LET empty == {a \in dirty : Logged(a) = {}}
     IN  /\ total' = [a \in Addresses |-> IF a \in empty THEN NoTotal ELSE total[a]]
         /\ lastSeen' = [a \in Addresses |-> IF a \in empty THEN 0 ELSE lastSeen[a]]
  /\ UNCHANGED <<chain, log, blocks, cursor, locals, task, faults>>

MoveCursor ==
  /\ pc = "moveCursor" /\ Ends
  /\ cursor' = [height |-> fork, gen |-> IF fork = 0 THEN 0 ELSE blocks[fork]]
  /\ UNCHANGED <<chain, log, projection, blocks, task, faults>>

-----------------------------------------------------------------------------
(* rebuildAddressState().                                                  *)

RebuildTruncate ==
  /\ admin = "idle" /\ rebuilds < MaxRebuilds
  /\ admin' = "insert" /\ rebuilds' = rebuilds + 1
  /\ total' = [a \in Addresses |-> NoTotal]
  /\ lastSeen' = [a \in Addresses |-> 0]
  /\ UNCHANGED <<chain, log, blocks, cursor, pc, locals, faults>>

(* Plain INSERT: it fails as a whole on a row that is there already. *)
RebuildInsert ==
  /\ admin = "insert" /\ admin' = "idle"
  /\ IF \E a \in Addresses : lastSeen[a] # 0 /\ Logged(a) # {}
       THEN UNCHANGED projection
       ELSE /\ total' = [a \in Addresses |-> IF Logged(a) = {} THEN total[a] ELSE SumOfLog(a)]
            /\ lastSeen' = [a \in Addresses |->
                 IF Logged(a) = {} THEN lastSeen[a] ELSE LastLogged(a)]
  /\ UNCHANGED <<chain, log, blocks, cursor, pc, locals, rebuilds, faults>>

-----------------------------------------------------------------------------
(* The daemon, and failures.                                               *)

DaemonReorgs ==
  /\ reorgs < MaxReorgs
  /\ reorgs' = reorgs + 1
  /\ \E at \in Heights : \E new \in [at .. MaxHeight -> [gen : {reorgs + 1}, touches : Contents]] :
       daemon' = [h \in Heights |-> IF h < at THEN daemon[h] ELSE new[h]]
  /\ UNCHANGED <<log, projection, blocks, cursor, pc, locals, task, faults>>

(* An await of the indexer throws; its next tick starts over. *)
Throws ==
  /\ pc # "idle" /\ faults < MaxFaults
  /\ Ends /\ faults' = faults + 1
  /\ UNCHANGED <<chain, log, projection, blocks, cursor, task>>

Crash ==
  /\ pc # "idle" \/ admin # "idle"
  /\ faults < MaxFaults
  /\ Ends /\ admin' = "idle" /\ faults' = faults + 1
  /\ UNCHANGED <<chain, log, projection, blocks, cursor, rebuilds>>

Indexer ==
  \/ Fetch \/ InsertLog \/ ReadSeen \/ Upsert \/ InsertBlocks \/ SetCursor
  \/ FindFork \/ CollectDirty \/ DeleteBlocks \/ DeleteLog
  \/ Recompute \/ DropEmpty \/ MoveCursor

Next ==
  /\ \/ Indexer /\ UNCHANGED task
     \/ RebuildTruncate \/ RebuildInsert
     \/ DaemonReorgs \/ Throws \/ Crash
  /\ mixed' = (mixed \/ (pc' # "idle" /\ admin' # "idle"))

Safety == Init /\ [][Next]_vars

(* schedule() keeps starting ticks, and the statements a tick or a rebuild *)
(* awaits are answered.                                                    *)
Spec == Safety /\ WF_vars(Next /\ Indexer) /\ WF_vars(Next /\ RebuildInsert)

-----------------------------------------------------------------------------
(* Properties.                                                             *)

(* No rebuild ran into the indexer or was cut short, and no tick was cut   *)
(* short around a reorganisation.                                          *)
Clean == ~mixed /\ (faults = 0 \/ (reorgs = 0 /\ rebuilds = 0))

AtRest == pc = "idle" /\ admin = "idle"

(* Up to the cursor every logged delta is counted once; above it, where a  *)
(* tick may have been cut short, at most once.                             *)
Exact ==
  \A a \in Addresses, d \in Delta :
    IF d[1] <= cursor.height THEN total[a][d] = SumOfLog(a)[d]
                             ELSE total[a][d] <= SumOfLog(a)[d]

(* Between ticks the totals are those of the event log: a replay after a   *)
(* crash counts nothing twice, a rollback forgets exactly what it deleted, *)
(* and a rebuild that had the tables for itself leaves them right.         *)
ProjectionExact == (Clean /\ AtRest) => Exact

(* Between ticks the event log is that of the stored chain up to the       *)
(* cursor: the delta of each stored block for the addresses it touches.    *)
LogFollowsBlocks ==
  (Clean /\ AtRest) =>
    \A a \in Addresses, h \in 1 .. cursor.height :
      /\ log[a][h] \in {None, blocks[h]}
      /\ blocks[h] = daemon[h].gen => (log[a][h] # None <=> a \in daemon[h].touches)

(* When the daemon's chain has come to rest, the totals become the sums    *)
(* over that chain, whatever was abandoned or replayed on the way.         *)
Settled ==
  \A a \in Addresses, d \in Delta :
    total[a][d] = IF daemon[d[1]].gen = d[2] /\ a \in daemon[d[1]].touches THEN 1 ELSE 0
Unnoticed == cursor.height = MaxHeight /\ cursor.gen # daemon[MaxHeight].gen
TotalsConverge == <>[](Settled \/ ~Clean \/ Unnoticed)
=============================================================================
