------------------------------- MODULE Mempool -------------------------------
(***************************************************************************)
(* The observed mempool: MempoolWatcher compares each getrawmempool with   *)
(* the one before and stamps rows of mempool_txs and mrc_requests; the     *)
(* indexer, on its own schedule, re-stamps them from the blocks it applies *)
(* (reconcileMempool, insertMrcRequests) and freezes the pool at each      *)
(* block (captureMempoolSnapshots).                                        *)
(*                                                                         *)
(* Every transaction carries an MRC.  An action is one await; the three    *)
(* writes of applyBlocks run in any order.  The watcher stamps by its own  *)
(* clock; a block carries the time its staker put in the header, which may *)
(* be any, and, for the properties only, whether that was ahead of it.     *)
(***************************************************************************)
EXTENDS Integers, Sequences, FiniteSets, SequencesExt

CONSTANTS
  Tx,          \* transactions
  MaxTime,     \* the last tick of the watcher's clock, and the last header time
  MaxBlocks,   \* blocks the daemon ever mines
  MaxReorgs,   \* times its last block is disconnected
  MaxFaults    \* restarts, failed calls

ASSUME MempoolAssumption ==
  MaxTime \in Nat \ {0} /\ MaxBlocks \in Nat /\ MaxReorgs \in Nat /\ MaxFaults \in Nat

Null == 0
NoRow == [first |-> Null, confirmed |-> Null, evicted |-> Null]
NoMrc == [first |-> Null, height |-> Null]

VARIABLES
  now,
  pool, chain, sent,     \* the daemon: its pool, its blocks, what it has ever seen
  mined, reorgs,
  txs, mrc,              \* mempool_txs and mrc_requests: a row, or NoRow, NoMrc
  snaps,                 \* mempool_snapshots
  blocks, applying,      \* the indexer's blocks; the one it applies, and the writes left
  last,                  \* lastSnapshot
  watch,                 \* tick: where it is, the pool it read, what is left, what is in hand
  lost,                  \* transactions whose row the watcher cannot be right about any more
  overtaken,             \* those whose confirmation the watcher wrote over
  faults

daemon == <<pool, chain, sent, mined, reorgs>>
tables == <<txs, mrc, snaps>>
indexer == <<blocks, applying>>
watcher == <<last, watch>>
vars == <<now, daemon, tables, indexer, watcher, lost, overtaken, faults>>

Times == 1 .. MaxTime
\* A block: the time in its header, whether the clock was not there yet as it was mined, and the
\* pool it was mined from.
Block == [id : 1 .. MaxBlocks, time : Times, ahead : BOOLEAN, txs : SUBSET Tx, pool : SUBSET Tx]
Writes == {"reconcile", "mrc", "snapshot"}
Resting == [block |-> [id |-> Null, time |-> Null, ahead |-> FALSE, txs |-> {}, pool |-> {}], left |-> {}]
Idle == [pc |-> "idle", pool |-> {}, left |-> {}, tx |-> {}, time |-> Null, confirmed |-> FALSE]

TypeOK ==
  /\ now \in Times /\ pool \subseteq sent /\ sent \subseteq Tx
  /\ Range(chain) \subseteq Block /\ Range(blocks) \subseteq Block
  /\ mined \in 0 .. MaxBlocks /\ reorgs \in 0 .. MaxReorgs /\ faults \in 0 .. MaxFaults
  /\ txs \in [Tx -> [first : 0 .. MaxTime, confirmed : 0 .. MaxTime, evicted : 0 .. MaxTime]]
  /\ \A t \in Tx : txs[t].confirmed = Null \/ txs[t].evicted = Null
  /\ mrc \in [Tx -> [first : 0 .. MaxTime, height : 0 .. MaxBlocks]]
  /\ snaps \subseteq [height : 1 .. MaxBlocks, block : 1 .. MaxBlocks, tx : Tx, included : BOOLEAN]
  /\ applying = Resting \/ (applying.block \in Block /\ applying.left \subseteq Writes)
  /\ last \subseteq Tx /\ lost \subseteq Tx /\ overtaken \subseteq Tx
  /\ watch.pc \in {"idle", "entries", "mrc", "exits", "update"}
  /\ watch.pool \cup watch.left \cup watch.tx \subseteq Tx
  /\ watch.time \in 0 .. MaxTime /\ watch.confirmed \in BOOLEAN

Init ==
  /\ now = 1 /\ pool = {} /\ chain = << >> /\ sent = {} /\ mined = 0 /\ reorgs = 0
  /\ txs = [t \in Tx |-> NoRow] /\ mrc = [t \in Tx |-> NoMrc] /\ snaps = {}
  /\ blocks = << >> /\ applying = Resting /\ last = {} /\ watch = Idle /\ lost = {}
  /\ overtaken = {} /\ faults = 0

In(c) == UNION {b.txs : b \in Range(c)}
Fault == faults < MaxFaults /\ faults' = faults + 1

-----------------------------------------------------------------------------
(* The daemon and the clock. *)

Tick ==
  /\ now < MaxTime /\ now' = now + 1
  /\ UNCHANGED <<daemon, tables, indexer, watcher, lost, overtaken, faults>>

Arrives(t) ==
  /\ t \notin sent /\ sent' = sent \cup {t} /\ pool' = pool \cup {t}
  /\ UNCHANGED <<now, chain, mined, reorgs, tables, indexer, watcher, lost, overtaken, faults>>

Dropped(t) ==
  /\ t \in pool /\ pool' = pool \ {t}
  /\ UNCHANGED <<now, chain, sent, mined, reorgs, tables, indexer, watcher, lost, overtaken, faults>>

\* A block, of transactions of the pool or of those only other nodes kept.  The staker's clock
\* is another than the watcher's.
Mines(in, time) ==
  /\ mined < MaxBlocks /\ mined' = mined + 1 /\ in \subseteq sent \ In(chain) /\ pool' = pool \ in
  /\ chain' = Append(chain, [id |-> mined + 1, time |-> time, ahead |-> time > now,
                             txs |-> in, pool |-> pool])
  /\ UNCHANGED <<now, sent, reorgs, tables, indexer, watcher, lost, overtaken, faults>>

\* The last block is disconnected.  Its transactions go back to the pool, or are in conflict
\* with what replaces it; if the watcher reads the pool too late it sees neither.
Disconnects ==
  /\ chain # << >> /\ mined < MaxBlocks /\ reorgs < MaxReorgs /\ reorgs' = reorgs + 1
  /\ chain' = Front(chain) /\ pool' \in {pool, pool \cup Last(chain).txs}
  /\ lost' = lost \cup Last(chain).txs
  /\ UNCHANGED <<now, sent, mined, tables, indexer, watcher, overtaken, faults>>

-----------------------------------------------------------------------------
(* MempoolWatcher.tick: the diff, then each entry and each exit in turn. *)

ReadPool ==
  /\ watch.pc = "idle" /\ watch' = [Idle EXCEPT !.pc = "entries", !.pool = pool, !.left = pool \ last]
  /\ UNCHANGED <<now, daemon, tables, indexer, last, lost, overtaken, faults>>

\* handleEntry, once the transaction and its inputs are fetched: a fresh row, whatever was there.
EnterRow(t) ==
  /\ watch.pc = "entries" /\ t \in watch.left
  /\ watch' = [watch EXCEPT !.pc = "mrc", !.left = @ \ {t}, !.tx = {t}, !.time = now]
  /\ txs' = [txs EXCEPT ![t] = [NoRow EXCEPT !.first = now]]
  /\ lost' = lost \ {t} /\ overtaken' = overtaken \ {t}
  /\ UNCHANGED <<now, daemon, mrc, snaps, indexer, last, faults>>

\* The block of t has been through write w.
Written(t, w) ==
  \/ t \in In(blocks)
  \/ applying # Resting /\ t \in applying.block.txs /\ w \notin applying.left

\* The request: height NULL, over a confirmed one if the block came first.
EnterMrc ==
  /\ watch.pc = "mrc" /\ watch' = [watch EXCEPT !.pc = "entries", !.tx = {}, !.time = Null]
  /\ mrc' = [t \in Tx |-> IF t \in watch.tx THEN [first |-> watch.time, height |-> Null] ELSE mrc[t]]
  /\ overtaken' = overtaken \cup {t \in watch.tx : Written(t, "mrc")}
  /\ UNCHANGED <<now, daemon, txs, snaps, indexer, last, lost, faults>>

\* A call of handleEntry or handleExit throws: a warning, and the next transaction.
HandleFails ==
  /\ Fault
  /\ \/ /\ watch.pc \in {"entries", "exits"}
        /\ \E t \in watch.left : watch' = [watch EXCEPT !.left = @ \ {t}] /\ lost' = lost \cup {t}
     \/ /\ watch.pc = "mrc" /\ lost' = lost \cup watch.tx
        /\ watch' = [watch EXCEPT !.pc = "entries", !.tx = {}, !.time = Null]
     \/ /\ watch.pc = "update" /\ lost' = lost \cup watch.tx
        /\ watch' = [watch EXCEPT !.pc = "exits", !.tx = {}, !.confirmed = FALSE]
  /\ UNCHANGED <<now, daemon, tables, indexer, last, overtaken>>

EntriesDone ==
  /\ watch.pc = "entries" /\ watch.left = {}
  /\ watch' = [watch EXCEPT !.pc = "exits", !.left = last \ watch.pool]
  /\ UNCHANGED <<now, daemon, tables, indexer, last, lost, overtaken, faults>>

\* handleExit: is it in a block?  No answer counts as no.
AskDaemon(t) ==
  /\ watch.pc = "exits" /\ t \in watch.left
  /\ \/ watch' = [watch EXCEPT !.pc = "update", !.left = @ \ {t}, !.tx = {t}, !.confirmed = t \in In(chain)]
        /\ UNCHANGED faults
     \/ watch' = [watch EXCEPT !.pc = "update", !.left = @ \ {t}, !.tx = {t}] /\ Fault
  /\ UNCHANGED <<now, daemon, tables, indexer, last, lost, overtaken>>

\* The stamp, over the one reconcileMempool may have set since.
StampExit ==
  /\ watch.pc = "update" /\ watch' = [watch EXCEPT !.pc = "exits", !.tx = {}, !.confirmed = FALSE]
  /\ txs' = [t \in Tx |->
       IF t \notin watch.tx \/ txs[t] = NoRow THEN txs[t]
       ELSE IF watch.confirmed THEN [txs[t] EXCEPT !.confirmed = now, !.evicted = Null]
       ELSE [txs[t] EXCEPT !.evicted = now, !.confirmed = Null]]
  /\ overtaken' = overtaken \cup {t \in watch.tx : ~watch.confirmed /\ Written(t, "reconcile")}
  /\ UNCHANGED <<now, daemon, mrc, snaps, indexer, last, lost, faults>>

\* Bug: the next tick is compared with the pool as it is now, not as this one read it.
TickDone_PoolNow ==
  /\ watch.pc = "exits" /\ watch.left = {} /\ watch' = Idle /\ last' = pool
  /\ UNCHANGED <<now, daemon, tables, indexer, lost, overtaken, faults>>

TickDone ==
  /\ watch.pc = "exits" /\ watch.left = {} /\ watch' = Idle /\ last' = watch.pool
  /\ UNCHANGED <<now, daemon, tables, indexer, lost, overtaken, faults>>

-----------------------------------------------------------------------------
(* The indexer. *)

StartApply ==
  /\ applying = Resting /\ IsPrefix(blocks, chain) /\ Len(blocks) < Len(chain)
  /\ applying' = [block |-> chain[Len(blocks) + 1], left |-> Writes]
  /\ UNCHANGED <<now, daemon, tables, blocks, watcher, lost, overtaken, faults>>

Height == Len(blocks) + 1
\* A write of a block that is not on the chain any more is not the row's last word.
Write(w) ==
  /\ w \in applying.left /\ applying' = [applying EXCEPT !.left = @ \ {w}]
  /\ lost' = IF applying.block \in Range(chain) THEN lost ELSE lost \cup applying.block.txs
Mine(t) == t \in applying.block.txs

Reconcile ==
  /\ Write("reconcile")
  /\ txs' = [t \in Tx |-> IF Mine(t) /\ txs[t] # NoRow /\ txs[t].confirmed = Null
               THEN [txs[t] EXCEPT !.confirmed = applying.block.time, !.evicted = Null] ELSE txs[t]]
  /\ UNCHANGED <<now, daemon, mrc, snaps, blocks, watcher, overtaken, faults>>

\* Bug: the block's own time counts as the arrival.
InsertMrcRequests_Overwrite ==
  /\ Write("mrc")
  /\ mrc' = [t \in Tx |-> IF Mine(t) THEN [first |-> applying.block.time, height |-> Height] ELSE mrc[t]]
  /\ UNCHANGED <<now, daemon, txs, snaps, blocks, watcher, overtaken, faults>>

\* The arrival is preserved; without one, the block's time stands in.
InsertMrcRequests ==
  /\ Write("mrc")
  /\ mrc' = [t \in Tx |->
       IF ~Mine(t) THEN mrc[t]
       ELSE [first |-> IF mrc[t] = NoMrc THEN applying.block.time ELSE mrc[t].first, height |-> Height]]
  /\ UNCHANGED <<now, daemon, txs, snaps, blocks, watcher, overtaken, faults>>

\* Bug: the active set of the /mempool route, which ends at the confirmation.
ActiveAt_Strict(t, time) ==
  /\ txs[t] # NoRow /\ txs[t].first <= time
  /\ txs[t].confirmed = Null \/ txs[t].confirmed > time
  /\ txs[t].evicted = Null \/ txs[t].evicted > time

ActiveAt(t, time) ==
  /\ txs[t] # NoRow /\ txs[t].first <= time
  /\ txs[t].confirmed = Null \/ txs[t].confirmed >= time
  /\ txs[t].evicted = Null \/ txs[t].evicted >= time

\* Rows of one height and transaction are replaced, others of that height stay.
CaptureSnapshot ==
  LET seen == {t \in Tx : ActiveAt(t, applying.block.time)} IN
  /\ Write("snapshot")
  /\ snaps' = {s \in snaps : s.height # Height \/ s.tx \notin seen} \cup
       {[height |-> Height, block |-> applying.block.id, tx |-> t, included |-> Mine(t)] : t \in seen}
  /\ UNCHANGED <<now, daemon, txs, mrc, blocks, watcher, overtaken, faults>>

InsertBlocks ==
  /\ applying # Resting /\ applying.left = {} /\ applying' = Resting
  /\ blocks' = Append(blocks, applying.block)
  /\ UNCHANGED <<now, daemon, tables, watcher, lost, overtaken, faults>>

\* handle: the chain tables from the fork on.  mempool_txs and mempool_snapshots are none.
RollBack ==
  /\ applying = Resting /\ blocks # << >> /\ ~IsPrefix(blocks, chain)
  /\ blocks' = Front(blocks)
  /\ mrc' = [t \in Tx |-> IF mrc[t].height >= Len(blocks) THEN NoMrc ELSE mrc[t]]
  /\ UNCHANGED <<now, daemon, txs, snaps, applying, watcher, lost, overtaken, faults>>

\* The process restarts: lastSnapshot is empty, the block is applied again.
Restart ==
  /\ Fault /\ last' = {} /\ watch' = Idle /\ applying' = Resting
  /\ lost' = lost \cup watch.tx \cup
       {t \in Tx : txs[t] # NoRow /\ txs[t].confirmed = Null /\ txs[t].evicted = Null}
  /\ UNCHANGED <<now, daemon, tables, blocks, overtaken>>

-----------------------------------------------------------------------------
WatchStep ==
  \/ ReadPool \/ EnterMrc \/ EntriesDone \/ StampExit \/ TickDone
  \/ \E t \in Tx : EnterRow(t) \/ AskDaemon(t)

IndexStep == StartApply \/ Reconcile \/ InsertMrcRequests \/ CaptureSnapshot \/ InsertBlocks \/ RollBack

Next ==
  \/ Tick \/ Disconnects
  \/ \E t \in Tx : Arrives(t) \/ Dropped(t)
  \/ \E in \in SUBSET Tx, time \in Times : Mines(in, time)
  \/ WatchStep \/ IndexStep \/ HandleFails \/ Restart

Safety == Init /\ [][Next]_vars

\* The watcher polls for ever, the indexer follows the chain.
Spec == Safety /\ WF_vars(WatchStep) /\ WF_vars(IndexStep)

-----------------------------------------------------------------------------
\* Who waited as the block was mined and has a row no newer than its header is in the snapshot
\* that is taken.
Frozen(t) ==
  /\ applying # Resting /\ "snapshot" \in applying.left \ applying'.left /\ applying' # Resting
  /\ t \in applying.block.pool /\ txs[t] # NoRow /\ txs[t].first <= applying.block.time
  => [height |-> Height, block |-> applying.block.id, tx |-> t, included |-> Mine(t)] \in snaps'

\* Whichever of the watcher's exit, reconcileMempool and the capture comes first, the snapshot of
\* a block has every transaction that was pending as it was mined and that the watcher had seen:
\* of a block whose header is not ahead of the watcher's clock.  Headers may go back and forth.
SnapshotComplete ==
  [][~applying.block.ahead => \A t \in Tx \ lost : Frozen(t)]_vars

\* "Keep the earlier mempool value": a request and its row agree on when it arrived, whether the
\* block or the watcher came first (the wait-time distribution is computed from it).
ArrivalAgrees ==
  \A t \in Tx \ (lost \cup watch.tx) :
    txs[t] # NoRow /\ mrc[t] # NoMrc => mrc[t].first = txs[t].first

\* Once the daemon rests, every row says where its transaction is, in whatever order exits,
\* confirmations and evictions came, save a confirmation the watcher wrote over (overtaken) and
\* what it could not see (lost).
Settles ==
  <>[](\A t \in Tx \ lost :
         /\ t \in pool => txs[t] # NoRow /\ txs[t].confirmed = Null /\ txs[t].evicted = Null
         /\ txs[t] # NoRow /\ t \in In(chain) \ overtaken => txs[t].confirmed # Null
         /\ txs[t] # NoRow /\ t \notin pool \cup In(chain) => txs[t].evicted # Null
         /\ t \in In(chain) \ overtaken => mrc[t].height # Null
         /\ mrc[t].height # Null => t \in In(chain))
=============================================================================
