------------------------------ MODULE ChainSync ------------------------------
(***************************************************************************)
(* How the index follows the daemon's chain.  Three scheduled jobs write   *)
(* to the same tables and the same Redis cursor, and interleave at every   *)
(* await:                                                                  *)
(*   "fill"   HistoricalBackfiller.run(), in its sequential mode (the      *)
(*            pipelined mode is BackfillJob's subject)                     *)
(*   "tip"    TipFollower.tick()                                           *)
(*   "sweep"  ChainReorgHandler.safetySweep()                              *)
(* and both of the last two run ChainReorgHandler.handle().  An action is  *)
(* one await of one job: a statement, a Redis command or an RPC.           *)
(*                                                                         *)
(* A block is identified with its hash, and a hash with the path of        *)
(* branches that leads to it from genesis: a block at height h is a        *)
(* sequence of length h + 1, and its parent the sequence without its last  *)
(* element.  The daemon's chain is the hash of its tip.                    *)
(***************************************************************************)
EXTENDS Integers, Sequences, FiniteSets, SequencesExt

CONSTANTS
  Jobs,               \* the jobs that run: some of "fill", "tip", "sweep"
  Fresh,              \* start on empty tables, or with the index at the tip
  InitialTip,         \* the daemon's first tip height
  SafeConfirmations,  \* SAFE_CONFIRMATIONS
  MaxReorgDepth,      \* MAX_REORG_DEPTH
  LagThreshold,       \* LAG_THRESHOLD_FOR_REBACKFILL
  CatchupSpan,        \* CATCHUP_SPAN
  SweepWindow,        \* the 20 rows a sweep compares
  MinGain,            \* blocks a new branch has more than the old one, at least
  DaemonDepth,        \* bound: blocks a reorganisation of the daemon abandons
  MaxHeight,          \* bound: the daemon's highest tip
  MaxReorgs,          \* bound: reorganisations of the daemon
  MaxFaults,          \* bound: ticks that throw, and crashes of the process
  MaxRounds           \* bound: sweeps

ASSUME ChainAssumption ==
  /\ Jobs \subseteq {"fill", "tip", "sweep"}
  /\ Fresh \in BOOLEAN
  /\ {InitialTip, SafeConfirmations, MaxReorgDepth, LagThreshold, MinGain,
      DaemonDepth, MaxHeight, MaxReorgs, MaxFaults, MaxRounds} \subseteq Nat
  /\ {CatchupSpan, SweepWindow} \subseteq Nat \ {0}
  /\ InitialTip <= MaxHeight

VARIABLES
  daemon,    \* the hash of the daemon's tip
  rows,      \* table `blocks`: the hash at each height, NoHash for no row
  extras,    \* blocks whose rows in the other chain tables are there
  cursor,    \* the cursor in Redis, or NoCursor
  pc,        \* for each job, the await it is suspended at
  at,        \* for each job, its local variables
  reorgs, faults, rounds   \* counters for the bounds

vars == <<daemon, rows, extras, cursor, pc, at, reorgs, faults, rounds>>

Branch == {0, 1}
Heights == 0 .. MaxHeight
Hash == UNION {[1 .. h + 1 -> Branch] : h \in Heights}
NoHash == << >>
Height(hash) == Len(hash) - 1
Parent(hash) == Front(hash)
OnChain(chain, h) == SubSeq(chain, 1, h + 1)   \* its block at height h

Status == {"backfilling", "live", "reorg"}
Cursor(height, hash, status) == [height |-> height, hash |-> hash, status |-> status]
NoCursor == Cursor(-1, NoHash, "backfilling")   \* how a missing cursor is read
Cursors == [height : -1 .. MaxHeight, hash : Hash \cup {NoHash}, status : Status]

(* What a job remembers across its awaits: the cursor it last read, where  *)
(* it thinks the index ends, the tip or target it works towards, the       *)
(* blocks still to process, the rows still to compare, and the height it   *)
(* probes.                                                                 *)
Idle == [seen |-> NoCursor, height |-> -1, hash |-> NoHash, goal |-> 0,
         batch |-> << >>, stored |-> {}, probe |-> 0]

HandleSteps == {"handle", "probe", "stored", "giveUp", "deleteBlocks", "deleteRest", "moveCursor"}
ApplySteps == {"writeRest", "writeBlocks", "readStatus", "advance"}
Steps == HandleSteps \cup ApplySteps \cup
         {"idle", "getTip", "rewind", "fetch", "check", "query", "compare",
          "maxRow", "reconcile", "getTarget", "next", "readLive", "markLive"}

TypeOK ==
  /\ daemon \in Hash
  /\ rows \in [Heights -> Hash \cup {NoHash}]
  /\ extras \subseteq Hash
  /\ cursor \in Cursors
  /\ pc \in [Jobs -> Steps]
  /\ at \in [Jobs -> [seen : Cursors, height : -1 .. MaxHeight, hash : Hash \cup {NoHash},
                      goal : Heights, batch : Seq(Hash), stored : SUBSET Hash,
                      probe : -1 .. MaxHeight]]
  /\ reorgs \in 0 .. MaxReorgs /\ faults \in 0 .. MaxFaults /\ rounds \in 0 .. MaxRounds

Init ==
  /\ daemon = [i \in 1 .. InitialTip + 1 |-> 0]
  /\ IF Fresh
       THEN rows = [h \in Heights |-> NoHash] /\ extras = {} /\ cursor = NoCursor
       ELSE /\ rows = [h \in Heights |->
                         IF h <= InitialTip THEN OnChain(daemon, h) ELSE NoHash]
            /\ extras = {OnChain(daemon, h) : h \in 0 .. InitialTip}
            /\ cursor = Cursor(InitialTip, daemon, "live")
  /\ pc = [j \in Jobs |-> "idle"]
  /\ at = [j \in Jobs |-> Idle]
  /\ reorgs = 0 /\ faults = 0 /\ rounds = 0

counters == <<reorgs, faults, rounds>>
tables == <<rows, extras>>

-----------------------------------------------------------------------------
(* Control.  At(j, s): job j is at step s.  Goto(j, s): it goes on to s,   *)
(* keeping its locals; Finish(j): its tick ends.                           *)

At(j, s) == j \in Jobs /\ pc[j] = s
Goto(j, s) == pc' = [pc EXCEPT ![j] = s]
Keep(j, locals) == at' = [at EXCEPT ![j] = locals]
Finish(j) == Goto(j, "idle") /\ Keep(j, Idle)

-----------------------------------------------------------------------------
(* BlockWriter.applyBlocks() for the first block of the batch: the other   *)
(* tables, then `blocks`, each skipping rows that are there, then the      *)
(* cursor, with the status read just before.                               *)

(* Bug: `blocks` is one of the tables of the first round, and comes first. *)
WriteRest_BlocksFirst(j) ==
  /\ At(j, "writeRest")
  /\ LET block == Head(at[j].batch)
     IN  IF rows[Height(block)] = NoHash
           THEN rows' = [rows EXCEPT ![Height(block)] = block] /\ UNCHANGED <<extras, pc>>
           ELSE extras' = extras \cup {block} /\ Goto(j, "writeBlocks") /\ UNCHANGED rows
  /\ UNCHANGED <<daemon, cursor, at, counters>>

WriteRest(j) ==
  /\ At(j, "writeRest")
  /\ extras' = extras \cup {Head(at[j].batch)}
  /\ Goto(j, "writeBlocks")
  /\ UNCHANGED <<daemon, rows, cursor, at, counters>>

WriteBlocks(j) ==
  /\ At(j, "writeBlocks")
  /\ LET block == Head(at[j].batch)
     IN  rows' = [rows EXCEPT ![Height(block)] = IF @ = NoHash THEN block ELSE @]
  /\ Goto(j, "readStatus")
  /\ UNCHANGED <<daemon, extras, cursor, at, counters>>

ReadStatus(j) ==
  /\ At(j, "readStatus")
  /\ Keep(j, [at[j] EXCEPT !.seen = cursor])
  /\ Goto(j, "advance")
  /\ UNCHANGED <<daemon, tables, cursor, counters>>

(* Bug: applyBlocks() writes a status of its own, as it once did.          *)
Advance_OwnStatus(j) ==
  /\ At(j, "advance")
  /\ LET block == Head(at[j].batch)
     IN  /\ cursor' = Cursor(Height(block), block, "backfilling")
         /\ Keep(j, [at[j] EXCEPT !.height = Height(block), !.hash = block,
                                  !.batch = Tail(@)])
  /\ Goto(j, IF j = "fill" THEN "next" ELSE "check")
  /\ UNCHANGED <<daemon, tables, counters>>

Advance(j) ==
  /\ At(j, "advance")
  /\ LET block == Head(at[j].batch)
     IN  /\ cursor' = Cursor(Height(block), block, at[j].seen.status)
         /\ Keep(j, [at[j] EXCEPT !.height = Height(block), !.hash = block,
                                  !.batch = Tail(@)])
  /\ Goto(j, IF j = "fill" THEN "next" ELSE "check")
  /\ UNCHANGED <<daemon, tables, counters>>

Apply(j) == WriteRest(j) \/ WriteBlocks(j) \/ ReadStatus(j) \/ Advance(j)

-----------------------------------------------------------------------------
(* ChainReorgHandler.handle().                                             *)

Handle(j) ==
  /\ At(j, "handle")
  /\ IF cursor = NoCursor
       THEN Finish(j)
       ELSE /\ Keep(j, [at[j] EXCEPT !.seen = cursor, !.probe = cursor.height,
                                     !.batch = << >>])
            /\ Goto(j, "probe")
  /\ UNCHANGED <<daemon, tables, cursor, counters>>

(* One round of findForkPoint() asks the daemon for its hash at a height,  *)
(* which has none above its tip, so that the RPC fails; then the table.    *)
(* The walk ends at a match, at genesis or at its depth.                   *)
Probe(j) ==
  /\ At(j, "probe")
  /\ LET h == at[j].probe
     IN  IF h < 0 \/ at[j].seen.height - h > MaxReorgDepth
           THEN Goto(j, "giveUp") /\ UNCHANGED at
           ELSE IF h > Height(daemon) THEN Finish(j)
           ELSE /\ Keep(j, [at[j] EXCEPT !.height = h, !.hash = OnChain(daemon, h)])
                /\ Goto(j, "stored")
  /\ UNCHANGED <<daemon, tables, cursor, counters>>

Stored(j) ==
  /\ At(j, "stored")
  /\ IF rows[at[j].probe] = at[j].hash
       THEN Goto(j, "deleteBlocks") /\ UNCHANGED at
       ELSE /\ Keep(j, [at[j] EXCEPT !.probe = @ - 1])
            /\ Goto(j, "probe")
  /\ UNCHANGED <<daemon, tables, cursor, counters>>

(* No fork point: the cursor is marked, and the error ends the tick. *)
GiveUp(j) ==
  /\ At(j, "giveUp")
  /\ cursor' = [at[j].seen EXCEPT !.status = "reorg"]
  /\ Finish(j)
  /\ UNCHANGED <<daemon, tables, counters>>

(* Bugs: the range to delete starts at the fork point; a table is missing  *)
(* from CHAIN_HEIGHT_TABLES.                                               *)
DeleteBlocks_FromFork(j) ==
  /\ At(j, "deleteBlocks")
  /\ rows' = [h \in Heights |-> IF h >= at[j].height THEN NoHash ELSE rows[h]]
  /\ Goto(j, "deleteRest")
  /\ UNCHANGED <<daemon, extras, cursor, at, counters>>

DeleteRest_Missing(j) ==
  /\ At(j, "deleteRest")
  /\ Goto(j, "moveCursor")
  /\ UNCHANGED <<daemon, tables, cursor, at, counters>>

(* deleteChainRowsAtOrAboveHeight(fork + 1): `blocks` is the first of the  *)
(* tables with a height.                                                   *)
DeleteBlocks(j) ==
  /\ At(j, "deleteBlocks")
  /\ rows' = [h \in Heights |-> IF h > at[j].height THEN NoHash ELSE rows[h]]
  /\ Goto(j, "deleteRest")
  /\ UNCHANGED <<daemon, extras, cursor, at, counters>>

DeleteRest(j) ==
  /\ At(j, "deleteRest")
  /\ extras' = {b \in extras : Height(b) <= at[j].height}
  /\ Goto(j, "moveCursor")
  /\ UNCHANGED <<daemon, rows, cursor, at, counters>>

MoveCursor(j) ==
  /\ At(j, "moveCursor")
  /\ cursor' = Cursor(at[j].height, at[j].hash, "live")
  /\ IF j = "tip" THEN Goto(j, "check") /\ UNCHANGED at ELSE Finish(j)
  /\ UNCHANGED <<daemon, tables, counters>>

HandleReorg(j) == Handle(j) \/ Probe(j) \/ Stored(j) \/ GiveUp(j)
                  \/ DeleteBlocks(j) \/ DeleteRest(j) \/ MoveCursor(j)

-----------------------------------------------------------------------------
(* TipFollower.tick().                                                     *)

TipStart ==
  /\ At("tip", "idle")
  /\ cursor = NoCursor \/ cursor.status = "live"
  /\ Keep("tip", [Idle EXCEPT !.seen = cursor, !.height = cursor.height,
                              !.hash = cursor.hash])
  /\ Goto("tip", "getTip")
  /\ UNCHANGED <<daemon, tables, cursor, counters>>

TipGetTip ==
  /\ At("tip", "getTip")
  /\ LET lag == Height(daemon) - at["tip"].height
     IN  IF lag <= 0 THEN Finish("tip")
         ELSE IF lag > LagThreshold
           THEN IF at["tip"].seen = NoCursor
                  THEN Finish("tip")
                  ELSE Goto("tip", "rewind") /\ UNCHANGED at
           ELSE /\ Keep("tip", [at["tip"] EXCEPT !.goal = Height(daemon)])
                /\ Goto("tip", "fetch")
  /\ UNCHANGED <<daemon, tables, cursor, counters>>

(* Far behind: hand the index back to the backfiller. *)
TipRewind ==
  /\ At("tip", "rewind")
  /\ cursor' = [at["tip"].seen EXCEPT !.status = "backfilling"]
  /\ Finish("tip")
  /\ UNCHANGED <<daemon, tables, counters>>

(* getblocksbatch answers with one snapshot of the chain; no answer at all *)
(* ends the tick.                                                          *)
TipFetch ==
  /\ At("tip", "fetch")
  /\ LET start == at["tip"].height + 1
         asked == start .. start + CatchupSpan - 1
         got == {h \in asked : h <= at["tip"].goal /\ h <= Height(daemon)}
     IN  IF got = {}
           THEN Finish("tip")
           ELSE /\ Keep("tip", [at["tip"] EXCEPT !.batch =
                     [i \in 1 .. Cardinality(got) |-> OnChain(daemon, start + i - 1)]])
                /\ Goto("tip", "check")
  /\ UNCHANGED <<daemon, tables, cursor, counters>>

(* Bug: the previous hash is not checked within a batch.                   *)
TipCheck_Trusting ==
  /\ At("tip", "check")
  /\ LET l == at["tip"]
     IN  IF l.batch = << >>
           THEN IF l.height < l.goal THEN Goto("tip", "fetch") /\ UNCHANGED at
                                     ELSE Finish("tip")
           ELSE Goto("tip", "writeRest") /\ UNCHANGED at
  /\ UNCHANGED <<daemon, tables, cursor, counters>>

(* The next block of the batch, if it extends what the job last wrote. *)
TipCheck ==
  /\ At("tip", "check")
  /\ LET l == at["tip"]
     IN  IF l.batch = << >>
           THEN IF l.height < l.goal THEN Goto("tip", "fetch") /\ UNCHANGED at
                                     ELSE Finish("tip")
           ELSE /\ Goto("tip", IF l.hash # NoHash /\ Parent(Head(l.batch)) # l.hash
                                 THEN "handle" ELSE "writeRest")
                /\ UNCHANGED at
  /\ UNCHANGED <<daemon, tables, cursor, counters>>

TipFollower == TipStart \/ TipGetTip \/ TipRewind \/ TipFetch \/ TipCheck

-----------------------------------------------------------------------------
(* ChainReorgHandler.safetySweep().                                        *)

SweepStart ==
  /\ At("sweep", "idle") /\ rounds < MaxRounds
  /\ cursor # NoCursor /\ cursor.status = "live"
  /\ rounds' = rounds + 1
  /\ Keep("sweep", [Idle EXCEPT !.seen = cursor])
  /\ Goto("sweep", "query")
  /\ UNCHANGED <<daemon, tables, cursor, reorgs, faults>>

(* The highest rows at or above the window. *)
SweepQuery ==
  /\ At("sweep", "query")
  /\ LET found == {h \in Heights : rows[h] # NoHash /\ h >= at["sweep"].seen.height - SweepWindow}
         highest == {h \in found : Cardinality({k \in found : k > h}) < SweepWindow}
     IN  Keep("sweep", [at["sweep"] EXCEPT !.stored = {rows[h] : h \in highest}])
  /\ Goto("sweep", "compare")
  /\ UNCHANGED <<daemon, tables, cursor, counters>>

(* One after the other, highest first. *)
SweepCompare ==
  /\ At("sweep", "compare")
  /\ LET stored == at["sweep"].stored
         top == CHOOSE b \in stored : \A c \in stored : Len(c) <= Len(b)
     IN  IF stored = {} \/ Height(top) > Height(daemon)
           THEN Finish("sweep")
           ELSE IF top # OnChain(daemon, Height(top))
             THEN Goto("sweep", "handle") /\ Keep("sweep", [at["sweep"] EXCEPT !.stored = {}])
             ELSE /\ Keep("sweep", [at["sweep"] EXCEPT !.stored = @ \ {top}])
                  /\ UNCHANGED pc
  /\ UNCHANGED <<daemon, tables, cursor, counters>>

SafetySweep == SweepStart \/ SweepQuery \/ SweepCompare

-----------------------------------------------------------------------------
(* HistoricalBackfiller.run().                                             *)

MaxRow == LET there == {h \in Heights : rows[h] # NoHash}
          IN  IF there = {} THEN -1 ELSE CHOOSE h \in there : \A k \in there : k <= h

FillStart ==
  /\ At("fill", "idle")
  /\ cursor.status = "backfilling"
  /\ Keep("fill", [Idle EXCEPT !.seen = cursor, !.height = cursor.height])
  /\ Goto("fill", "maxRow")
  /\ UNCHANGED <<daemon, tables, cursor, counters>>

FillMaxRow ==
  /\ At("fill", "maxRow")
  /\ IF MaxRow > at["fill"].height
       THEN /\ Keep("fill", [at["fill"] EXCEPT !.height = MaxRow, !.hash = rows[MaxRow]])
            /\ Goto("fill", "reconcile")
       ELSE Goto("fill", "getTarget") /\ UNCHANGED at
  /\ UNCHANGED <<daemon, tables, cursor, counters>>

(* Bug: the cursor is moved to the next height to fetch. *)
FillReconcile_Next ==
  /\ At("fill", "reconcile")
  /\ cursor' = Cursor(at["fill"].height + 1, at["fill"].hash, "backfilling")
  /\ Goto("fill", "getTarget")
  /\ UNCHANGED <<daemon, tables, at, counters>>

(* The cursor lags the data: move it forward. *)
FillReconcile ==
  /\ At("fill", "reconcile")
  /\ cursor' = Cursor(at["fill"].height, at["fill"].hash, "backfilling")
  /\ Goto("fill", "getTarget")
  /\ UNCHANGED <<daemon, tables, at, counters>>

FillGetTarget ==
  /\ At("fill", "getTarget")
  /\ Keep("fill", [at["fill"] EXCEPT !.goal =
       IF Height(daemon) > SafeConfirmations THEN Height(daemon) - SafeConfirmations ELSE 0])
  /\ Goto("fill", "next")
  /\ UNCHANGED <<daemon, tables, cursor, counters>>

(* The next block of the walk; the range is done, or the daemon has no     *)
(* block at that height.  Nothing compares it with its predecessor.        *)
FillNext ==
  /\ At("fill", "next")
  /\ LET h == at["fill"].height + 1
     IN  IF h > at["fill"].goal \/ h > Height(daemon)
           THEN Goto("fill", "readLive") /\ UNCHANGED at
           ELSE /\ Keep("fill", [at["fill"] EXCEPT !.batch = <<OnChain(daemon, h)>>])
                /\ Goto("fill", "writeRest")
  /\ UNCHANGED <<daemon, tables, cursor, counters>>

FillReadLive ==
  /\ At("fill", "readLive")
  /\ Keep("fill", [at["fill"] EXCEPT !.seen = cursor])
  /\ Goto("fill", "markLive")
  /\ UNCHANGED <<daemon, tables, cursor, counters>>

(* Bug: run() returns without handing over. *)
FillMarkLive_Forgotten ==
  /\ At("fill", "markLive")
  /\ Finish("fill")
  /\ UNCHANGED <<daemon, tables, cursor, counters>>

FillMarkLive ==
  /\ At("fill", "markLive")
  /\ LET seen == at["fill"].seen
     IN  cursor' = Cursor(IF seen = NoCursor THEN 0 ELSE seen.height, seen.hash, "live")
  /\ Finish("fill")
  /\ UNCHANGED <<daemon, tables, counters>>

Backfiller == FillStart \/ FillMaxRow \/ FillReconcile \/ FillGetTarget
              \/ FillNext \/ FillReadLive \/ FillMarkLive

-----------------------------------------------------------------------------
(* The daemon, and failures.                                               *)

DaemonExtends ==
  /\ Height(daemon) < MaxHeight
  /\ daemon' = Append(daemon, 0)
  /\ UNCHANGED <<tables, cursor, pc, at, counters>>

(* A branch from one of the last DaemonDepth blocks, at least MinGain      *)
(* blocks longer than what it replaces.                                    *)
DaemonReorgs ==
  /\ reorgs < MaxReorgs
  /\ reorgs' = reorgs + 1
  /\ \E fork \in 0 .. Height(daemon) - 1, tip \in Heights :
       /\ Height(daemon) - fork <= DaemonDepth
       /\ tip >= Height(daemon) + MinGain
       /\ daemon' = [i \in 1 .. tip + 1 |->
                       IF i <= fork + 1 THEN daemon[i]
                       ELSE IF i = fork + 2 THEN 1 - daemon[i] ELSE 0]
  /\ UNCHANGED <<tables, cursor, pc, at, faults, rounds>>

(* An await of job j throws: schedule() logs it and the tick is over. *)
Throws(j) ==
  /\ faults < MaxFaults /\ pc[j] # "idle"
  /\ faults' = faults + 1
  /\ Finish(j)
  /\ UNCHANGED <<daemon, tables, cursor, reorgs, rounds>>

(* The process dies and starts again; MariaDB and Redis keep their state. *)
Crash ==
  /\ faults < MaxFaults /\ \E j \in Jobs : pc[j] # "idle"
  /\ faults' = faults + 1
  /\ pc' = [j \in Jobs |-> "idle"]
  /\ at' = [j \in Jobs |-> Idle]
  /\ UNCHANGED <<daemon, tables, cursor, reorgs, rounds>>

Work == TipFollower \/ SafetySweep \/ Backfiller
        \/ \E j \in Jobs : Apply(j) \/ HandleReorg(j)

Next ==
  \/ Work
  \/ DaemonExtends \/ DaemonReorgs
  \/ \E j \in Jobs : Throws(j)
  \/ Crash

Safety == Init /\ [][Next]_vars

(* schedule() runs every job again and again, and what it awaits answers. *)
JobStep(j) ==
  \/ Apply(j) \/ HandleReorg(j)
  \/ j = "tip" /\ TipFollower
  \/ j = "sweep" /\ SafetySweep
  \/ j = "fill" /\ Backfiller

Spec == Safety /\ \A j \in Jobs : WF_vars(JobStep(j))

-----------------------------------------------------------------------------
(* Properties.                                                             *)

(* No tick was cut short around a reorganisation.  When one is, a row of   *)
(* the abandoned chain can stay behind, which INSERT IGNORE never replaces.*)
Undisturbed == faults = 0 \/ reorgs = 0

(* Stored blocks form a chain: each row's parent is the row below it,      *)
(* however the daemon's chain moves between two awaits of TipFollower.     *)
RowsLinked ==
  Undisturbed =>
    \A h \in Heights \ {0} :
      (rows[h] # NoHash /\ rows[h - 1] # NoHash) => Parent(rows[h]) = rows[h - 1]

(* A row of `blocks` vouches for the rows of its block in all other tables:*)
(* max(height) is a fully-committed watermark, through rollbacks, crashes  *)
(* and failed statements.                                                  *)
Watermark == \A h \in Heights : rows[h] # NoHash => rows[h] \in extras

(* Between ticks the cursor names the highest row, and no table has rows of*)
(* a block that is not stored.                                             *)
SettledConsistent ==
  (faults = 0 /\ \A j \in Jobs : pc[j] = "idle") =>
    /\ cursor.height = MaxRow
    /\ MaxRow >= 0 => cursor.hash = rows[MaxRow]
    /\ extras = {rows[h] : h \in 0 .. MaxRow}

(* A rollback never removes the row of a block that is on the daemon's     *)
(* chain: it stops at the fork point.  (With a second reorganisation the   *)
(* chain may return to a block between the probe and the DELETE.)          *)
OnlyAbandonedDeleted ==
  [][reorgs <= 1 =>
       \A h \in Heights : (rows[h] # NoHash /\ rows'[h] = NoHash)
                              => rows[h] # OnChain(daemon, h)]_vars

(* The cursor never points above the data: a reader that trusts it finds   *)
(* every block it announces, on a chain without reorganisations.           *)
CursorWithinData == reorgs = 0 => cursor.height <= MaxRow

(* When the daemon's chain comes to rest, the index becomes that chain and *)
(* the cursor stays live at its tip.  The exceptions: a tick cut short     *)
(* around a reorganisation; one deeper than MAX_REORG_DEPTH, which parks   *)
(* the indexer; one to a tip no higher than the indexed one, which only a  *)
(* longer chain or a sweep reveals.                                        *)
Converged ==
  /\ cursor = Cursor(Height(daemon), daemon, "live")
  /\ \A h \in Heights : rows[h] = IF h <= Height(daemon) THEN OnChain(daemon, h) ELSE NoHash
Parked == cursor.status = "reorg" /\ DaemonDepth > MaxReorgDepth
Unnoticed == Height(daemon) <= cursor.height /\ ~IsPrefix(daemon, cursor.hash)
Converges == <>[](Converged \/ ~Undisturbed \/ Parked \/ Unnoticed)

(* When no tick runs, a live cursor on the daemon's chain vouches for every*)
(* row below it: TipFollower compares a new block with the cursor only, so *)
(* what is wrong below it stays wrong.                                     *)
CursorVouches ==
  ( /\ \A j \in Jobs : pc[j] = "idle"
    /\ cursor # NoCursor /\ cursor.status = "live"
    /\ cursor.height <= Height(daemon) /\ cursor.hash = OnChain(daemon, cursor.height) )
  => \A h \in 0 .. cursor.height : rows[h] = OnChain(daemon, h)

(* The index follows the daemon as ChainMirror promises. *)
Mirror == INSTANCE ChainMirror WITH
            chain <- IF MaxRow = -1 THEN NoHash ELSE rows[MaxRow],
            intact <- Undisturbed
ImplementsMirror == Mirror!Spec
=============================================================================
