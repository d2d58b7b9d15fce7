-------------------------------- MODULE Rollups --------------------------------
(***************************************************************************)
(* services/jobs/RollupMaintainer.ts with those who call it: applyBlocks,  *)
(* which waits for the refresh at the tip and leaves it behind in the      *)
(* backfill, and a rollback.  An action is one statement, committed by     *)
(* itself.  A bucket holds the set of blocks it was summed over, so that   *)
(* a block missed, left behind or counted for another shows.               *)
(***************************************************************************)
EXTENDS Integers, Sequences, FiniteSets, FiniteSetsExt

CONSTANTS
  MaxHeight,   \* heights are 1 .. MaxHeight
  MaxTime,     \* block times are 0 .. MaxTime
  Fine, Coarse, \* seconds per bucket of the first and the second rollup keyed by time
  YearSpan,    \* seconds per year
  MaxReorgs, MaxFaults,
  Deferred     \* post-commits the backfill may leave behind at once

ASSUME RollupsAssumption ==
  /\ MaxHeight \in Nat \ {0} /\ MaxTime \in Nat /\ YearSpan \in Nat \ {0}
  /\ Fine \in Nat \ {0} /\ Coarse \in Nat \ {0} /\ MaxReorgs \in Nat /\ MaxFaults \in Nat

Heights == 1 .. MaxHeight
Times == 0 .. MaxTime
Gran == <<Fine, Coarse>>
Tables == 1 .. 2
Year(t) == 1 + t \div YearSpan
Tick == "tick"
Caller == {Tick} \cup Deferred
Nowhere == MaxTime + 1       \* a floor nothing lies above: null

VARIABLES
  blocks,   \* the base tables: [time, sb, gen] by height; gen tells re-applied blocks apart
  rollup,   \* rollup[i][b]: the blocks a time bucket was summed over; {} is no row
  stats,    \* superblock_researcher_stats: superblock height -> the block it was built from
  totals,   \* cpid_magnitude_totals: year -> superblocks; year 0 is the sum of the others
  from, fromHeight, running,   \* pendingFrom, pendingHeight, running
  pass,     \* doRefresh of each caller
  ix,       \* the indexer, between its statements
  reorgs, faults

vars == <<blocks, rollup, stats, totals, from, fromHeight, running, pass, ix, reorgs, faults>>
base == <<blocks, reorgs>>
tables == <<rollup, stats, totals>>
window == <<from, fromHeight, running>>

Block == [h : Heights, time : Times, sb : BOOLEAN, gen : 0 .. MaxReorgs]
Height == Len(blocks)
NoBlock == [h |-> 0, time |-> 0, sb |-> FALSE, gen |-> 0]
Idle == [pc |-> "idle", at |-> 0, t |-> 0, h |-> 0, hLo |-> 0, years |-> {}]
Resting == [pc |-> "idle", t |-> 0, h |-> 0]

Rows == {blocks[i] : i \in 1 .. Height}
Superblocks == {b \in Rows : b.sb}
Years == {Year(t) : t \in Times}
Buckets(i) == {t \div Gran[i] : t \in Times}

TypeOK ==
  /\ blocks \in Seq(Block) /\ \A i \in 1 .. Height : blocks[i].h = i
  /\ rollup \in [Tables -> [Times -> SUBSET Block]]
  /\ stats \in [Heights -> Block \cup {NoBlock}]
  /\ totals \in [Years \cup {0} -> SUBSET Block]
  /\ from \in 0 .. Nowhere /\ fromHeight \in 0 .. MaxHeight + 1 /\ running \in BOOLEAN
  /\ pass \in [Caller -> [pc : {"idle", "delete", "insert", "find", "deleteStats", "insertStats",
                                "years", "deleteYear", "insertYear", "deleteAll", "insertAll"},
                          at : 0 .. 2, t : Times, h : 0 .. MaxHeight + 1,
                          hLo : 0 .. MaxHeight, years : SUBSET [y : Years, lo : Heights, hi : Heights]]]
  /\ ix \in [pc : {"idle", "refresh", "wait", "deleteRows"}, t : 0 .. Nowhere, h : 0 .. MaxHeight + 1]
  /\ reorgs \in 0 .. MaxReorgs /\ faults \in 0 .. MaxFaults

Init ==
  /\ blocks = << >>
  /\ rollup = [i \in Tables |-> [b \in Times |-> {}]]
  /\ stats = [h \in Heights |-> NoBlock] /\ totals = [y \in Years \cup {0} |-> {}]
  /\ from = Nowhere /\ fromHeight = MaxHeight + 1 /\ running = FALSE
  /\ pass = [c \in Caller |-> Idle] /\ ix = Resting /\ reorgs = 0 /\ faults = 0

-----------------------------------------------------------------------------
(* refreshRollups(t, h) called by c. *)

Earlier(a, b) == IF a < b THEN a ELSE b

StartPass(c, t, h) ==
  [pass EXCEPT ![c] = [pc |-> "delete", at |-> 1, t |-> t, h |-> h, hLo |-> 0, years |-> {}]]

\* Whoever finds a pass running lowers the pending window and returns; else the caller's
\* own loop takes the window at once.
Request(c, t, h) ==
  /\ IF running
       THEN /\ from' = Earlier(from, t) /\ fromHeight' = Earlier(fromHeight, h)
            /\ UNCHANGED <<running, pass>>
       ELSE /\ pass[c] = Idle /\ running' = TRUE /\ from' = Nowhere /\ fromHeight' = MaxHeight + 1
            /\ pass' = StartPass(c, Earlier(from, t), Earlier(fromHeight, h))

\* Bug: one pass, and no loop behind it.
PassDone_Once(c) == running' = FALSE /\ pass' = [pass EXCEPT ![c] = Idle] /\ UNCHANGED <<from, fromHeight>>

\* The end of doRefresh: the loop takes what has become pending, or ends.
PassDone(c) ==
  IF from = Nowhere
    THEN running' = FALSE /\ pass' = [pass EXCEPT ![c] = Idle] /\ UNCHANGED <<from, fromHeight>>
    ELSE /\ pass' = StartPass(c, from, fromHeight)
         /\ from' = Nowhere /\ fromHeight' = MaxHeight + 1 /\ UNCHANGED running

-----------------------------------------------------------------------------
(* doRefresh: one rollup after the other, each a DELETE and an INSERT from the aligned floor. *)

At(c, p) == pass[c].pc = p
Goto(c, p) == pass' = [pass EXCEPT ![c].pc = p] /\ UNCHANGED window

Floor(c) == pass[c].t \div Gran[pass[c].at]

Delete(c) ==
  /\ At(c, "delete")
  /\ rollup' = [rollup EXCEPT ![pass[c].at] = [b \in Times |-> IF b >= Floor(c) THEN {} ELSE @[b]]]
  /\ Goto(c, "insert") /\ UNCHANGED <<base, stats, totals, ix, faults>>

\* A GROUP BY over the base rows from the floor on; a row it collides with makes it throw.
Insert(c) ==
  LET i == pass[c].at IN
  /\ At(c, "insert") /\ \A b \in Times : b >= Floor(c) => rollup[i][b] = {}
  /\ rollup' = [rollup EXCEPT ![i] = [b \in Times |->
       IF b >= Floor(c) THEN {r \in Rows : r.time \div Gran[i] = b} ELSE @[b]]]
  /\ IF i < 2
       THEN pass' = [pass EXCEPT ![c].pc = "delete", ![c].at = @ + 1] /\ UNCHANGED window
       ELSE Goto(c, "find")
  /\ UNCHANGED <<base, stats, totals, ix, faults>>

\* The superblock rollups: from the first superblock of the window, if there is one.
Find(c) ==
  LET above == {b.h : b \in {s \in Superblocks : s.h >= pass[c].h}} IN
  /\ At(c, "find")
  /\ IF above = {} THEN PassDone(c)
     ELSE /\ pass' = [pass EXCEPT ![c].pc = "deleteStats", ![c].hLo = Min(above)]
          /\ UNCHANGED window
  /\ UNCHANGED <<base, tables, ix, faults>>

DeleteStats(c) ==
  /\ At(c, "deleteStats")
  /\ stats' = [h \in Heights |-> IF h >= pass[c].hLo THEN NoBlock ELSE stats[h]]
  /\ Goto(c, "insertStats") /\ UNCHANGED <<base, rollup, totals, ix, faults>>

InsertStats(c) ==
  /\ At(c, "insertStats") /\ \A h \in Heights : h >= pass[c].hLo => stats[h] = NoBlock
  /\ stats' = [h \in Heights |->
       IF h >= pass[c].hLo /\ \E s \in Superblocks : s.h = h THEN blocks[h] ELSE stats[h]]
  /\ Goto(c, "years") /\ UNCHANGED <<base, rollup, totals, ix, faults>>

\* The years with a superblock at or above hLo, each with its first and its last superblock:
\* it is rebuilt from the magnitudes between these.
FindYears(c) ==
  LET of(y) == {s.h : s \in {b \in Superblocks : Year(b.time) = y}}
      ys == {[y |-> y, lo |-> Min(of(y)), hi |-> Max(of(y))] :
               y \in {Year(s.time) : s \in {b \in Superblocks : b.h >= pass[c].hLo}}}
  IN
  /\ At(c, "years")
  /\ pass' = [pass EXCEPT ![c].years = ys, ![c].pc = IF ys = {} THEN "deleteAll" ELSE "deleteYear"]
  /\ UNCHANGED <<base, tables, window, ix, faults>>

First(c) == CHOOSE r \in pass[c].years : \A o \in pass[c].years : r.y <= o.y

DeleteYear(c) ==
  /\ At(c, "deleteYear") /\ totals' = [totals EXCEPT ![First(c).y] = {}]
  /\ Goto(c, "insertYear") /\ UNCHANGED <<base, rollup, stats, ix, faults>>

\* Bug: a year is rebuilt from the superblocks of the window alone.
InsertYear_Window(c) ==
  LET r == First(c)  rest == pass[c].years \ {r} IN
  /\ At(c, "insertYear") /\ totals[r.y] = {}
  /\ totals' = [totals EXCEPT ![r.y] = {s \in Superblocks : s.h \in r.lo .. r.hi /\ s.h >= pass[c].hLo}]
  /\ pass' = [pass EXCEPT ![c].years = rest, ![c].pc = IF rest = {} THEN "deleteAll" ELSE "deleteYear"]
  /\ UNCHANGED <<base, rollup, stats, window, ix, faults>>

InsertYear(c) ==
  LET r == First(c)  rest == pass[c].years \ {r} IN
  /\ At(c, "insertYear") /\ totals[r.y] = {}
  /\ totals' = [totals EXCEPT ![r.y] = {s \in Superblocks : s.h \in r.lo .. r.hi}]
  /\ pass' = [pass EXCEPT ![c].years = rest, ![c].pc = IF rest = {} THEN "deleteAll" ELSE "deleteYear"]
  /\ UNCHANGED <<base, rollup, stats, window, ix, faults>>

DeleteAll(c) ==
  /\ At(c, "deleteAll") /\ totals' = [totals EXCEPT ![0] = {}]
  /\ Goto(c, "insertAll") /\ UNCHANGED <<base, rollup, stats, ix, faults>>

InsertAll(c) ==
  /\ At(c, "insertAll") /\ totals[0] = {}
  /\ totals' = [totals EXCEPT ![0] = UNION {totals[y] : y \in Years}]
  /\ PassDone(c) /\ UNCHANGED <<base, rollup, stats, ix, faults>>

\* A statement throws: the window that was taken is gone, the flag is cleared, and the
\* caller goes on (runPostCommit logs it) or ends (handle).
PassThrows(c) ==
  /\ pass[c] # Idle /\ faults < MaxFaults /\ faults' = faults + 1
  /\ running' = FALSE /\ pass' = [pass EXCEPT ![c] = Idle]
  /\ UNCHANGED <<base, tables, from, fromHeight, ix>>

-----------------------------------------------------------------------------
(* The indexer: batches at the tip, batches of the backfill, rollbacks. *)

\* Bug: the floor is the time of the first block of the batch.
Apply_FirstTime ==
  /\ ix = Resting
  /\ \E n \in 1 .. Earlier(2, MaxHeight - Height) : \E ts \in [1 .. n -> Times], sb \in [1 .. n -> BOOLEAN] :
       /\ blocks' = blocks \o [i \in 1 .. n |->
            [h |-> Height + i, time |-> ts[i], sb |-> sb[i], gen |-> reorgs]]
       /\ ix' = [pc |-> "refresh", t |-> ts[1], h |-> Height + 1]
  /\ UNCHANGED <<reorgs, tables, window, pass, faults>>

\* applyBlocks: the rows of one or two blocks, whose times need not follow their heights,
\* those of superblocks, a day apart, excepted.
Apply ==
  /\ ix = Resting
  /\ \E n \in 1 .. Earlier(2, MaxHeight - Height) : \E ts \in [1 .. n -> Times], sb \in [1 .. n -> BOOLEAN] :
       /\ blocks' = blocks \o [i \in 1 .. n |->
            [h |-> Height + i, time |-> ts[i], sb |-> sb[i], gen |-> reorgs]]
       /\ ix' = [pc |-> "refresh", t |-> Min({ts[i] : i \in 1 .. n}), h |-> Height + 1]
  /\ \A r, s \in {blocks'[i] : i \in DOMAIN blocks'} : r.sb /\ s.sb /\ r.h < s.h => r.time <= s.time
  /\ UNCHANGED <<reorgs, tables, window, pass, faults>>

\* runPostCommit, awaited or left behind.
Refresh ==
  /\ ix.pc = "refresh"
  /\ \/ Request(Tick, ix.t, ix.h) /\ ix' = [Resting EXCEPT !.pc = "wait"]
     \/ \E d \in Deferred : Request(d, ix.t, ix.h) /\ ix' = Resting
  /\ UNCHANGED <<base, tables, faults>>

RefreshReturns ==
  /\ ix.pc = "wait" /\ pass[Tick] = Idle /\ ix' = Resting
  /\ UNCHANGED <<base, tables, window, pass, faults>>

\* handle(): abandonedMinTime is read before the DELETE, null when there is nothing above
\* the fork; null means no refresh.
RollBack ==
  /\ ix = Resting /\ reorgs < MaxReorgs /\ Height > 0 /\ reorgs' = reorgs + 1
  /\ \E fork \in 0 .. Height - 1 :
       ix' = [pc |-> "deleteRows", t |-> Min({blocks[i].time : i \in fork + 1 .. Height}), h |-> fork + 1]
  /\ UNCHANGED <<blocks, tables, window, pass, faults>>

DeleteRows ==
  /\ ix.pc = "deleteRows"
  /\ blocks' = SubSeq(blocks, 1, ix.h - 1)
  /\ ix' = [ix EXCEPT !.pc = "refresh"]
  /\ UNCHANGED <<reorgs, tables, window, pass, faults>>

\* The process dies: flags, windows and passes are gone, the tables stay.
Crash ==
  /\ faults < MaxFaults /\ faults' = faults + 1
  /\ from' = Nowhere /\ fromHeight' = MaxHeight + 1 /\ running' = FALSE
  /\ pass' = [c \in Caller |-> Idle] /\ ix' = Resting
  /\ UNCHANGED <<base, tables>>

-----------------------------------------------------------------------------
PassStep(c) ==
  \/ Delete(c) \/ Insert(c) \/ Find(c) \/ DeleteStats(c) \/ InsertStats(c) \/ FindYears(c)
  \/ DeleteYear(c) \/ InsertYear(c) \/ DeleteAll(c) \/ InsertAll(c)

IndexerStep == Apply \/ Refresh \/ RefreshReturns \/ RollBack \/ DeleteRows

Next == IndexerStep \/ Crash \/ \E c \in Caller : PassStep(c) \/ PassThrows(c)

Safety == Init /\ [][Next]_vars

\* A statement answers; a post-commit that was begun goes on.
Spec ==
  /\ Safety /\ \A c \in Caller : WF_vars(PassStep(c))
  /\ WF_vars(Refresh \/ RefreshReturns \/ DeleteRows)

-----------------------------------------------------------------------------
Exact(i, b) == rollup[i][b] = {r \in Rows : r.time \div Gran[i] = b}

\* A pass still has bucket b of rollup i before it.
Ahead(c, i, b) ==
  /\ pass[c].pc \in {"delete", "insert"} /\ pass[c].at <= i /\ b >= pass[c].t \div Gran[i]

\* "The end of every bucket is final": a bucket that is not the sum of its rows lies in a
\* window that is pending, being rebuilt, or about to be asked for, whatever order the times
\* have and however callers were coalesced.  Until a statement throws or the process dies.
StaleIsCovered ==
  faults = 0 =>
    \A i \in Tables : \A b \in Buckets(i) :
      \/ Exact(i, b)
      \/ from # Nowhere /\ b >= from \div Gran[i]
      \/ \E c \in Caller : Ahead(c, i, b)
      \/ ix.pc = "refresh" /\ b >= ix.t \div Gran[i]

\* Once the indexer rests, every rollup keyed by time is exact, and a refresh is not left
\* pending.  Superblock rollups too, unless a rollback took a superblock away.
AtRest == ix = Resting /\ ~running /\ from = Nowhere
SuperblocksExact ==
  /\ \A h \in Heights : stats[h] = IF \E s \in Superblocks : s.h = h THEN blocks[h] ELSE NoBlock
  /\ \A y \in Years : totals[y] = {s \in Superblocks : Year(s.time) = y}
  /\ totals[0] = Superblocks

SuperblocksFollow == AtRest /\ faults = 0 /\ reorgs = 0 => SuperblocksExact

\* A refresh ends, also when callers keep lowering its window, and leaves no window behind
\* unless one of its statements throws.
Settles == <>[](~running /\ ix = Resting /\ (faults = 0 => from = Nowhere))
=============================================================================
