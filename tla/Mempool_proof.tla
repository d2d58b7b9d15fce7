----------------------------- MODULE Mempool_proof -----------------------------
(***************************************************************************)
(* For any transactions, blocks, reorganisations and restarts: a request   *)
(* keeps the arrival of its mempool row, and the snapshot of a block whose *)
(* header is not ahead of the watcher's clock has every transaction that   *)
(* was pending and seen as the block was mined.                            *)
(*                                                                         *)
(* Both rest on what the rows of a transaction that is not in lost know.   *)
(* A stamp is no older than the header of any block still to be indexed    *)
(* that was mined while the transaction waited, unless the header was      *)
(* ahead, and a stamped transaction waits no more (Stamped).  A request with a    *)
(* height is in the daemon's block of that height, and the index and the   *)
(* daemon agree up to it, so that no rollback comes for it (Arrived).      *)
(***************************************************************************)
EXTENDS Mempool, SequenceTheorems, TLAPS

LEMMA Parameters ==
  /\ MaxTime \in Nat \ {0} /\ MaxBlocks \in Nat /\ MaxReorgs \in Nat /\ MaxFaults \in Nat
  BY MempoolAssumption DEF MempoolAssumption

USE Parameters

Phases == {"idle", "entries", "mrc", "exits", "update"}
Row == [first : 0 .. MaxTime, confirmed : 0 .. MaxTime, evicted : 0 .. MaxTime]
Request == [first : 0 .. MaxTime, height : 0 .. MaxBlocks]
Watch == [pc : Phases, pool : SUBSET Tx, left : SUBSET Tx, tx : SUBSET Tx,
          time : 0 .. MaxTime, confirmed : BOOLEAN]
Applying == [block : Block, left : SUBSET Writes]
Snapshot == [height : 1 .. MaxBlocks, block : 1 .. MaxBlocks, tx : Tx, included : BOOLEAN]

(* Types, with those of whole records. *)
Counted ==
  /\ now \in Times /\ mined \in 0 .. MaxBlocks /\ reorgs \in 0 .. MaxReorgs /\ faults \in 0 .. MaxFaults
Chains ==
  /\ pool \in SUBSET Tx /\ sent \in SUBSET Tx
  /\ chain \in Seq(Block) /\ blocks \in Seq(Block)
  /\ applying = Resting \/ applying \in Applying
Rows == txs \in [Tx -> Row] /\ mrc \in [Tx -> Request] /\ lost \in SUBSET Tx
Exclusive == \A t \in Tx : txs[t].confirmed = Null \/ txs[t].evicted = Null
Watcher == watch \in Watch /\ last \in SUBSET Tx
Snaps == snaps \in SUBSET Snapshot
Marked == overtaken \in SUBSET Tx
Typed == Counted /\ Chains /\ Rows /\ Exclusive /\ Watcher

(* The block that is applied, if the daemon still has it, is the next one. *)
Follows ==
  /\ Len(blocks) < Len(chain) /\ applying.block = chain[Len(blocks) + 1]
  /\ \A i \in 1 .. Len(blocks) : blocks[i] = chain[i]

(* A header the clock is past at s, if it was not ahead. *)
Past(b, s) == b.ahead \/ b.time <= s

(* The daemon's chain: in order, and what is in a block waits no more. *)
Mined ==
  /\ pool \subseteq sent
  /\ Len(blocks) <= mined /\ Len(chain) <= mined
  /\ \A i \in 1 .. Len(chain) : chain[i].id <= mined /\ Past(chain[i], now) /\ chain[i].txs \subseteq sent \ pool
  /\ \A i, j \in 1 .. Len(chain) : i < j =>
        /\ chain[i].id < chain[j].id
        /\ chain[i].txs \cap (chain[j].txs \cup chain[j].pool) = {}
  /\ applying # Resting =>
        /\ Len(blocks) < mined /\ applying.block.id <= mined /\ Past(applying.block, now)
        /\ applying.block \in Range(chain) => Follows

Away(t) == t \in sent \ pool

(* Who is about to be stamped as gone is gone. *)
Leaving(t) ==
  \/ watch.pc \in {"entries", "mrc"} /\ t \in last \ watch.pool
  \/ watch.pc \in {"exits", "update"} /\ t \in watch.left
  \/ watch.pc = "update" /\ t \in watch.tx
Watched ==
  /\ last \cup watch.pool \cup watch.left \cup watch.tx \subseteq sent
  /\ watch.pc \in {"entries", "mrc"} => watch.left \subseteq watch.pool
  /\ \A t \in Tx : t \notin lost /\ Leaving(t) => Away(t)

(* The index has the daemon's block at height j and all before it. *)
Reached(j) == j <= Len(blocks) /\ \A i \in 1 .. j : blocks[i] = chain[i]
(* The blocks a snapshot may still be taken for. *)
Coming(b) ==
  \/ \E j \in 1 .. Len(chain) : b = chain[j] /\ ~Reached(j)
  \/ applying # Resting /\ b = applying.block
Behind(t, s) == \A b : Coming(b) /\ t \in b.pool => Past(b, s)
Stamped ==
  \A t \in Tx : t \notin lost =>
    /\ txs[t].confirmed # Null => Away(t) /\ Behind(t, txs[t].confirmed)
    /\ txs[t].evicted # Null => Away(t) /\ Behind(t, txs[t].evicted)

InHand == IF watch.pc = "mrc" THEN watch.tx ELSE {}
(* The row of a confirmed request is where the daemon has it. *)
Placed(t) ==
  LET h == mrc[t].height IN
  h # Null => /\ h <= Len(chain) /\ t \in chain[h].txs
              /\ \A i \in 1 .. Len(blocks) : i <= h => blocks[i] = chain[i]
              /\ applying # Resting /\ h > Len(blocks) => applying.block = chain[Len(blocks) + 1]
Agrees(t) == txs[t].first # Null => mrc[t].first = txs[t].first
Arrived ==
  /\ \A t \in Tx : txs[t].first = Null => txs[t] = NoRow
  /\ \A t \in InHand : txs[t].first = watch.time /\ watch.time # Null
  /\ \A t \in Tx : t \notin lost /\ t \notin InHand => Agrees(t) /\ Placed(t)

IInv == Typed /\ Mined /\ Watched /\ Stamped /\ Arrived

-----------------------------------------------------------------------------
(* Types.                                                                  *)

LEMMA RestingIsNone ==
  /\ \A a \in Applying : a # Resting
  /\ Idle \in Watch /\ NoRow \in Row /\ NoMrc \in Request /\ NoRow.first = Null /\ NoMrc.first = Null
  /\ Resting.left = {}
<1>1. \A a \in Applying : a.block.id # Null
  BY DEF Applying, Block, Null
<1>2. Resting.block.id = Null /\ Resting.left = {}
  BY DEF Resting
<1>3. Idle \in Watch
  BY DEF Idle, Watch, Phases, Null
<1>4. NoRow \in Row /\ NoMrc \in Request /\ NoRow.first = Null /\ NoMrc.first = Null
  BY DEF NoRow, NoMrc, Row, Request, Null
<1> QED
  BY <1>1, <1>2, <1>3, <1>4, Zenon

LEMMA ChainFacts ==
  ASSUME NEW c \in Seq(Block)
  PROVE  /\ Len(c) \in Nat /\ \A i \in 1 .. Len(c) : c[i] \in Block
         /\ \A b : b \in Range(c) <=> \E i \in 1 .. Len(c) : b = c[i]
         /\ \A t : t \in In(c) <=> \E i \in 1 .. Len(c) : t \in c[i].txs
<1>1. Len(c) \in Nat /\ DOMAIN c = 1 .. Len(c) /\ \A i \in 1 .. Len(c) : c[i] \in Block
  OBVIOUS
<1>2. \A b : b \in Range(c) <=> \E i \in 1 .. Len(c) : b = c[i]
  BY <1>1 DEF Range
<1>3. \A t : t \in In(c) <=> \E b \in Range(c) : t \in b.txs
  BY DEF In
<1> QED
  BY <1>1, <1>2, <1>3, Zenon

LEMMA AppendFacts ==
  ASSUME NEW c \in Seq(Block), NEW b \in Block
  PROVE  /\ Append(c, b) \in Seq(Block) /\ Len(Append(c, b)) = Len(c) + 1
         /\ \A i \in 1 .. Len(c) : Append(c, b)[i] = c[i]
         /\ Append(c, b)[Len(c) + 1] = b
  OBVIOUS

LEMMA FrontFacts ==
  ASSUME NEW c \in Seq(Block), c # << >>
  PROVE  /\ Front(c) \in Seq(Block) /\ Len(c) >= 1 /\ Len(Front(c)) = Len(c) - 1
         /\ \A i \in 1 .. Len(c) - 1 : Front(c)[i] = c[i]
         /\ Last(c) = c[Len(c)] /\ Last(c) \in Block
<1>1. Len(c) \in Nat /\ Len(c) >= 1 /\ c[Len(c)] \in Block
  <2>1. Len(c) \in Nat /\ Len(c) # 0
    OBVIOUS
  <2> QED
    BY <2>1
<1>2. Front(c) = SubSeq(c, 1, Len(c) - 1) /\ Last(c) = c[Len(c)]
  BY DEF Front, Last
<1>3. PICK n \in Nat : n = Len(c) - 1 /\ n <= Len(c)
  <2>1. Len(c) - 1 \in Nat /\ Len(c) - 1 <= Len(c)
    BY <1>1
  <2> QED
    BY <2>1, Zenon
<1>4. SubSeq(c, 1, n) \in Seq(Block) /\ Len(SubSeq(c, 1, n)) = n
  BY <1>1, <1>3, SMT
<1>5. \A i \in 1 .. n : SubSeq(c, 1, n)[i] = c[i]
  BY <1>1, <1>3
<1> QED
  BY <1>1, <1>2, <1>3, <1>4, <1>5

LEMMA PrefixFacts ==
  ASSUME NEW c \in Seq(Block), NEW d \in Seq(Block)
  PROVE  IsPrefix(c, d) <=> Len(c) <= Len(d) /\ \A i \in 1 .. Len(c) : c[i] = d[i]
<1> DEFINE u == SubSeq(c, 1, Len(c))
<1> DEFINE v == SubSeq(d, 1, Len(c))
<1>1. ASSUME Len(c) <= Len(d)
      PROVE  /\ u \in Seq(Block) /\ v \in Seq(Block) /\ Len(u) = Len(c) /\ Len(v) = Len(c)
             /\ \A i \in 1 .. Len(c) : u[i] = c[i] /\ v[i] = d[i]
  BY <1>1
<1> HIDE DEF u, v
<1>2. ASSUME Len(c) <= Len(d), \A i \in 1 .. Len(c) : c[i] = d[i]
      PROVE  u = v
  <2>1. /\ u \in Seq(Block) /\ v \in Seq(Block) /\ Len(u) = Len(v)
        /\ \A i \in 1 .. Len(u) : u[i] = v[i]
    BY <1>1, <1>2
  <2> QED
    BY <2>1, SeqEqual, Zenon
<1>3. ASSUME Len(c) <= Len(d), u = v
      PROVE  \A i \in 1 .. Len(c) : c[i] = d[i]
  BY <1>1, <1>3
<1> QED
  BY <1>2, <1>3 DEF IsPrefix, u, v

LEMMA TypedInit == Init => Typed /\ Snaps /\ Marked
<1> SUFFICES ASSUME Init PROVE Typed /\ Snaps /\ Marked
  OBVIOUS
<1>1. Counted
  BY DEF Init, Counted, Times
<1>2. Chains
  BY DEF Init, Chains
<1>3. Rows /\ Watcher
  BY RestingIsNone DEF Init, Rows, Watcher
<1>4. Exclusive
  BY DEF Init, Exclusive, NoRow
<1>5. Snaps /\ Marked
  BY DEF Init, Snaps, Marked
<1> QED
  BY <1>1, <1>2, <1>3, <1>4, <1>5 DEF Typed

LEMMA WatcherStep == Typed /\ (WatchStep \/ HandleFails \/ Restart) => Watcher'
<1> SUFFICES ASSUME Typed, WatchStep \/ HandleFails \/ Restart PROVE Watcher'
  OBVIOUS
<1>0. watch \in Watch /\ last \in SUBSET Tx /\ pool \in SUBSET Tx /\ now \in 0 .. MaxTime
  BY DEF Typed, Watcher, Chains, Counted, Times
<1>a. ASSUME NEW p \in Phases PROVE [watch EXCEPT !.pc = p, !.tx = {}, !.time = Null] \in Watch
  <2>1. Null \in 0 .. MaxTime
    BY DEF Null
  <2> QED
    BY <1>0, <2>1 DEF Watch
<1>b. "entries" \in Phases
  BY DEF Phases
<1> USE DEF Watcher
<1>1. CASE ReadPool
  BY <1>0, <1>1, RestingIsNone DEF ReadPool, Watch, Phases, Idle
<1>2. CASE EnterMrc
  BY <1>0, <1>2, <1>a, <1>b, Zenon DEF EnterMrc
<1>3. CASE EntriesDone
  BY <1>0, <1>3 DEF EntriesDone, Watch, Phases
<1>4. CASE StampExit
  BY <1>0, <1>4 DEF StampExit, Watch, Phases
<1>5. CASE TickDone
  BY <1>0, <1>5, RestingIsNone DEF TickDone, Watch
<1>6. ASSUME NEW t \in Tx, EnterRow(t) PROVE Watcher'
  BY <1>0, <1>6 DEF EnterRow, Watch, Phases
<1>7. ASSUME NEW t \in Tx, AskDaemon(t) PROVE Watcher'
  <2>1. CASE watch' = [watch EXCEPT !.pc = "update", !.left = @ \ {t}, !.tx = {t}, !.confirmed = t \in In(chain)]
    <3>1. (t \in In(chain)) \in BOOLEAN
      OBVIOUS
    <3>2. PICK c \in BOOLEAN : c = (t \in In(chain))
      BY <3>1
    <3>3. watch' = [watch EXCEPT !.pc = "update", !.left = @ \ {t}, !.tx = {t}, !.confirmed = c]
      BY <2>1, <3>2, Zenon
    <3>4. watch' \in Watch
      BY <1>0, <3>3 DEF Watch, Phases
    <3> QED
      BY <3>4, <1>0, <1>7 DEF AskDaemon
  <2>2. CASE watch' = [watch EXCEPT !.pc = "update", !.left = @ \ {t}, !.tx = {t}]
    BY <1>0, <1>7, <2>2 DEF AskDaemon, Watch, Phases
  <2> QED
    BY <1>7, <2>1, <2>2 DEF AskDaemon
<1>8. CASE HandleFails
  <2>1. CASE \E t \in watch.left : watch' = [watch EXCEPT !.left = @ \ {t}]
    BY <1>0, <1>8, <2>1 DEF HandleFails, Watch, Phases
  <2>2. CASE watch' = [watch EXCEPT !.pc = "entries", !.tx = {}, !.time = Null]
    BY <1>0, <1>8, <2>2, <1>a, <1>b, Zenon DEF HandleFails
  <2>3. CASE watch' = [watch EXCEPT !.pc = "exits", !.tx = {}, !.confirmed = FALSE]
    BY <1>0, <1>8, <2>3 DEF HandleFails, Watch, Phases
  <2> QED
    BY <1>8, <2>1, <2>2, <2>3 DEF HandleFails
<1>9. CASE Restart
  BY <1>0, <1>9, RestingIsNone DEF Restart, Watch
<1> QED
  BY <1>1, <1>2, <1>3, <1>4, <1>5, <1>6, <1>7, <1>8, <1>9 DEF WatchStep

LEMMA HeightTyped ==
  ASSUME Typed, Mined, NEW w, w \in applying.left
  PROVE  /\ applying \in Applying /\ applying # Resting
         /\ applying.block \in Block /\ Height \in 1 .. MaxBlocks /\ Height = Len(blocks) + 1
         /\ Len(blocks) \in Nat /\ applying.left \subseteq Writes
<1>1. applying \in Applying /\ applying # Resting
  BY RestingIsNone DEF Typed, Chains
<1>2. applying.block \in Block /\ applying.left \subseteq Writes
  BY <1>1 DEF Applying
<1>3. Len(blocks) \in Nat /\ Len(blocks) < mined /\ mined \in Nat /\ mined <= MaxBlocks
  BY <1>1, ChainFacts DEF Typed, Chains, Mined, Counted
<1> QED
  BY <1>1, <1>2, <1>3 DEF Height

LEMMA RowsStep == Typed /\ Mined /\ [Next]_vars => Rows' /\ Exclusive'
<1> SUFFICES ASSUME Typed, Mined, [Next]_vars PROVE Rows' /\ Exclusive'
  OBVIOUS
<1>0. /\ txs \in [Tx -> Row] /\ mrc \in [Tx -> Request] /\ lost \in SUBSET Tx
      /\ now \in 0 .. MaxTime /\ Null \in 0 .. MaxTime /\ Null \in 0 .. MaxBlocks
  BY DEF Typed, Rows, Counted, Times, Null
<1>r. \A t \in Tx : /\ txs[t] \in Row /\ mrc[t] \in Request
                    /\ txs[t].confirmed = Null \/ txs[t].evicted = Null
  BY <1>0 DEF Typed, Exclusive
<1>w. watch.tx \subseteq Tx /\ watch.left \subseteq Tx /\ watch.time \in 0 .. MaxTime
  BY DEF Typed, Watcher, Watch
<1>c. chain \in Seq(Block)
  BY DEF Typed, Chains
<1>t. \A r \in Row : \A s \in 0 .. MaxTime :
         /\ [r EXCEPT !.first = s] \in Row
         /\ [r EXCEPT !.confirmed = s, !.evicted = Null] \in Row
         /\ [r EXCEPT !.evicted = s, !.confirmed = Null] \in Row
         /\ [r EXCEPT !.confirmed = s, !.evicted = Null].evicted = Null
         /\ [r EXCEPT !.evicted = s, !.confirmed = Null].confirmed = Null
         /\ [r EXCEPT !.first = s].confirmed = r.confirmed
  BY <1>0 DEF Row
<1>k. ASSUME NEW tx \in [Tx -> Row], \A t \in Tx : tx[t].confirmed = Null \/ tx[t].evicted = Null,
             NEW m \in [Tx -> Request], NEW l \in SUBSET Tx, txs' = tx, mrc' = m, lost' = l
      PROVE  Rows' /\ Exclusive'
  BY <1>k DEF Rows, Exclusive
<1>l. ASSUME NEW l \in SUBSET Tx, lost' = l, UNCHANGED <<txs, mrc>> PROVE Rows' /\ Exclusive'
  BY <1>l, <1>k, <1>0, <1>r, Zenon
<1>1. CASE UNCHANGED <<tables, lost>>
  BY <1>1, <1>l, <1>0, Zenon DEF tables
<1>2. CASE Disconnects
  <2>1. Last(chain) \in Block
    BY <1>2, <1>c, FrontFacts, Zenon DEF Disconnects
  <2>2. lost \cup Last(chain).txs \in SUBSET Tx
    BY <1>0, <2>1 DEF Block
  <2> QED
    BY <1>2, <2>2, <1>l, Zenon DEF Disconnects, tables
<1>3. ASSUME NEW t \in Tx, EnterRow(t) PROVE Rows' /\ Exclusive'
  <2> DEFINE r == [NoRow EXCEPT !.first = now]
  <2>1. r \in Row /\ r.confirmed = Null
    BY <1>0, <1>t, RestingIsNone DEF NoRow
  <2>2. txs' = [txs EXCEPT ![t] = r] /\ mrc' = mrc /\ lost' = lost \ {t}
    BY <1>3 DEF EnterRow
  <2> HIDE DEF r
  <2>3. [txs EXCEPT ![t] = r] \in [Tx -> Row] /\ lost \ {t} \in SUBSET Tx
    BY <1>0, <2>1
  <2>4. \A u \in Tx : [txs EXCEPT ![t] = r][u].confirmed = Null \/ [txs EXCEPT ![t] = r][u].evicted = Null
    BY <1>0, <1>r, <2>1
  <2> QED
    BY <2>2, <2>3, <2>4, <1>k, <1>0, Zenon
<1>4. CASE EnterMrc
  <2> DEFINE m == [t \in Tx |-> IF t \in watch.tx THEN [first |-> watch.time, height |-> Null] ELSE mrc[t]]
  <2>1. [first |-> watch.time, height |-> Null] \in Request
    BY <1>0, <1>w DEF Request
  <2>2. m \in [Tx -> Request]
    BY <2>1, <1>r, Zenon
  <2>3. mrc' = m /\ txs' = txs /\ lost' = lost
    BY <1>4 DEF EnterMrc
  <2> HIDE DEF m
  <2> QED
    BY <2>2, <2>3, <1>k, <1>0, <1>r, Zenon
<1>5. CASE HandleFails
  <2>1. mrc' = mrc /\ txs' = txs
    BY <1>5 DEF HandleFails, tables
  <2>2. lost' \in SUBSET Tx
    BY <1>0, <1>w, <1>5 DEF HandleFails
  <2> QED
    BY <2>1, <2>2, <1>l, Zenon
<1>6. CASE StampExit
  <2> DEFINE tx == [t \in Tx |->
       IF t \notin watch.tx \/ txs[t] = NoRow THEN txs[t]
       ELSE IF watch.confirmed THEN [txs[t] EXCEPT !.confirmed = now, !.evicted = Null]
       ELSE [txs[t] EXCEPT !.evicted = now, !.confirmed = Null]]
  <2>0. ASSUME NEW t \in Tx PROVE tx[t] \in Row /\ (tx[t].confirmed = Null \/ tx[t].evicted = Null)
    <3>1. \/ tx[t] = txs[t]
          \/ tx[t] = [txs[t] EXCEPT !.confirmed = now, !.evicted = Null]
          \/ tx[t] = [txs[t] EXCEPT !.evicted = now, !.confirmed = Null]
      BY Zenon
    <3> HIDE DEF tx
    <3>2. /\ txs[t] \in Row /\ (txs[t].confirmed = Null \/ txs[t].evicted = Null)
          /\ [txs[t] EXCEPT !.confirmed = now, !.evicted = Null] \in Row
          /\ [txs[t] EXCEPT !.confirmed = now, !.evicted = Null].evicted = Null
          /\ [txs[t] EXCEPT !.evicted = now, !.confirmed = Null] \in Row
          /\ [txs[t] EXCEPT !.evicted = now, !.confirmed = Null].confirmed = Null
      BY <1>r, <1>0, <1>t, Zenon
    <3> QED
      BY <3>1, <3>2, Zenon
  <2>1. tx \in [Tx -> Row] /\ \A t \in Tx : tx[t].confirmed = Null \/ tx[t].evicted = Null
    BY <2>0, Zenon
  <2>2. txs' = tx /\ mrc' = mrc /\ lost' = lost
    BY <1>6 DEF StampExit
  <2> HIDE DEF tx
  <2> QED
    BY <2>1, <2>2, <1>k, <1>0, Zenon
<1>7. ASSUME NEW w, Write(w) PROVE /\ applying.block.time \in 0 .. MaxTime /\ Height \in 0 .. MaxBlocks
                                   /\ lost' \in SUBSET Tx
  <2>1. w \in applying.left
    BY <1>7, Zenon DEF Write
  <2>2. applying.block \in Block /\ Height \in 1 .. MaxBlocks
    BY <2>1, HeightTyped, Zenon
  <2>3. applying.block.txs \subseteq Tx /\ applying.block.time \in 0 .. MaxTime /\ Height \in 0 .. MaxBlocks
    BY <2>2 DEF Block, Times
  <2> QED
    BY <2>3, <1>0, <1>7 DEF Write
<1>8. CASE Reconcile
  <2> DEFINE tx == [t \in Tx |-> IF Mine(t) /\ txs[t] # NoRow /\ txs[t].confirmed = Null
               THEN [txs[t] EXCEPT !.confirmed = applying.block.time, !.evicted = Null] ELSE txs[t]]
  <2>1. txs' = tx /\ mrc' = mrc /\ lost' \in SUBSET Tx /\ applying.block.time \in 0 .. MaxTime
    BY <1>7, <1>8, Zenon DEF Reconcile
  <2>2. tx \in [Tx -> Row] /\ \A t \in Tx : tx[t].confirmed = Null \/ tx[t].evicted = Null
    BY <2>1, <1>r, <1>t, Zenon
  <2> HIDE DEF tx
  <2> QED
    BY <2>1, <2>2, <1>k, <1>0
<1>9. CASE InsertMrcRequests
  <2> DEFINE m == [t \in Tx |-> IF ~Mine(t) THEN mrc[t]
       ELSE [first |-> IF mrc[t] = NoMrc THEN applying.block.time ELSE mrc[t].first, height |-> Height]]
  <2>1. mrc' = m /\ txs' = txs /\ lost' \in SUBSET Tx
    BY <1>7, <1>9, Zenon DEF InsertMrcRequests
  <2>2. applying.block.time \in 0 .. MaxTime /\ Height \in 0 .. MaxBlocks
    BY <1>7, <1>9, Zenon DEF InsertMrcRequests
  <2>3. \A f \in 0 .. MaxTime : \A h \in 0 .. MaxBlocks : [first |-> f, height |-> h] \in Request
    BY DEF Request
  <2>4. \A t \in Tx : mrc[t].first \in 0 .. MaxTime
    BY <1>r DEF Request
  <2>5. m \in [Tx -> Request]
    BY <2>2, <2>3, <2>4, <1>r, Zenon
  <2> HIDE DEF m
  <2> QED
    BY <2>1, <2>5, <1>k, <1>0, <1>r, Zenon
<1>10. CASE CaptureSnapshot
  BY <1>10, <1>7, <1>l, Zenon DEF CaptureSnapshot
<1>11. CASE RollBack
  <2> DEFINE m == [t \in Tx |-> IF mrc[t].height >= Len(blocks) THEN NoMrc ELSE mrc[t]]
  <2>1. mrc' = m /\ txs' = txs /\ lost' = lost
    BY <1>11, Zenon DEF RollBack
  <2>2. m \in [Tx -> Request]
    BY <1>r, RestingIsNone, Zenon
  <2> HIDE DEF m
  <2> QED
    BY <2>1, <2>2, <1>k, <1>0, <1>r, Zenon
<1>12. CASE Restart
  <2>1. lost' \in SUBSET Tx
    BY <1>0, <1>w, <1>12 DEF Restart
  <2> QED
    BY <1>12, <2>1, <1>l, Zenon DEF Restart, tables
<1>13. CASE Tick \/ (\E t \in Tx : Arrives(t) \/ Dropped(t)) \/ (\E in \in SUBSET Tx, time \in Times : Mines(in, time)) \/ ReadPool \/ EntriesDone \/ TickDone
            \/ (\E t \in Tx : AskDaemon(t)) \/ StartApply \/ InsertBlocks \/ UNCHANGED vars
  BY <1>13, <1>1, Zenon DEF Tick, Arrives, Dropped, Mines, ReadPool, EntriesDone, TickDone, AskDaemon, StartApply,
     InsertBlocks, vars, watcher
<1> QED
  BY <1>2, <1>3, <1>4, <1>5, <1>6, <1>8, <1>9, <1>10, <1>11, <1>12, <1>13, Zenon DEF Next, WatchStep, IndexStep

LEMMA CountedStep == Typed /\ [Next]_vars => Counted'
<1> SUFFICES ASSUME Typed, [Next]_vars PROVE Counted'
  OBVIOUS
<1> USE DEF Typed, Counted, Times
<1>1. CASE UNCHANGED <<now, daemon, faults>>
  BY <1>1 DEF daemon
<1>2. CASE Tick
  BY <1>2 DEF Tick, daemon
<1>3. CASE Disconnects
  BY <1>3 DEF Disconnects
<1>4. ASSUME NEW in \in SUBSET Tx, NEW time \in Times, Mines(in, time) PROVE Counted'
  BY <1>4 DEF Mines
<1>5. CASE HandleFails \/ Restart
  BY <1>5 DEF HandleFails, Restart, Fault, daemon
<1>6. ASSUME NEW t \in Tx, AskDaemon(t) PROVE Counted'
  BY <1>6 DEF AskDaemon, Fault, daemon
<1>7. ASSUME NEW t \in Tx, Arrives(t) \/ Dropped(t) PROVE Counted'
  BY <1>7 DEF Arrives, Dropped
<1>8. CASE ReadPool \/ EnterMrc \/ EntriesDone \/ StampExit \/ TickDone \/ (\E t \in Tx : EnterRow(t))
           \/ IndexStep \/ UNCHANGED vars
  BY <1>8, <1>1, Zenon DEF ReadPool, EnterMrc, EntriesDone, StampExit, TickDone, EnterRow, IndexStep, StartApply,
     Reconcile, InsertMrcRequests, CaptureSnapshot, InsertBlocks, RollBack, vars
<1> QED
  BY <1>2, <1>3, <1>4, <1>5, <1>6, <1>7, <1>8, Zenon DEF Next, WatchStep

LEMMA ChainsStep == Typed /\ Mined /\ [Next]_vars => Chains'
<1> SUFFICES ASSUME Typed, Mined, [Next]_vars PROVE Chains'
  OBVIOUS
<1>0. /\ pool \in SUBSET Tx /\ sent \in SUBSET Tx /\ chain \in Seq(Block) /\ blocks \in Seq(Block)
      /\ applying = Resting \/ applying \in Applying
      /\ mined \in 0 .. MaxBlocks /\ now \in Times
  BY DEF Typed, Chains, Counted
<1>1. CASE UNCHANGED <<daemon, indexer>>
  BY <1>1, <1>0, Zenon DEF daemon, indexer, Chains
<1>2. CASE Disconnects
  <2>1. Front(chain) \in Seq(Block) /\ Last(chain) \in Block
    BY <1>2, <1>0, FrontFacts, Zenon DEF Disconnects
  <2>2. Last(chain).txs \subseteq Tx
    BY <2>1 DEF Block
  <2>3. /\ chain' = Front(chain) /\ pool' \in {pool, pool \cup Last(chain).txs}
        /\ UNCHANGED <<sent, blocks, applying>>
    BY <1>2 DEF Disconnects, indexer
  <2>4. pool' \in SUBSET Tx
    BY <2>2, <2>3, <1>0
  <2> QED
    BY <2>1, <2>3, <2>4, <1>0, Zenon DEF Chains
<1>3. ASSUME NEW t \in Tx, Arrives(t) \/ Dropped(t) PROVE Chains'
  <2>1. UNCHANGED <<chain, blocks, applying>> /\ pool' \in SUBSET Tx /\ sent' \in SUBSET Tx
    BY <1>3, <1>0 DEF Arrives, Dropped, indexer
  <2> QED
    BY <2>1, <1>0, Zenon DEF Chains
<1>4. ASSUME NEW in \in SUBSET Tx, NEW time \in Times, Mines(in, time) PROVE Chains'
  <2> DEFINE b == [id |-> mined + 1, time |-> time, ahead |-> time > now, txs |-> in, pool |-> pool]
  <2>1. b \in Block
    BY <1>0, <1>4 DEF Mines, Block
  <2>2. /\ chain' = Append(chain, b) /\ pool' = pool \ in /\ UNCHANGED <<sent, blocks, applying>>
    BY <1>4 DEF Mines, indexer
  <2> HIDE DEF b
  <2>3. Append(chain, b) \in Seq(Block) /\ pool \ in \in SUBSET Tx
    BY <1>0, <2>1
  <2> QED
    BY <2>2, <2>3, <1>0, Zenon DEF Chains
<1>5. CASE StartApply
  <2>1. [block |-> chain[Len(blocks) + 1], left |-> Writes] \in Applying
    <3>1. Len(blocks) + 1 \in 1 .. Len(chain)
      BY <1>0, <1>5 DEF StartApply
    <3> QED
      BY <1>0, <3>1 DEF Applying
  <2> QED
    BY <1>5, <2>1, <1>0, Zenon DEF StartApply, Chains, daemon
<1>6. ASSUME NEW w, Write(w), UNCHANGED <<daemon, blocks>> PROVE Chains'
  <2>1. applying \in Applying /\ applying' = [applying EXCEPT !.left = @ \ {w}]
    BY <1>6, HeightTyped, Zenon DEF Write
  <2>2. applying' \in Applying
    BY <2>1 DEF Applying
  <2> QED
    BY <1>6, <2>2, <1>0, Zenon DEF Chains, daemon
<1>7. CASE Reconcile \/ InsertMrcRequests \/ CaptureSnapshot
  BY <1>6, <1>7, Zenon DEF Reconcile, InsertMrcRequests, CaptureSnapshot
<1>8. CASE InsertBlocks
  <2>1. applying \in Applying
    BY <1>0, <1>8, Zenon DEF InsertBlocks
  <2>2. Append(blocks, applying.block) \in Seq(Block)
    BY <1>0, <2>1 DEF Applying
  <2> QED
    BY <1>8, <2>2, <1>0, Zenon DEF InsertBlocks, Chains, daemon
<1>9. CASE RollBack
  <2>1. Front(blocks) \in Seq(Block)
    BY <1>9, <1>0, FrontFacts, Zenon DEF RollBack
  <2> QED
    BY <1>9, <2>1, <1>0, Zenon DEF RollBack, Chains, daemon
<1>10. CASE Restart
  BY <1>10, <1>0, Zenon DEF Restart, Chains, daemon
<1>11. CASE Tick \/ ReadPool \/ EnterMrc \/ EntriesDone \/ StampExit \/ TickDone \/ (\E t \in Tx : EnterRow(t) \/ AskDaemon(t))
            \/ HandleFails \/ UNCHANGED vars
  BY <1>11, <1>1, Zenon DEF Tick, ReadPool, EnterMrc, EntriesDone, StampExit, TickDone, EnterRow, AskDaemon, HandleFails, vars
<1> QED
  BY <1>2, <1>3, <1>4, <1>5, <1>7, <1>8, <1>9, <1>10, <1>11, Zenon DEF Next, WatchStep, IndexStep

LEMMA SnapsStep == Typed /\ Mined /\ Snaps /\ [Next]_vars => Snaps'
<1> SUFFICES ASSUME Typed, Mined, Snaps, [Next]_vars PROVE Snaps'
  OBVIOUS
<1>1. CASE UNCHANGED snaps
  BY <1>1 DEF Snaps
<1>2. CASE CaptureSnapshot
  <2>1. "snapshot" \in applying.left
    BY <1>2, Zenon DEF CaptureSnapshot, Write
  <2>2. applying.block \in Block /\ Height \in 1 .. MaxBlocks
    BY <2>1, HeightTyped, Zenon
  <2>3. applying.block.id \in 1 .. MaxBlocks
    BY <2>2 DEF Block
  <2>4. \A t \in Tx : [height |-> Height, block |-> applying.block.id, tx |-> t, included |-> Mine(t)] \in Snapshot
    <3> TAKE t \in Tx
    <3>1. Mine(t) \in BOOLEAN
      BY DEF Mine
    <3>2. PICK m \in BOOLEAN : m = Mine(t)
      BY <3>1
    <3>3. [height |-> Height, block |-> applying.block.id, tx |-> t, included |-> m] \in Snapshot
      BY <2>2, <2>3 DEF Snapshot
    <3> QED
      BY <3>2, <3>3
  <2> DEFINE seen == {t \in Tx : ActiveAt(t, applying.block.time)}
             kept == {s \in snaps : s.height # Height \/ s.tx \notin seen}
             new == {[height |-> Height, block |-> applying.block.id, tx |-> t, included |-> Mine(t)] : t \in seen}
  <2>5. snaps' = kept \cup new
    BY <1>2 DEF CaptureSnapshot
  <2>6. kept \subseteq Snapshot
    BY DEF Snaps
  <2>7. new \subseteq Snapshot
    BY <2>4, Zenon
  <2> QED
    BY <2>5, <2>6, <2>7, Zenon DEF Snaps
<1> QED
  BY <1>1, <1>2, Zenon DEF Next, WatchStep, IndexStep, Tick, Disconnects, Arrives, Dropped, Mines, ReadPool, EnterMrc,
     EntriesDone, StampExit, TickDone, EnterRow, AskDaemon, StartApply, Reconcile, InsertMrcRequests, InsertBlocks, RollBack,
     HandleFails, Restart, tables, vars

LEMMA MarkedStep == Typed /\ Marked /\ [Next]_vars => Marked'
<1> SUFFICES ASSUME Typed, Marked, [Next]_vars PROVE Marked'
  OBVIOUS
<1>0. watch.tx \subseteq Tx
  BY DEF Typed, Watcher, Watch
<1>1. CASE EnterMrc
  BY <1>0, <1>1 DEF EnterMrc, Marked
<1>2. CASE StampExit
  BY <1>0, <1>2 DEF StampExit, Marked
<1>3. ASSUME NEW t \in Tx, EnterRow(t) PROVE Marked'
  BY <1>3 DEF EnterRow, Marked
<1>4. CASE UNCHANGED overtaken
  BY <1>4 DEF Marked
<1> QED
  BY <1>1, <1>2, <1>3, <1>4, Zenon DEF Next, WatchStep, IndexStep, Tick, Disconnects, Arrives, Dropped, Mines, ReadPool,
     EntriesDone, TickDone, AskDaemon, StartApply, Reconcile, InsertMrcRequests, CaptureSnapshot, InsertBlocks, RollBack,
     HandleFails, Restart, vars

-----------------------------------------------------------------------------
(* The daemon's chain.                                                     *)

(* What is on the chain once is there no second time. *)
LEMMA Once ==
  ASSUME Typed, Mined, NEW i \in 1 .. Len(chain), NEW j \in 1 .. Len(chain), chain[i] = chain[j]
  PROVE  i = j
<1>1. /\ Len(chain) \in Nat /\ \A k \in 1 .. Len(chain) : chain[k].id \in Int
  <2>1. chain \in Seq(Block) /\ \A b \in Block : b.id \in Int
    BY DEF Typed, Chains, Block
  <2> QED
    BY <2>1, ChainFacts, Zenon
<1>2. \A k, l \in 1 .. Len(chain) : k < l => chain[k].id < chain[l].id
  BY DEF Mined
<1> QED
  BY <1>1, <1>2

LEMMA MinedInit == Init => Mined
<1> SUFFICES ASSUME Init PROVE Mined
  OBVIOUS
<1>1. pool = {} /\ sent = {} /\ chain = << >> /\ blocks = << >> /\ mined = 0 /\ applying = Resting
  BY DEF Init
<1>2. Len(chain) = 0 /\ Len(blocks) = 0 /\ 1 .. Len(chain) = {}
  BY <1>1
<1> QED
  BY <1>1, <1>2 DEF Mined

LEMMA MinedStep == Typed /\ Mined /\ [Next]_vars => Mined'
<1> SUFFICES ASSUME Typed, Mined, [Next]_vars PROVE Mined'
  OBVIOUS
<1>0. /\ pool \in SUBSET Tx /\ sent \in SUBSET Tx /\ chain \in Seq(Block) /\ blocks \in Seq(Block)
      /\ applying = Resting \/ applying \in Applying
      /\ mined \in 0 .. MaxBlocks /\ now \in Times /\ mined \in Int /\ now \in Int
  BY DEF Typed, Chains, Counted, Times
<1>b. /\ Len(chain) \in Nat /\ Len(blocks) \in Nat
      /\ \A i \in 1 .. Len(chain) : chain[i] \in Block /\ chain[i].id \in Int
      /\ \A i \in 1 .. Len(blocks) : blocks[i] \in Block
      /\ \A b : b \in Range(chain) <=> \E i \in 1 .. Len(chain) : b = chain[i]
  <2>1. \A b \in Block : b.id \in Int /\ b.time \in Int
    BY DEF Block, Times
  <2> QED
    BY <1>0, <2>1, ChainFacts, Zenon
<1>m. /\ pool \subseteq sent
      /\ Len(blocks) <= mined /\ Len(chain) <= mined
      /\ \A i \in 1 .. Len(chain) : chain[i].id <= mined /\ Past(chain[i], now) /\ chain[i].txs \subseteq sent \ pool
      /\ \A i, j \in 1 .. Len(chain) : i < j =>
            /\ chain[i].id < chain[j].id
            /\ chain[i].txs \cap (chain[j].txs \cup chain[j].pool) = {}
      /\ applying # Resting =>
            /\ Len(blocks) < mined /\ applying.block.id <= mined /\ Past(applying.block, now)
            /\ applying.block \in Range(chain) => Follows
  BY Zenon DEF Mined
<1>1. CASE UNCHANGED <<now, daemon, indexer>>
  BY <1>1 DEF daemon, indexer, Mined, Follows
<1>2. CASE Tick
  <2>1. now' = now + 1 /\ UNCHANGED <<pool, chain, sent, mined, blocks, applying>>
    BY <1>2 DEF Tick, daemon, indexer
  <2>2. \A b \in Block : Past(b, now) => Past(b, now + 1)
    <3>1. \A b \in Block : b.time \in Int
      BY DEF Block, Times
    <3> QED
      BY <3>1, <1>0 DEF Past
  <2>3. \A i \in 1 .. Len(chain) : chain[i].id <= mined /\ Past(chain[i], now + 1) /\ chain[i].txs \subseteq sent \ pool
    BY <2>2, <1>b, <1>m, Zenon
  <2>4. applying # Resting => Past(applying.block, now + 1)
    <3>1. applying # Resting => applying.block \in Block
      BY <1>0 DEF Applying
    <3> QED
      BY <2>2, <3>1, <1>m, Zenon
  <2>5. Follows' = Follows
    BY <2>1 DEF Follows
  <2> QED
    BY <1>m, <2>1, <2>3, <2>4, <2>5, Zenon DEF Mined
<1>3. CASE Disconnects
  <2> DEFINE n == Len(chain)
  <2>1. /\ Front(chain) \in Seq(Block) /\ n >= 1 /\ Len(Front(chain)) = n - 1
        /\ \A i \in 1 .. n - 1 : Front(chain)[i] = chain[i]
        /\ Last(chain) = chain[n]
    BY <1>3, <1>0, FrontFacts, Zenon DEF Disconnects
  <2>2. /\ chain' = Front(chain) /\ pool' \in {pool, pool \cup Last(chain).txs}
        /\ UNCHANGED <<sent, blocks, applying, mined, now>>
    BY <1>3 DEF Disconnects, indexer
  <2>3. pool' \subseteq sent /\ \A i \in 1 .. n - 1 : chain[i].txs \subseteq sent \ pool'
    <3>1. n \in 1 .. n /\ \A i \in 1 .. n - 1 : i \in 1 .. n /\ i < n
      BY <1>b, <2>1
    <3>2. chain[n].txs \subseteq sent
      BY <1>m, <3>1
    <3>3. \A i \in 1 .. n - 1 : chain[i].txs \cap chain[n].txs = {} /\ chain[i].txs \subseteq sent \ pool
      BY <1>m, <3>1
    <3> HIDE DEF n
    <3> QED
      BY <2>1, <2>2, <3>2, <3>3, <1>m
  <2>4. \A i \in 1 .. n - 1 : i \in 1 .. n
    BY <1>b
  <2>5. applying # Resting /\ applying.block \in Range(Front(chain)) => Follows'
    <3> SUFFICES ASSUME applying # Resting, applying.block \in Range(Front(chain)) PROVE Follows'
      OBVIOUS
    <3>1. PICK i \in 1 .. n - 1 : applying.block = chain[i]
      BY <2>1, ChainFacts
    <3>2. Follows
      BY <3>1, <2>4, <1>b, <1>m
    <3>3. Len(blocks) + 1 \in 1 .. n
      BY <3>2, <1>b DEF Follows
    <3>4. Len(blocks) + 1 = i
      BY <3>1, <3>2, <3>3, <2>4, Once DEF Follows
    <3>5. /\ Len(blocks) = i - 1 /\ i \in Int /\ n \in Int /\ 1 <= i /\ i <= n - 1
          /\ \A k \in 1 .. Len(blocks) : blocks[k] = chain[k]
      BY <3>2, <3>4, <1>b DEF Follows
    <3> HIDE DEF n
    <3>6. Len(Front(chain)) = n - 1 /\ \A k \in 1 .. n - 1 : Front(chain)[k] = chain[k]
      BY <2>1
    <3>7. Len(blocks) < Len(Front(chain)) /\ Len(blocks) + 1 = i
      BY <3>5, <3>6
    <3>8. applying.block = Front(chain)[Len(blocks) + 1]
      BY <3>1, <3>6, <3>7, Zenon
    <3>9. \A k \in 1 .. Len(blocks) : k \in 1 .. n - 1
      BY <3>5
    <3>10. \A k \in 1 .. Len(blocks) : blocks[k] = Front(chain)[k]
      BY <3>5, <3>6, <3>9, Zenon
    <3> QED
      BY <3>7, <3>8, <3>10, <2>2, Zenon DEF Follows
  <2>6. Len(chain') = n - 1 /\ \A i \in 1 .. n - 1 : chain'[i] = chain[i]
    BY <2>1, <2>2
  <2>7. \A i \in 1 .. Len(chain') : chain'[i].id <= mined /\ Past(chain'[i], now) /\ chain'[i].txs \subseteq sent \ pool'
    BY <2>3, <2>4, <2>6, <1>m
  <2>8. \A i, j \in 1 .. Len(chain') : i < j =>
            /\ chain'[i].id < chain'[j].id
            /\ chain'[i].txs \cap (chain'[j].txs \cup chain'[j].pool) = {}
    <3>1. \A i, j \in 1 .. n : i < j =>
              chain[i].id < chain[j].id /\ chain[i].txs \cap (chain[j].txs \cup chain[j].pool) = {}
      BY <1>m, Zenon
    <3> HIDE DEF n
    <3> TAKE i, j \in 1 .. Len(chain')
    <3>2. i \in 1 .. n - 1 /\ j \in 1 .. n - 1
      BY <2>6, Zenon
    <3>3. i \in 1 .. n /\ j \in 1 .. n /\ chain'[i] = chain[i] /\ chain'[j] = chain[j]
      BY <3>2, <2>4, <2>6, Zenon
    <3> QED
      BY <3>1, <3>3, Zenon
  <2>9. Len(chain') <= mined
    BY <2>6, <1>m, <1>b, <1>0
  <2> QED
    BY <2>2, <2>3, <2>5, <2>7, <2>8, <2>9, <1>m, Zenon DEF Mined
<1>4. ASSUME NEW t \in Tx, Arrives(t) PROVE Mined'
  <2>1. t \notin sent /\ sent' = sent \cup {t} /\ pool' = pool \cup {t} /\ UNCHANGED <<chain, mined, now, blocks, applying>>
    BY <1>4 DEF Arrives, indexer
  <2>2. pool' \subseteq sent' /\ \A i \in 1 .. Len(chain) : chain[i].txs \subseteq sent' \ pool'
    BY <2>1, <1>m
  <2>3. Follows' = Follows
    BY <2>1 DEF Follows
  <2> QED
    BY <1>m, <2>1, <2>2, <2>3, Zenon DEF Mined
<1>5. ASSUME NEW t \in Tx, Dropped(t) PROVE Mined'
  <2>1. pool' = pool \ {t} /\ UNCHANGED <<sent, chain, mined, now, blocks, applying>>
    BY <1>5 DEF Dropped, indexer
  <2>2. pool' \subseteq sent /\ \A i \in 1 .. Len(chain) : chain[i].txs \subseteq sent \ pool'
    BY <2>1, <1>m
  <2>3. Follows' = Follows
    BY <2>1 DEF Follows
  <2> QED
    BY <1>m, <2>1, <2>2, <2>3, Zenon DEF Mined
<1>6. ASSUME NEW in \in SUBSET Tx, NEW time \in Times, Mines(in, time) PROVE Mined'
  <2> DEFINE n == Len(chain)
             b == [id |-> mined + 1, time |-> time, ahead |-> time > now, txs |-> in, pool |-> pool]
  <2>1. b \in Block
    BY <1>0, <1>6 DEF Mines, Block
  <2>2. /\ chain' = Append(chain, b) /\ pool' = pool \ in /\ mined' = mined + 1 /\ in \subseteq sent \ In(chain)
        /\ UNCHANGED <<now, sent, blocks, applying>>
    BY <1>6 DEF Mines, indexer
  <2>3. b.id = mined + 1 /\ Past(b, now) /\ b.txs = in /\ b.pool = pool
    <3>1. b.id = mined + 1 /\ b.txs = in /\ b.pool = pool /\ b.time = time /\ b.ahead = (time > now)
      BY DEF b
    <3>2. ~(time > now) => time <= now
      BY <1>0 DEF Times
    <3> QED
      BY <3>1, <3>2, Zenon DEF Past
  <2> HIDE DEF b
  <2>4. Len(chain') = n + 1 /\ (\A i \in 1 .. n : chain'[i] = chain[i]) /\ chain'[n + 1] = b
    BY <2>1, <2>2, <1>0, AppendFacts
  <2>5. \A i \in 1 .. n : chain[i].txs \cap in = {}
    BY <2>2, <1>0, ChainFacts
  <2>6. \A i \in 1 .. n + 1 : i \in 1 .. n \/ i = n + 1
    BY <1>b
  <2>7. /\ \A i \in 1 .. n : chain[i].id <= mined + 1 /\ Past(chain[i], now) /\ chain[i].txs \subseteq sent \ pool'
        /\ b.id <= mined + 1 /\ Past(b, now) /\ b.txs \subseteq sent \ pool'
    <3>1. \A i \in 1 .. n : chain[i].id <= mined + 1
      BY <1>0, <1>b, <1>m
    <3>2. b.id <= mined + 1 /\ Past(b, now)
      BY <1>0, <2>3
    <3>3. b.txs \subseteq sent \ pool' /\ \A i \in 1 .. n : chain[i].txs \subseteq sent \ pool'
      BY <2>2, <2>3, <1>m
    <3> QED
      BY <3>1, <3>2, <3>3, <1>m, Zenon
  <2>8. \A i \in 1 .. Len(chain') : chain'[i].id <= mined' /\ Past(chain'[i], now) /\ chain'[i].txs \subseteq sent \ pool'
    BY <2>2, <2>4, <2>6, <2>7, Zenon
  <2>9. \A i \in 1 .. n : chain[i].id < b.id /\ chain[i].txs \cap (b.txs \cup b.pool) = {}
    <3>1. \A i \in 1 .. n : chain[i].id < b.id
      BY <1>0, <1>b, <1>m, <2>3
    <3>2. \A i \in 1 .. n : chain[i].txs \cap (b.txs \cup b.pool) = {}
      BY <2>3, <2>5, <1>m
    <3> QED
      BY <3>1, <3>2, Zenon
  <2>10. \A i, j \in 1 .. n + 1 : i < j => i \in 1 .. n
    BY <1>b
  <2>11. \A i, j \in 1 .. Len(chain') : i < j =>
            /\ chain'[i].id < chain'[j].id
            /\ chain'[i].txs \cap (chain'[j].txs \cup chain'[j].pool) = {}
    <3> SUFFICES ASSUME NEW i \in 1 .. n + 1, NEW j \in 1 .. n + 1, i < j
                 PROVE  /\ chain'[i].id < chain'[j].id
                        /\ chain'[i].txs \cap (chain'[j].txs \cup chain'[j].pool) = {}
      BY <2>4, Zenon
    <3>1. i \in 1 .. n /\ chain'[i] = chain[i]
      BY <2>4, <2>10, Zenon
    <3>2. CASE j = n + 1
      BY <3>1, <3>2, <2>4, <2>9, Zenon
    <3>3. CASE j \in 1 .. n
      BY <3>1, <3>3, <2>4, <1>m, Zenon
    <3> QED
      BY <3>2, <3>3, <2>6, Zenon
  <2>12. Len(blocks) <= mined' /\ Len(chain') <= mined'
    BY <2>2, <2>4, <1>0, <1>b, <1>m
  <2>13. applying # Resting =>
            /\ Len(blocks) < mined' /\ applying.block.id <= mined' /\ Past(applying.block, now)
            /\ applying.block \in Range(chain') => Follows'
    <3> SUFFICES ASSUME applying # Resting
                 PROVE  /\ Len(blocks) < mined' /\ applying.block.id <= mined' /\ Past(applying.block, now)
                        /\ applying.block \in Range(chain') => Follows'
      OBVIOUS
    <3>1. applying.block.id \in Int
      BY <1>0 DEF Applying, Block
    <3>2. Len(blocks) < mined' /\ applying.block.id < mined + 1 /\ applying.block.id <= mined' /\ Past(applying.block, now)
      BY <3>1, <1>0, <1>b, <1>m, <2>2
    <3>3. applying.block # b
      BY <3>1, <3>2, <2>3, <1>0
    <3>4. ASSUME applying.block \in Range(chain') PROVE Follows'
      <4>1. chain' \in Seq(Block)
        BY <2>1, <2>2, <1>0, AppendFacts, Zenon
      <4>2. PICK i \in 1 .. Len(chain') : applying.block = chain'[i]
        BY <3>4, <4>1, ChainFacts, Zenon
      <4>3. i \in 1 .. n /\ applying.block = chain[i]
        BY <4>2, <3>3, <2>4, <2>6, Zenon
      <4>4. Follows
        BY <4>3, <1>b, <1>m, Zenon
      <4>5. Len(blocks) < n /\ Len(blocks) + 1 \in 1 .. n /\ Len(blocks) < n + 1 /\ \A k \in 1 .. Len(blocks) : k \in 1 .. n
        BY <4>4, <1>b DEF Follows
      <4> HIDE DEF n
      <4>6. /\ Len(blocks) < Len(chain') /\ applying.block = chain'[Len(blocks) + 1]
            /\ \A k \in 1 .. Len(blocks) : blocks[k] = chain'[k]
        BY <4>4, <4>5, <2>4, Zenon DEF Follows
      <4> QED
        BY <4>6, <2>2, Zenon DEF Follows
    <3> QED
      BY <3>2, <3>4, Zenon
  <2>14. pool' \subseteq sent
    BY <2>2, <1>m
  <2>15. mined' = mined + 1 /\ UNCHANGED <<now, sent, blocks, applying>>
    BY <2>2, Zenon
  <2> QED
    BY <2>15, <2>8, <2>11, <2>12, <2>13, <2>14, Zenon DEF Mined
<1>7. CASE StartApply
  <2>1. /\ applying' = [block |-> chain[Len(blocks) + 1], left |-> Writes] /\ IsPrefix(blocks, chain)
        /\ Len(blocks) < Len(chain) /\ UNCHANGED <<now, pool, chain, sent, mined, blocks>>
    BY <1>7 DEF StartApply, daemon
  <2>2. applying'.block = chain[Len(blocks) + 1] /\ Len(blocks) + 1 \in 1 .. Len(chain)
    BY <2>1, <1>b
  <2>3. Follows'
    BY <2>1, <2>2, <1>0, PrefixFacts, Zenon DEF Follows
  <2>4. Len(blocks) < mined
    BY <2>1, <1>m, <1>b, <1>0
  <2>5. applying'.block.id <= mined /\ Past(applying'.block, now)
    BY <2>2, <1>m, Zenon
  <2> QED
    BY <1>m, <2>1, <2>3, <2>4, <2>5, Zenon DEF Mined
<1>8. ASSUME NEW w, Write(w), UNCHANGED <<now, daemon, blocks>> PROVE Mined'
  <2>1. applying \in Applying /\ applying # Resting /\ applying' = [applying EXCEPT !.left = @ \ {w}]
    BY <1>8, HeightTyped, Zenon DEF Write
  <2>2. applying'.block = applying.block
    BY <2>1 DEF Applying
  <2>3. UNCHANGED <<now, pool, chain, sent, mined, blocks>>
    BY <1>8 DEF daemon
  <2>4. Follows' = Follows
    BY <2>2, <2>3 DEF Follows
  <2> QED
    BY <1>m, <2>1, <2>2, <2>3, <2>4, Zenon DEF Mined
<1>9. CASE Reconcile \/ InsertMrcRequests \/ CaptureSnapshot
  BY <1>8, <1>9, Zenon DEF Reconcile, InsertMrcRequests, CaptureSnapshot
<1>10. ASSUME UNCHANGED <<now, daemon>>, applying' = Resting, Len(blocks') <= mined PROVE Mined'
  BY <1>10, <1>m, Zenon DEF Mined, daemon
<1>11. CASE InsertBlocks
  <2>1. applying \in Applying /\ applying # Resting
    BY <1>0, <1>11, Zenon DEF InsertBlocks
  <2>2. applying.block \in Block
    BY <2>1 DEF Applying
  <2>3. Len(blocks') = Len(blocks) + 1
    BY <2>2, <1>0, <1>11, AppendFacts, Zenon DEF InsertBlocks
  <2>4. Len(blocks') <= mined
    BY <2>1, <2>3, <1>m, <1>b, <1>0
  <2> QED
    BY <2>4, <1>10, <1>11, Zenon DEF InsertBlocks
<1>12. CASE RollBack
  <2>1. Len(blocks') = Len(blocks) - 1
    BY <1>12, <1>0, FrontFacts, Zenon DEF RollBack
  <2>2. Len(blocks') <= mined
    BY <2>1, <1>m, <1>b, <1>0
  <2>3. applying' = Resting /\ UNCHANGED <<now, daemon>>
    BY <1>12, Zenon DEF RollBack
  <2> QED
    BY <2>2, <2>3, <1>10, Zenon
<1>13. CASE Restart
  BY <1>13, <1>10, <1>m, Zenon DEF Restart
<1>14. CASE ReadPool \/ EnterMrc \/ EntriesDone \/ StampExit \/ TickDone \/ (\E t \in Tx : EnterRow(t) \/ AskDaemon(t))
            \/ HandleFails \/ UNCHANGED vars
  BY <1>14, <1>1, Zenon DEF ReadPool, EnterMrc, EntriesDone, StampExit, TickDone, EnterRow, AskDaemon, HandleFails, vars
<1> QED
  BY <1>2, <1>3, <1>4, <1>5, <1>6, <1>7, <1>9, <1>11, <1>12, <1>13, <1>14, Zenon DEF Next, WatchStep, IndexStep

-----------------------------------------------------------------------------
(* Who waits no more.                                                      *)

LEMMA WatchedInit == Init => Watched
  BY DEF Init, Watched, Idle, Leaving

(* Away stays away, unless a block with the transaction is disconnected. *)
LEMMA AwayStays ==
  ASSUME Typed, Mined, [Next]_vars, NEW t, Away(t), t \notin lost'
  PROVE  Away(t)'
<1>1. CASE UNCHANGED <<pool, sent>>
  BY <1>1 DEF Away
<1>2. CASE Disconnects
  <2>1. sent' = sent /\ pool' \subseteq pool \cup Last(chain).txs /\ lost' = lost \cup Last(chain).txs
    BY <1>2 DEF Disconnects
  <2> QED
    BY <2>1 DEF Away
<1>3. ASSUME NEW u \in Tx, Arrives(u) \/ Dropped(u) PROVE Away(t)'
  BY <1>3 DEF Arrives, Dropped, Away
<1>4. ASSUME NEW in \in SUBSET Tx, NEW time \in Times, Mines(in, time) PROVE Away(t)'
  BY <1>4 DEF Mines, Away
<1> QED
  BY <1>1, <1>2, <1>3, <1>4, Zenon DEF Next, WatchStep, IndexStep, Tick, ReadPool, EnterMrc,
     EntriesDone, StampExit, TickDone, EnterRow, AskDaemon, StartApply, Reconcile, InsertMrcRequests, CaptureSnapshot,
     InsertBlocks, RollBack, HandleFails, Restart, daemon, vars

LEMMA WatchedStep == Typed /\ Mined /\ Watched /\ [Next]_vars => Watched'
<1> SUFFICES ASSUME Typed, Mined, Watched, [Next]_vars PROVE Watched'
  OBVIOUS
<1>0. /\ last \cup watch.pool \cup watch.left \cup watch.tx \subseteq sent
      /\ watch.pc \in {"entries", "mrc"} => watch.left \subseteq watch.pool
      /\ \A t \in Tx : t \notin lost /\ Leaving(t) => Away(t)
      /\ pool \subseteq sent /\ watch \in Watch /\ sent \subseteq sent'
  <2>1. sent \subseteq sent'
    BY DEF Next, WatchStep, IndexStep, Tick, Disconnects, Arrives, Dropped, Mines, ReadPool, EnterMrc,
     EntriesDone, StampExit, TickDone, EnterRow, AskDaemon, StartApply, Reconcile, InsertMrcRequests, CaptureSnapshot,
     InsertBlocks, RollBack, HandleFails, Restart, daemon, vars
  <2> QED
    BY <2>1, Zenon DEF Watched, Mined, Typed, Watcher
(* It is enough to say who is leaving anew. *)
<1>k. ASSUME last' \cup watch'.pool \cup watch'.left \cup watch'.tx \subseteq sent,
             watch'.pc \in {"entries", "mrc"} => watch'.left \subseteq watch'.pool,
             \A t \in Tx : t \notin lost' /\ Leaving(t)' => (t \notin lost /\ Leaving(t)) \/ Away(t)
      PROVE  Watched'
  <2>1. \A t \in Tx : t \notin lost' /\ Leaving(t)' => Away(t)'
    BY <1>k, <1>0, AwayStays, Zenon
  <2> QED
    BY <1>k, <1>0, <2>1 DEF Watched
<1>l. ASSUME UNCHANGED watcher, lost \subseteq lost' PROVE Watched'
  <2>1. UNCHANGED <<last, watch>>
    BY <1>l DEF watcher
  <2>2. \A t : Leaving(t)' <=> Leaving(t)
    BY <2>1 DEF Leaving
  <2> QED
    BY <2>1, <2>2, <1>l, <1>k, <1>0
<1>1. CASE ReadPool
  BY <1>1, <1>k, <1>0 DEF ReadPool, Idle, Leaving, Away
<1>2. ASSUME NEW t \in Tx, EnterRow(t) PROVE Watched'
  <2>1. /\ watch.pc = "entries" /\ t \in watch.left /\ lost' = lost \ {t} /\ last' = last
        /\ watch'.pc = "mrc" /\ watch'.pool = watch.pool /\ watch'.left = watch.left \ {t} /\ watch'.tx = {t}
    BY <1>2, <1>0 DEF EnterRow, Watch
  <2>2. \A u \in Tx : u \notin lost' /\ Leaving(u)' => u \notin lost /\ Leaving(u)
    BY <2>1, <1>0 DEF Leaving
  <2> QED
    BY <2>1, <2>2, <1>k, <1>0
<1>3. CASE EnterMrc
  <2>1. /\ watch.pc = "mrc" /\ lost \subseteq lost' /\ last' = last
        /\ watch'.pc = "entries" /\ watch'.pool = watch.pool /\ watch'.left = watch.left /\ watch'.tx = {}
    BY <1>3, <1>0 DEF EnterMrc, Watch
  <2>2. \A u \in Tx : u \notin lost' /\ Leaving(u)' => u \notin lost /\ Leaving(u)
    BY <2>1 DEF Leaving
  <2> QED
    BY <2>1, <2>2, <1>k, <1>0
<1>4. CASE HandleFails
  <2>0. last' = last /\ UNCHANGED <<now, daemon>>
    BY <1>4 DEF HandleFails
  <2>1. ASSUME watch.pc \in {"entries", "exits"}, NEW t \in watch.left, watch' = [watch EXCEPT !.left = @ \ {t}],
               lost' = lost \cup {t}
        PROVE  Watched'
    <3>1. /\ watch'.pc = watch.pc /\ watch'.pool = watch.pool /\ watch'.left = watch.left \ {t} /\ watch'.tx = watch.tx
      BY <2>1, <1>0 DEF Watch
    <3>2. \A u \in Tx : u \notin lost' /\ Leaving(u)' => u \notin lost /\ Leaving(u)
      BY <2>0, <2>1, <3>1 DEF Leaving
    <3> QED
      BY <2>0, <3>1, <3>2, <1>k, <1>0
  <2>2. ASSUME watch.pc = "mrc", watch' = [watch EXCEPT !.pc = "entries", !.tx = {}, !.time = Null],
               lost' = lost \cup watch.tx
        PROVE  Watched'
    <3>1. /\ watch'.pc = "entries" /\ watch'.pool = watch.pool /\ watch'.left = watch.left /\ watch'.tx = {}
      BY <2>2, <1>0 DEF Watch
    <3>2. \A u \in Tx : u \notin lost' /\ Leaving(u)' => u \notin lost /\ Leaving(u)
      BY <2>0, <2>2, <3>1 DEF Leaving
    <3> QED
      BY <2>0, <2>2, <3>1, <3>2, <1>k, <1>0
  <2>3. ASSUME watch.pc = "update", watch' = [watch EXCEPT !.pc = "exits", !.tx = {}, !.confirmed = FALSE],
               lost' = lost \cup watch.tx
        PROVE  Watched'
    <3>1. /\ watch'.pc = "exits" /\ watch'.pool = watch.pool /\ watch'.left = watch.left /\ watch'.tx = {}
      BY <2>3, <1>0 DEF Watch
    <3>2. \A u \in Tx : u \notin lost' /\ Leaving(u)' => u \notin lost /\ Leaving(u)
      BY <2>0, <2>3, <3>1 DEF Leaving
    <3> QED
      BY <2>0, <2>3, <3>1, <3>2, <1>k, <1>0
  <2> QED
    BY <1>4, <2>1, <2>2, <2>3, Zenon DEF HandleFails
<1>5. CASE EntriesDone
  <2>1. /\ watch.pc = "entries" /\ lost' = lost /\ last' = last
        /\ watch'.pc = "exits" /\ watch'.pool = watch.pool /\ watch'.left = last \ watch.pool /\ watch'.tx = watch.tx
    BY <1>5, <1>0 DEF EntriesDone, Watch
  <2>2. \A u \in Tx : u \notin lost' /\ Leaving(u)' => u \notin lost /\ Leaving(u)
    BY <2>1 DEF Leaving
  <2> QED
    BY <2>1, <2>2, <1>k, <1>0
<1>6. ASSUME NEW t \in Tx, AskDaemon(t) PROVE Watched'
  <2>1. /\ watch.pc = "exits" /\ t \in watch.left /\ lost' = lost /\ last' = last
        /\ watch'.pc = "update" /\ watch'.pool = watch.pool /\ watch'.left = watch.left \ {t} /\ watch'.tx = {t}
    BY <1>6, <1>0 DEF AskDaemon, Watch
  <2>2. \A u \in Tx : u \notin lost' /\ Leaving(u)' => u \notin lost /\ Leaving(u)
    BY <2>1 DEF Leaving
  <2> QED
    BY <2>1, <2>2, <1>k, <1>0
<1>7. CASE StampExit
  <2>1. /\ watch.pc = "update" /\ lost \subseteq lost' /\ last' = last
        /\ watch'.pc = "exits" /\ watch'.pool = watch.pool /\ watch'.left = watch.left /\ watch'.tx = {}
    BY <1>7, <1>0 DEF StampExit, Watch
  <2>2. \A u \in Tx : u \notin lost' /\ Leaving(u)' => u \notin lost /\ Leaving(u)
    BY <2>1 DEF Leaving
  <2> QED
    BY <2>1, <2>2, <1>k, <1>0
<1>8. CASE TickDone
  <2>1. watch' = Idle /\ last' = watch.pool
    BY <1>8 DEF TickDone
  <2> QED
    BY <2>1, <1>k, <1>0 DEF Idle, Leaving
<1>9. CASE Restart
  <2>1. watch' = Idle /\ last' = {}
    BY <1>9 DEF Restart
  <2> QED
    BY <2>1, <1>k, <1>0 DEF Idle, Leaving
<1>10. CASE Disconnects \/ Reconcile \/ InsertMrcRequests \/ CaptureSnapshot
  <2>1. UNCHANGED watcher /\ lost \subseteq lost'
    BY <1>10 DEF Disconnects, Reconcile, InsertMrcRequests, CaptureSnapshot, Write
  <2> QED
    BY <2>1, <1>l
<1>11. CASE Tick \/ (\E t \in Tx : Arrives(t) \/ Dropped(t)) \/ (\E in \in SUBSET Tx, time \in Times : Mines(in, time)) \/ StartApply \/ InsertBlocks
             \/ RollBack \/ UNCHANGED vars
  <2>1. UNCHANGED watcher /\ lost' = lost
    BY <1>11, Zenon DEF Tick, Arrives, Dropped, Mines, StartApply, InsertBlocks, RollBack, vars
  <2> QED
    BY <2>1, <1>l
<1> QED
  BY <1>1, <1>2, <1>3, <1>4, <1>5, <1>6, <1>7, <1>8, <1>9, <1>10, <1>11, Zenon DEF Next, WatchStep, IndexStep

-----------------------------------------------------------------------------
(* What a stamp is no older than.                                          *)

LEMMA StampedInit == Init => Stamped
  BY DEF Init, Stamped, NoRow

(* No header of a block a snapshot may be taken for is past the clock, if it was not ahead. *)
LEMMA MinedByNow ==
  ASSUME Typed, Mined, NEW b, Coming(b)
  PROVE  Past(b, now)
<1>1. CASE \E j \in 1 .. Len(chain) : b = chain[j]
  BY <1>1, Zenon DEF Mined
<1>2. CASE applying # Resting /\ b = applying.block
  BY <1>2, Zenon DEF Mined
<1> QED
  BY <1>1, <1>2, Zenon DEF Coming

(* A block that is new was mined now, from the pool of now; a rollback takes none the daemon has. *)
LEMMA ComingAnew ==
  ASSUME Typed, Mined, [Next]_vars, NEW b, Coming(b)', ~Coming(b)
  PROVE  b.pool = pool
<1>0. /\ chain \in Seq(Block) /\ blocks \in Seq(Block) /\ now \in Times /\ mined \in 0 .. MaxBlocks
      /\ pool \in SUBSET Tx /\ Len(chain) \in Nat /\ Len(blocks) \in Nat
  BY ChainFacts, Zenon DEF Typed, Chains, Counted
<1>c. /\ \A j \in 1 .. Len(chain) : b = chain[j] => Reached(j)
      /\ applying # Resting => b # applying.block
  BY Zenon DEF Coming
<1>d. \/ \E j \in 1 .. Len(chain') : b = chain'[j] /\ ~Reached(j)'
      \/ applying' # Resting /\ b = applying'.block
  BY Zenon DEF Coming
<1>1. CASE UNCHANGED <<chain, blocks, applying>>
  BY <1>1, <1>c, <1>d DEF Reached
<1>2. ASSUME UNCHANGED <<chain, blocks>>, applying' = Resting PROVE b.pool = pool
  BY <1>2, <1>c, <1>d DEF Reached
<1>3. CASE Disconnects
  <2>1. chain # << >> /\ chain' = Front(chain) /\ UNCHANGED <<blocks, applying>>
    BY <1>3 DEF Disconnects, indexer
  <2>2. Len(chain') = Len(chain) - 1 /\ \A j \in 1 .. Len(chain) - 1 : chain'[j] = chain[j]
    BY <2>1, <1>0, FrontFacts, Zenon
  <2>3. \A j \in 1 .. Len(chain') : j \in 1 .. Len(chain) /\ chain'[j] = chain[j] /\ (Reached(j) => Reached(j)')
    <3> TAKE j \in 1 .. Len(chain')
    <3>1. j \in 1 .. Len(chain) /\ \A i \in 1 .. j : i \in 1 .. Len(chain) - 1
      BY <2>2, <1>0
    <3>2. chain'[j] = chain[j] /\ \A i \in 1 .. j : chain'[i] = chain[i]
      BY <2>2, <3>1
    <3> QED
      BY <2>1, <3>1, <3>2 DEF Reached
  <2> QED
    BY <2>1, <2>3, <1>c, <1>d, Zenon
<1>4. ASSUME NEW in \in SUBSET Tx, NEW time \in Times, Mines(in, time) PROVE b.pool = pool
  <2> DEFINE d == [id |-> mined + 1, time |-> time, ahead |-> time > now, txs |-> in, pool |-> pool]
  <2>1. d \in Block /\ d.pool = pool
    BY <1>0, <1>4 DEF Mines, Block
  <2>2. chain' = Append(chain, d) /\ UNCHANGED <<blocks, applying>>
    BY <1>4 DEF Mines, indexer
  <2> HIDE DEF d
  <2>3. /\ Len(chain') = Len(chain) + 1 /\ \A j \in 1 .. Len(chain) : chain'[j] = chain[j]
        /\ chain'[Len(chain) + 1] = d
    BY <2>1, <2>2, <1>0, AppendFacts
  <2>4. \A j \in 1 .. Len(chain) : Reached(j) => Reached(j)'
    <3> TAKE j \in 1 .. Len(chain)
    <3>1. \A i \in 1 .. j : chain'[i] = chain[i]
      BY <2>3, <1>0
    <3> QED
      BY <2>2, <3>1 DEF Reached
  <2>5. \A j \in 1 .. Len(chain') : j \in 1 .. Len(chain) \/ chain'[j] = d
    BY <2>3, <1>0
  <2> QED
    BY <2>1, <2>2, <2>3, <2>4, <2>5, <1>c, <1>d, Zenon
<1>5. CASE StartApply
  <2>1. applying' = [block |-> chain[Len(blocks) + 1], left |-> Writes] /\ Len(blocks) < Len(chain)
        /\ UNCHANGED <<chain, blocks>>
    BY <1>5 DEF StartApply, daemon
  <2>2. applying'.block = chain[Len(blocks) + 1] /\ Len(blocks) + 1 \in 1 .. Len(chain) /\ ~Reached(Len(blocks) + 1)
    BY <2>1, <1>0 DEF Reached
  <2>3. \A j : Reached(j)' = Reached(j)
    BY <2>1 DEF Reached
  <2> QED
    BY <2>1, <2>2, <2>3, <1>c, <1>d, Zenon
<1>6. ASSUME NEW w, Write(w), UNCHANGED <<chain, blocks>> PROVE b.pool = pool
  <2>1. applying \in Applying /\ applying # Resting /\ applying' = [applying EXCEPT !.left = @ \ {w}]
    BY <1>6, HeightTyped, Zenon DEF Write
  <2>2. applying'.block = applying.block
    BY <2>1 DEF Applying
  <2> QED
    BY <2>1, <2>2, <1>6, <1>c, <1>d DEF Reached
<1>7. CASE Reconcile \/ InsertMrcRequests \/ CaptureSnapshot
  BY <1>6, <1>7, Zenon DEF Reconcile, InsertMrcRequests, CaptureSnapshot, daemon
<1>8. CASE InsertBlocks
  <2>1. applying # Resting /\ applying' = Resting /\ blocks' = Append(blocks, applying.block) /\ chain' = chain
    BY <1>8 DEF InsertBlocks, daemon
  <2>2. applying.block \in Block
    BY <2>1 DEF Typed, Chains, Applying
  <2>3. Len(blocks') = Len(blocks) + 1 /\ \A j \in 1 .. Len(blocks) : blocks'[j] = blocks[j]
    BY <2>1, <2>2, <1>0, AppendFacts, Zenon
  <2>4. \A j \in 1 .. Len(chain) : Reached(j) => Reached(j)'
    <3> SUFFICES ASSUME NEW j \in 1 .. Len(chain), Reached(j) PROVE Reached(j)'
      OBVIOUS
    <3>1. j <= Len(blocks) /\ \A i \in 1 .. j : blocks[i] = chain[i]
      BY DEF Reached
    <3>2. j <= Len(blocks') /\ \A i \in 1 .. j : i \in 1 .. Len(blocks)
      BY <3>1, <2>3, <1>0
    <3> QED
      BY <3>1, <3>2, <2>1, <2>3, Zenon DEF Reached
  <2> QED
    BY <2>1, <2>4, <1>c, <1>d
<1>9. CASE RollBack
  <2>1. /\ applying' = Resting /\ blocks # << >> /\ ~IsPrefix(blocks, chain) /\ blocks' = Front(blocks) /\ chain' = chain
    BY <1>9 DEF RollBack, daemon
  <2>2. Len(blocks') = Len(blocks) - 1 /\ \A j \in 1 .. Len(blocks) - 1 : blocks'[j] = blocks[j]
    BY <2>1, <1>0, FrontFacts, Zenon
  <2>3. ~(Len(blocks) <= Len(chain) /\ \A i \in 1 .. Len(blocks) : blocks[i] = chain[i])
    BY <2>1, <1>0, PrefixFacts, Zenon
  <2>4. \A j \in 1 .. Len(chain) : Reached(j) => Reached(j)'
    <3> SUFFICES ASSUME NEW j \in 1 .. Len(chain), Reached(j) PROVE Reached(j)'
      OBVIOUS
    <3>1. j <= Len(blocks) /\ \A i \in 1 .. j : blocks[i] = chain[i]
      BY DEF Reached
    <3>2. j # Len(blocks)
      BY <3>1, <2>3
    <3>3. j <= Len(blocks') /\ \A i \in 1 .. j : i \in 1 .. Len(blocks) - 1
      BY <3>1, <3>2, <2>2, <1>0
    <3> QED
      BY <3>1, <3>3, <2>1, <2>2, Zenon DEF Reached
  <2> QED
    BY <2>1, <2>4, <1>c, <1>d
<1>10. CASE Restart
  BY <1>2, <1>10, Zenon DEF Restart, daemon
<1> QED
  BY <1>1, <1>3, <1>4, <1>5, <1>7, <1>8, <1>9, <1>10, Zenon DEF Next, WatchStep, IndexStep, Tick, ReadPool, Arrives, Dropped,
     EnterMrc, EntriesDone, StampExit, TickDone, EnterRow, AskDaemon, HandleFails, daemon, indexer, vars

(* A stamp of before, on a transaction that is away, is behind nothing new. *)
LEMMA StampKept ==
  ASSUME Typed, Mined, [Next]_vars, NEW t, t \notin lost', NEW s, Away(t), Behind(t, s)
  PROVE  Away(t)' /\ Behind(t, s)'
<1>1. Away(t)'
  BY AwayStays
<1>2. ASSUME NEW b, Coming(b)', t \in b.pool PROVE Past(b, s)
  <2>1. t \notin pool
    BY DEF Away
  <2>2. Coming(b)
    BY <1>2, <2>1, ComingAnew, Zenon
  <2> QED
    BY <1>2, <2>2, Zenon DEF Behind
<1> QED
  BY <1>1, <1>2, Zenon DEF Behind

LEMMA StampedStep == Typed /\ Mined /\ Watched /\ Stamped /\ [Next]_vars => Stamped'
<1> SUFFICES ASSUME Typed, Mined, Watched, Stamped, [Next]_vars PROVE Stamped'
  OBVIOUS
<1>0. txs \in [Tx -> Row] /\ lost \in SUBSET Tx /\ watch.tx \subseteq Tx
  BY DEF Typed, Rows, Watcher, Watch
(* A stamp is kept, or it is no older than any block, or the row is fresh. *)
<1> DEFINE Good(t, s) == Away(t) /\ Behind(t, s)
<1>1. ASSUME NEW t \in Tx, NEW s, t \notin lost', Good(t, s) PROVE Away(t)' /\ Behind(t, s)'
  BY <1>1, StampKept, Zenon
<1>2. ASSUME \A t \in Tx : t \notin lost' =>
               /\ txs'[t].confirmed # Null => Good(t, txs'[t].confirmed)
               /\ txs'[t].evicted # Null => Good(t, txs'[t].evicted)
      PROVE  Stamped'
  <2>1. ASSUME NEW t \in Tx, t \notin lost', txs'[t].confirmed # Null
        PROVE  Away(t)' /\ Behind(t, txs[t].confirmed)'
    <3>1. PICK s : s = txs'[t].confirmed
      OBVIOUS
    <3>2. Away(t)' /\ Behind(t, s)'
      BY <1>1, <1>2, <2>1, <3>1, Zenon
    <3> QED
      BY <3>1, <3>2 DEF Behind
  <2>2. ASSUME NEW t \in Tx, t \notin lost', txs'[t].evicted # Null
        PROVE  Away(t)' /\ Behind(t, txs[t].evicted)'
    <3>1. PICK s : s = txs'[t].evicted
      OBVIOUS
    <3>2. Away(t)' /\ Behind(t, s)'
      BY <1>1, <1>2, <2>2, <3>1, Zenon
    <3> QED
      BY <3>1, <3>2 DEF Behind
  <2> QED
    BY <2>1, <2>2 DEF Stamped
<1>s. \A t \in Tx : t \notin lost =>
        /\ txs[t].confirmed # Null => Good(t, txs[t].confirmed)
        /\ txs[t].evicted # Null => Good(t, txs[t].evicted)
  BY Zenon DEF Stamped
<1>n. \A t : Behind(t, now)
  BY MinedByNow, Zenon DEF Behind
<1> HIDE DEF Good
<1>3. CASE txs' = txs /\ lost \subseteq lost'
  BY <1>3, <1>2, <1>s, Zenon
<1>4. ASSUME NEW u \in Tx, EnterRow(u) PROVE Stamped'
  <2>1. txs' = [txs EXCEPT ![u] = [NoRow EXCEPT !.first = now]] /\ lost' = lost \ {u}
    BY <1>4 DEF EnterRow
  <2>2. txs'[u].confirmed = Null /\ txs'[u].evicted = Null
    BY <2>1, <1>0 DEF NoRow
  <2>3. \A t \in Tx : t # u => txs'[t] = txs[t]
    BY <2>1, <1>0
  <2>4. \A t \in Tx : t # u /\ t \notin lost' => t \notin lost
    BY <2>1
  <2> QED
    BY <2>2, <2>3, <2>4, <1>s, <1>2, Zenon
<1>5. CASE StampExit
  <2>1. ASSUME NEW t \in Tx, t \notin lost'
        PROVE  /\ txs'[t].confirmed # Null => Good(t, txs'[t].confirmed)
               /\ txs'[t].evicted # Null => Good(t, txs'[t].evicted)
    <3>1. t \notin lost
      BY <1>5, <2>1 DEF StampExit
    <3>2. CASE txs'[t] = txs[t]
      BY <3>1, <3>2, <1>s, Zenon
    <3>3. CASE t \in watch.tx /\ (txs'[t] = [txs[t] EXCEPT !.confirmed = now, !.evicted = Null]
                                    \/ txs'[t] = [txs[t] EXCEPT !.evicted = now, !.confirmed = Null])
      <4>1. watch.pc = "update" /\ Leaving(t)
        BY <1>5, <3>3 DEF StampExit, Leaving
      <4>2. Good(t, now)
        BY <4>1, <3>1, <1>n, Zenon DEF Watched, Good
      <4>3. /\ txs'[t].confirmed = now \/ txs'[t].confirmed = Null
            /\ txs'[t].evicted = now \/ txs'[t].evicted = Null
        BY <3>3, <1>0 DEF Row
      <4> QED
        BY <4>2, <4>3, Zenon
    <3> QED
      BY <1>5, <3>2, <3>3, Zenon DEF StampExit
  <2> QED
    BY <2>1, <1>2, Zenon
<1>6. CASE Reconcile
  <2>1. ASSUME NEW t \in Tx, t \notin lost'
        PROVE  /\ txs'[t].confirmed # Null => Good(t, txs'[t].confirmed)
               /\ txs'[t].evicted # Null => Good(t, txs'[t].evicted)
    <3>1. t \notin lost
      BY <1>6, <2>1 DEF Reconcile, Write
    <3>2. CASE txs'[t] = txs[t]
      BY <3>1, <3>2, <1>s, Zenon
    <3>3. CASE Mine(t) /\ txs'[t] = [txs[t] EXCEPT !.confirmed = applying.block.time, !.evicted = Null]
      <4>1. "reconcile" \in applying.left /\ applying.block \in Range(chain) /\ t \in applying.block.txs
        BY <1>6, <2>1, <3>3 DEF Reconcile, Write, Mine
      <4>2. applying \in Applying /\ applying # Resting /\ Len(blocks) \in Nat
        BY <4>1, HeightTyped, Zenon
      <4>3. Follows /\ Len(blocks) + 1 \in 1 .. Len(chain) /\ chain \in Seq(Block)
        <5>1. Follows
          BY <4>1, <4>2, Zenon DEF Mined
        <5> QED
          BY <5>1, <4>2 DEF Follows, Typed, Chains
      <4>4. PICK i \in 1 .. Len(chain) : applying.block = chain[i]
        BY <4>3, Zenon DEF Follows
      <4>5. Away(t)
        BY <4>1, <4>4 DEF Mined, Away
      <4>6. ASSUME NEW b, Coming(b), t \in b.pool PROVE Past(b, applying.block.time)
        <5>1. CASE b = applying.block
          <6>1. applying.block.time \in Int
            BY <4>2 DEF Applying, Block, Times
          <6> QED
            BY <5>1, <6>1 DEF Past
        <5>2. ASSUME NEW j \in 1 .. Len(chain), b = chain[j], ~Reached(j), b # applying.block PROVE FALSE
          <6>1. /\ applying.block = chain[Len(blocks) + 1] /\ Len(blocks) < Len(chain)
                /\ \A k \in 1 .. Len(blocks) : blocks[k] = chain[k]
            BY <4>3, Zenon DEF Follows
          <6>2. ~(j <= Len(blocks))
            <7>1. j <= Len(blocks) => \A k \in 1 .. j : k \in 1 .. Len(blocks)
              BY <4>2
            <7> QED
              BY <5>2, <6>1, <7>1, Zenon DEF Reached
          <6>3. j # Len(blocks) + 1
            BY <5>2, <6>1
          <6>4. Len(blocks) + 1 < j
            BY <6>2, <6>3, <4>2
          <6> QED
            BY <6>1, <6>4, <4>1, <4>3, <4>6, <5>2 DEF Mined
        <5> QED
          BY <4>6, <5>1, <5>2, Zenon DEF Coming
      <4>7. Good(t, applying.block.time)
        BY <4>5, <4>6, Zenon DEF Good, Behind
      <4>8. txs'[t].confirmed = applying.block.time /\ txs'[t].evicted = Null
        BY <3>3, <1>0 DEF Row
      <4> QED
        BY <4>7, <4>8, Zenon
    <3> QED
      BY <1>6, <3>2, <3>3, Zenon DEF Reconcile
  <2> QED
    BY <2>1, <1>2, Zenon
<1>7. CASE InsertMrcRequests \/ CaptureSnapshot
  BY <1>7, <1>3 DEF InsertMrcRequests, CaptureSnapshot, Write
<1>8. CASE Disconnects \/ EnterMrc \/ Restart \/ HandleFails
  BY <1>8, <1>3 DEF Disconnects, EnterMrc, Restart, HandleFails, tables
<1>9. CASE UNCHANGED <<txs, lost>>
  BY <1>9, <1>3
<1> QED
  BY <1>4, <1>5, <1>6, <1>7, <1>8, <1>9, Zenon DEF Next, WatchStep, IndexStep, Tick, Arrives, Dropped, Mines, ReadPool,
     EntriesDone, TickDone, AskDaemon, StartApply, InsertBlocks, RollBack, tables, vars

-----------------------------------------------------------------------------
(* What a request and its row have in common.                              *)

LEMMA ArrivedInit == Init => Arrived
  BY DEF Init, Arrived, InHand, Idle, Agrees, Placed, NoRow, NoMrc, Null

(* Firsts and requests as they are, no block but the one at work: nothing is new, *)
(* if who leaves the hand is lost.                                         *)
LEMMA ArrivedKept ==
  ASSUME Typed, Arrived, lost \subseteq lost', \A t \in Tx : t \in InHand \ InHand' => t \in lost',
         InHand' \subseteq InHand, InHand' # {} => watch'.time = watch.time,
         \A t \in Tx : txs'[t] = txs[t] \/ (txs[t] # NoRow /\ txs'[t].first = txs[t].first),
         mrc' = mrc, chain' = chain, blocks' = blocks,
         applying' # Resting => applying # Resting /\ applying'.block = applying.block
  PROVE  Arrived'
<1>1. \A t \in Tx : txs'[t].first = txs[t].first /\ (txs[t] = NoRow => txs'[t] = NoRow)
  BY Zenon
<1>2. \A t \in Tx : txs'[t].first = Null => txs'[t] = NoRow
  BY <1>1, Zenon DEF Arrived
<1>3. InHand \subseteq Tx
  BY DEF InHand, Typed, Watcher, Watch
<1>4. \A t \in InHand' : txs'[t].first = watch'.time /\ watch'.time # Null
  BY <1>1, <1>3 DEF Arrived
<1>5. ASSUME NEW t \in Tx, t \notin lost', t \notin InHand' PROVE Agrees(t)' /\ Placed(t)'
  <2>1. Agrees(t) /\ Placed(t)
    BY <1>5, Zenon DEF Arrived
  <2>2. Agrees(t)'
    BY <2>1, <1>1 DEF Agrees
  <2>3. Placed(t)'
    BY <2>1, Zenon DEF Placed
  <2> QED
    BY <2>2, <2>3
<1> QED
  BY <1>2, <1>4, <1>5 DEF Arrived

(* The request of a block that the daemon still has is where it belongs. *)
LEMMA FollowsPlaced ==
  ASSUME Typed, Mined, applying # Resting, applying.block \in Range(chain)
  PROVE  /\ Len(blocks) \in Nat /\ Height = Len(blocks) + 1 /\ Height \in 1 .. Len(chain)
         /\ applying.block = chain[Height] /\ \A i \in 1 .. Len(blocks) : blocks[i] = chain[i]
<1>1. Follows
  BY Zenon DEF Mined
<1>2. Len(blocks) \in Nat /\ Len(chain) \in Nat
  BY ChainFacts, Zenon DEF Typed, Chains
<1> QED
  BY <1>1, <1>2 DEF Follows, Height

LEMMA ArrivedStep == Typed /\ Mined /\ Arrived /\ [Next]_vars => Arrived'
<1> SUFFICES ASSUME Typed, Mined, Arrived, [Next]_vars PROVE Arrived'
  OBVIOUS
<1>0. /\ txs \in [Tx -> Row] /\ mrc \in [Tx -> Request] /\ lost \in SUBSET Tx
      /\ watch \in Watch /\ watch.tx \subseteq Tx /\ InHand \subseteq Tx /\ now \in Times
      /\ chain \in Seq(Block) /\ blocks \in Seq(Block)
      /\ applying = Resting \/ applying \in Applying
  BY DEF Typed, Rows, Chains, Counted, Watcher, Watch, InHand
<1>b. /\ Len(chain) \in Nat /\ Len(blocks) \in Nat /\ \A t \in Tx : mrc[t].height \in Nat
  BY <1>0, ChainFacts DEF Request
<1>a. /\ \A t \in Tx : txs[t].first = Null => txs[t] = NoRow
      /\ \A t \in InHand : txs[t].first = watch.time /\ watch.time # Null
      /\ \A t \in Tx : t \notin lost /\ t \notin InHand => Agrees(t) /\ Placed(t)
  BY Zenon DEF Arrived
(* The watcher's steps. *)
<1>1. CASE ReadPool \/ EntriesDone \/ TickDone \/ (\E t \in Tx : AskDaemon(t))
  <2>1. lost' = lost /\ txs' = txs /\ mrc' = mrc /\ UNCHANGED <<chain, blocks, applying>>
    BY <1>1 DEF ReadPool, EntriesDone, TickDone, AskDaemon, daemon, tables, indexer
  <2>2. watch.pc # "mrc" /\ watch'.pc # "mrc"
    <3>0. CASE ReadPool
      <4>1. watch.pc = "idle" /\ watch'.pc = "entries"
        BY <3>0 DEF ReadPool, Idle
      <4> QED
        BY <4>1
    <3>1. CASE EntriesDone
      BY <3>1, <1>0 DEF EntriesDone, Watch
    <3>3. CASE TickDone
      BY <3>3 DEF TickDone, Idle
    <3>2. ASSUME NEW t \in Tx, AskDaemon(t) PROVE watch.pc # "mrc" /\ watch'.pc # "mrc"
      BY <3>2, <1>0 DEF AskDaemon, Watch
    <3> QED
      BY <1>1, <3>0, <3>1, <3>2, <3>3
  <2>3. InHand' = {} /\ InHand = {}
    BY <2>2 DEF InHand
  <2> QED
    BY <2>1, <2>3, ArrivedKept, Zenon
<1>2. ASSUME NEW t \in Tx, EnterRow(t) PROVE Arrived'
  <2> DEFINE r == [NoRow EXCEPT !.first = now]
  <2>0. r.first = now /\ now # Null
    BY <1>0 DEF NoRow, Times, Null
  <2>1. /\ txs' = [txs EXCEPT ![t] = r] /\ lost' = lost \ {t} /\ mrc' = mrc /\ UNCHANGED <<chain, blocks, applying>>
        /\ watch.pc = "entries"
    BY <1>2 DEF EnterRow, daemon, indexer
  <2>2. InHand = {} /\ InHand' = {t} /\ watch'.time = now
    BY <1>2, <1>0 DEF EnterRow, InHand, Watch
  <2> HIDE DEF r
  <2>3. txs'[t] = r /\ \A u \in Tx : u # t => txs'[u] = txs[u]
    BY <2>1, <1>0
  <2>4. \A u \in Tx : txs'[u].first = Null => txs'[u] = NoRow
    BY <2>0, <2>3, <1>a, Zenon
  <2>5. \A u \in InHand' : txs'[u].first = watch'.time /\ watch'.time # Null
    BY <2>0, <2>2, <2>3, Zenon
  <2>6. ASSUME NEW u \in Tx, u \notin lost', u \notin InHand' PROVE Agrees(u)' /\ Placed(u)'
    <3>1. u # t /\ u \notin lost /\ u \notin InHand
      BY <2>1, <2>2, <2>6
    <3>2. Agrees(u) /\ Placed(u) /\ txs'[u] = txs[u]
      BY <3>1, <2>3, <1>a, Zenon
    <3> QED
      BY <3>2, <2>1, Zenon DEF Agrees, Placed
  <2> QED
    BY <2>4, <2>5, <2>6, Zenon DEF Arrived
<1>3. CASE EnterMrc
  <2> DEFINE q == [first |-> watch.time, height |-> Null]
  <2>1. /\ watch.pc = "mrc" /\ txs' = txs /\ UNCHANGED <<chain, blocks, applying>> /\ lost \subseteq lost'
        /\ mrc' = [t \in Tx |-> IF t \in watch.tx THEN q ELSE mrc[t]]
    BY <1>3 DEF EnterMrc, daemon, indexer
  <2>2. InHand = watch.tx /\ InHand' = {}
    BY <2>1, <1>0, <1>3 DEF EnterMrc, InHand, Watch
  <2>3. q.first = watch.time /\ q.height = Null
    OBVIOUS
  <2> HIDE DEF q
  <2>4. ASSUME NEW t \in Tx, t \notin lost' PROVE Agrees(t)' /\ Placed(t)'
    <3>1. CASE t \in watch.tx
      <4>1. mrc'[t] = q
        BY <2>1, <3>1, Zenon
      <4>2. Agrees(t)'
        BY <4>1, <2>1, <2>2, <2>3, <3>1, <1>a, Zenon DEF Agrees
      <4>3. Placed(t)'
        BY <4>1, <2>3, Zenon DEF Placed
      <4> QED
        BY <4>2, <4>3
    <3>2. CASE t \notin watch.tx
      <4>1. mrc'[t] = mrc[t]
        BY <2>1, <3>2, Zenon
      <4>2. Agrees(t) /\ Placed(t)
        BY <2>1, <2>2, <2>4, <3>2, <1>a, Zenon
      <4> QED
        BY <4>1, <4>2, <2>1, Zenon DEF Agrees, Placed
    <3> QED
      BY <3>1, <3>2
  <2> QED
    BY <2>1, <2>2, <2>4, <1>a, Zenon DEF Arrived
<1>4. CASE HandleFails
  <2>1. txs' = txs /\ mrc' = mrc /\ UNCHANGED <<chain, blocks, applying>> /\ lost \subseteq lost'
    BY <1>4 DEF HandleFails, daemon, tables, indexer
  <2>2. CASE watch.pc = "mrc"
    <3>1. InHand' = {} /\ InHand = watch.tx /\ lost' = lost \cup watch.tx
      BY <2>2, <1>4, <1>0 DEF HandleFails, InHand, Watch
    <3> QED
      BY <3>1, <2>1, ArrivedKept
  <2>3. CASE watch.pc # "mrc"
    <3>1. InHand' = {} /\ InHand = {}
      BY <2>3, <1>4, <1>0 DEF HandleFails, InHand, Watch
    <3> QED
      BY <3>1, <2>1, ArrivedKept, Zenon
  <2> QED
    BY <2>2, <2>3
<1>5. CASE StampExit
  <2>1. InHand' = {} /\ InHand = {} /\ lost \subseteq lost' /\ mrc' = mrc /\ UNCHANGED <<chain, blocks, applying>>
    BY <1>5, <1>0 DEF StampExit, InHand, Watch, daemon, indexer
  <2>2. \A t \in Tx : txs'[t] = txs[t] \/ (txs[t] # NoRow /\ txs'[t].first = txs[t].first)
    <3> TAKE t \in Tx
    <3>1. \/ txs'[t] = txs[t]
          \/ txs[t] # NoRow /\ txs'[t] = [txs[t] EXCEPT !.confirmed = now, !.evicted = Null]
          \/ txs[t] # NoRow /\ txs'[t] = [txs[t] EXCEPT !.evicted = now, !.confirmed = Null]
      BY <1>5, Zenon DEF StampExit
    <3> QED
      BY <3>1, <1>0 DEF Row
  <2> QED
    BY <2>1, <2>2, ArrivedKept, Zenon
<1>6. CASE Restart
  <2>1. InHand' = {} /\ InHand \subseteq lost' /\ lost \subseteq lost' /\ txs' = txs /\ mrc' = mrc
        /\ chain' = chain /\ blocks' = blocks /\ applying' = Resting
    BY <1>6 DEF Restart, InHand, Idle, daemon, tables
  <2> QED
    BY <2>1, ArrivedKept
(* Other steps leave the hand alone. *)
<1>h. ASSUME UNCHANGED watch PROVE InHand' = InHand /\ watch'.time = watch.time
  BY <1>h DEF InHand
<1>7. CASE Tick \/ (\E t \in Tx : Arrives(t) \/ Dropped(t)) \/ UNCHANGED vars
  <2>1. UNCHANGED watch /\ lost' = lost /\ txs' = txs /\ mrc' = mrc /\ UNCHANGED <<chain, blocks, applying>>
    BY <1>7 DEF Tick, Arrives, Dropped, vars, watcher, tables, indexer, daemon
  <2> QED
    BY <2>1, <1>h, ArrivedKept, Zenon
<1>w. ASSUME NEW w, Write(w)
      PROVE  /\ applying \in Applying /\ applying # Resting /\ applying'.block = applying.block /\ lost \subseteq lost'
             /\ \A t \in applying.block.txs : t \notin lost' => applying.block \in Range(chain)
  <2>1. applying \in Applying /\ applying # Resting /\ applying' = [applying EXCEPT !.left = @ \ {w}]
    BY <1>w, HeightTyped, Zenon DEF Write
  <2>2. applying'.block = applying.block
    BY <2>1 DEF Applying
  <2> QED
    BY <2>1, <2>2, <1>w DEF Write
<1>8. CASE Reconcile
  <2>1. UNCHANGED <<watch, mrc, chain, blocks>>
    BY <1>8 DEF Reconcile, watcher, daemon
  <2>2. applying # Resting /\ applying'.block = applying.block /\ lost \subseteq lost'
    BY <1>8, <1>w, Zenon DEF Reconcile
  <2>3. \A t \in Tx : txs'[t] = txs[t] \/ (txs[t] # NoRow /\ txs'[t].first = txs[t].first)
    <3> TAKE t \in Tx
    <3>1. \/ txs'[t] = txs[t]
          \/ txs[t] # NoRow /\ txs'[t] = [txs[t] EXCEPT !.confirmed = applying.block.time, !.evicted = Null]
      BY <1>8, Zenon DEF Reconcile
    <3> QED
      BY <3>1, <1>0 DEF Row
  <2> QED
    BY <2>1, <2>2, <2>3, <1>h, ArrivedKept, Zenon
<1>9. CASE CaptureSnapshot
  <2>1. UNCHANGED <<watch, txs, mrc, chain, blocks>>
    BY <1>9 DEF CaptureSnapshot, watcher, daemon
  <2>2. applying # Resting /\ applying'.block = applying.block /\ lost \subseteq lost'
    BY <1>9, <1>w, Zenon DEF CaptureSnapshot
  <2> QED
    BY <2>1, <2>2, <1>h, ArrivedKept, Zenon
(* The chain, the index and the requests. *)
<1>k. ASSUME UNCHANGED <<watch, txs>>, \A t \in Tx : t \notin lost' /\ t \notin InHand => Agrees(t)' /\ Placed(t)'
      PROVE  Arrived'
  BY <1>k, <1>h, <1>a DEF Arrived
<1>10. CASE Disconnects
  <2> DEFINE n == Len(chain)
  <2>1. /\ n >= 1 /\ Len(Front(chain)) = n - 1 /\ Last(chain) = chain[n]
        /\ \A i \in 1 .. n - 1 : Front(chain)[i] = chain[i]
    BY <1>10, <1>0, FrontFacts, Zenon DEF Disconnects
  <2>2. /\ chain' = Front(chain) /\ lost' = lost \cup Last(chain).txs /\ UNCHANGED <<watch, txs, mrc, blocks, applying>>
    BY <1>10 DEF Disconnects, watcher, tables, indexer
  <2>3. Len(chain') = n - 1 /\ \A i \in 1 .. n - 1 : chain'[i] = chain[i]
    BY <2>1, <2>2
  <2>4. ASSUME NEW t \in Tx, t \notin lost', t \notin InHand PROVE Agrees(t)' /\ Placed(t)'
    <3> DEFINE h == mrc[t].height
    <3>1. t \notin lost /\ t \notin chain[n].txs
      BY <2>1, <2>2, <2>4
    <3>2. Agrees(t) /\ Placed(t)
      BY <3>1, <2>4, <1>a, Zenon
    <3>3. Agrees(t)'
      BY <3>2, <2>2 DEF Agrees
    <3>4. mrc'[t].height = h /\ h \in Nat
      BY <2>2, <1>b
    <3>5. h # Null =>
            /\ h <= n /\ t \in chain[h].txs
            /\ \A i \in 1 .. Len(blocks) : i <= h => blocks[i] = chain[i]
            /\ applying # Resting /\ h > Len(blocks) => applying.block = chain[Len(blocks) + 1]
      BY <3>2, Zenon DEF Placed
    <3> HIDE DEF h, n
    <3>6. h # Null => h \in 1 .. n - 1
      BY <3>1, <3>4, <3>5, <1>b DEF n, Null
    <3>7. h # Null =>
            /\ h <= n - 1 /\ t \in chain'[h].txs
            /\ \A i \in 1 .. Len(blocks) : i <= h => blocks[i] = chain'[i]
            /\ applying # Resting /\ h > Len(blocks) => applying.block = chain'[Len(blocks) + 1]
      <4> SUFFICES ASSUME h # Null
                   PROVE  /\ h <= n - 1 /\ t \in chain'[h].txs
                          /\ \A i \in 1 .. Len(blocks) : i <= h => blocks[i] = chain'[i]
                          /\ applying # Resting /\ h > Len(blocks) => applying.block = chain'[Len(blocks) + 1]
        OBVIOUS
      <4>1. h \in 1 .. n - 1 /\ h <= n - 1
        BY <3>6
      <4>2. \A i \in 1 .. Len(blocks) : i <= h => i \in 1 .. n - 1
        BY <4>1, <1>b DEF n
      <4>3. h > Len(blocks) => Len(blocks) + 1 \in 1 .. n - 1
        BY <4>1, <1>b DEF n
      <4> QED
        BY <4>1, <4>2, <4>3, <3>5, <2>3, Zenon
    <3>8. Placed(t)'
      BY <3>4, <3>7, <2>2, <2>3, Zenon DEF Placed
    <3> QED
      BY <3>3, <3>8
  <2> QED
    BY <2>2, <2>4, <1>k
<1>11. ASSUME NEW in \in SUBSET Tx, NEW time \in Times, Mines(in, time) PROVE Arrived'
  <2> DEFINE n == Len(chain)
             b == [id |-> mined + 1, time |-> time, ahead |-> time > now, txs |-> in, pool |-> pool]
  <2>1. b \in Block
    BY <1>11 DEF Mines, Block, Typed, Counted, Chains
  <2>2. chain' = Append(chain, b) /\ lost' = lost /\ UNCHANGED <<watch, txs, mrc, blocks, applying>>
    BY <1>11 DEF Mines, watcher, tables, indexer
  <2> HIDE DEF b
  <2>3. Len(chain') = n + 1 /\ \A i \in 1 .. n : chain'[i] = chain[i]
    BY <2>1, <2>2, <1>0, AppendFacts
  <2>4. ASSUME NEW t \in Tx, t \notin lost', t \notin InHand PROVE Agrees(t)' /\ Placed(t)'
    <3> DEFINE h == mrc[t].height
    <3>1. Agrees(t) /\ Placed(t)
      BY <2>2, <2>4, <1>a, Zenon
    <3>2. Agrees(t)'
      BY <3>1, <2>2 DEF Agrees
    <3>3. mrc'[t].height = h /\ h \in Nat
      BY <2>2, <1>b
    <3>4. h # Null =>
            /\ h <= n /\ t \in chain[h].txs
            /\ \A i \in 1 .. Len(blocks) : i <= h => blocks[i] = chain[i]
            /\ applying # Resting /\ h > Len(blocks) => applying.block = chain[Len(blocks) + 1]
      BY <3>1, Zenon DEF Placed
    <3> HIDE DEF h, n
    <3>5. h # Null =>
            /\ h <= n + 1 /\ t \in chain'[h].txs
            /\ \A i \in 1 .. Len(blocks) : i <= h => blocks[i] = chain'[i]
            /\ applying # Resting /\ h > Len(blocks) => applying.block = chain'[Len(blocks) + 1]
      <4> SUFFICES ASSUME h # Null
                   PROVE  /\ h <= n + 1 /\ t \in chain'[h].txs
                          /\ \A i \in 1 .. Len(blocks) : i <= h => blocks[i] = chain'[i]
                          /\ applying # Resting /\ h > Len(blocks) => applying.block = chain'[Len(blocks) + 1]
        OBVIOUS
      <4>1. h \in 1 .. n /\ h <= n + 1
        BY <3>3, <3>4, <1>b DEF n, Null
      <4>2. \A i \in 1 .. Len(blocks) : i <= h => i \in 1 .. n
        BY <4>1, <1>b DEF n
      <4>3. h > Len(blocks) => Len(blocks) + 1 \in 1 .. n
        BY <4>1, <1>b DEF n
      <4> QED
        BY <4>1, <4>2, <4>3, <3>4, <2>3, Zenon
    <3>6. Placed(t)'
      BY <3>3, <3>5, <2>2, <2>3, Zenon DEF Placed
    <3> QED
      BY <3>2, <3>6
  <2> QED
    BY <2>2, <2>4, <1>k
<1>12. CASE StartApply
  <2>1. applying' = [block |-> chain[Len(blocks) + 1], left |-> Writes] /\ lost' = lost
        /\ UNCHANGED <<watch, txs, mrc, chain, blocks>>
    BY <1>12 DEF StartApply, watcher, tables, daemon
  <2>2. applying'.block = chain[Len(blocks) + 1]
    BY <2>1
  <2>3. ASSUME NEW t \in Tx, t \notin lost', t \notin InHand PROVE Agrees(t)' /\ Placed(t)'
    <3>1. Agrees(t) /\ Placed(t)
      BY <2>1, <2>3, <1>a, Zenon
    <3> QED
      BY <3>1, <2>1, <2>2, Zenon DEF Agrees, Placed
  <2> QED
    BY <2>1, <2>3, <1>k
<1>13. CASE InsertMrcRequests
  <2>1. /\ UNCHANGED <<watch, txs, chain, blocks>>
        /\ mrc' = [t \in Tx |->
             IF ~Mine(t) THEN mrc[t]
             ELSE [first |-> IF mrc[t] = NoMrc THEN applying.block.time ELSE mrc[t].first, height |-> Height]]
    BY <1>13 DEF InsertMrcRequests, watcher, daemon
  <2>2. /\ applying \in Applying /\ applying # Resting /\ applying'.block = applying.block /\ lost \subseteq lost'
        /\ \A t \in applying.block.txs : t \notin lost' => applying.block \in Range(chain)
    BY <1>13, <1>w, Zenon DEF InsertMrcRequests
  <2>3. ASSUME NEW t \in Tx, t \notin lost', t \notin InHand PROVE Agrees(t)' /\ Placed(t)'
    <3>1. Agrees(t) /\ Placed(t)
      BY <2>2, <2>3, <1>a, Zenon
    <3>2. CASE ~Mine(t)
      <4>1. mrc'[t] = mrc[t]
        BY <3>2, <2>1, Zenon
      <4> QED
        BY <4>1, <3>1, <2>1, <2>2, Zenon DEF Agrees, Placed
    <3>3. CASE Mine(t)
      <4>1. mrc'[t] = [first |-> IF mrc[t] = NoMrc THEN applying.block.time ELSE mrc[t].first, height |-> Height]
        BY <3>3, <2>1, Zenon
      <4>2. mrc'[t].height = Height /\ (mrc[t] = NoMrc \/ mrc'[t].first = mrc[t].first)
        BY <4>1
      <4>3. Agrees(t)'
        <5>1. mrc[t] = NoMrc => txs[t].first = Null
          BY <3>1, RestingIsNone DEF Agrees
        <5> QED
          BY <5>1, <4>2, <3>1, <2>1 DEF Agrees
      <4>4. t \in applying.block.txs /\ applying.block \in Range(chain)
        BY <2>2, <2>3, <3>3, Zenon DEF Mine
      <4>5. /\ Height = Len(blocks) + 1 /\ Height \in 1 .. Len(chain)
            /\ applying.block = chain[Height] /\ \A i \in 1 .. Len(blocks) : blocks[i] = chain[i]
        BY <2>2, <4>4, FollowsPlaced, Zenon
      <4>6. Height <= Len(chain) /\ t \in chain[Height].txs
        BY <4>4, <4>5
      <4>7. Placed(t)'
        BY <4>2, <4>5, <4>6, <2>1, <2>2, Zenon DEF Placed
      <4> QED
        BY <4>3, <4>7
    <3> QED
      BY <3>2, <3>3
  <2> QED
    BY <2>1, <2>3, <1>k
<1>14. CASE InsertBlocks
  <2>1. /\ applying # Resting /\ applying' = Resting /\ blocks' = Append(blocks, applying.block) /\ lost' = lost
        /\ UNCHANGED <<watch, txs, mrc, chain>>
    BY <1>14 DEF InsertBlocks, watcher, tables, daemon
  <2>2. applying.block \in Block
    BY <1>0, <2>1 DEF Applying
  <2>3. /\ Len(blocks') = Len(blocks) + 1 /\ \A i \in 1 .. Len(blocks) : blocks'[i] = blocks[i]
        /\ blocks'[Len(blocks) + 1] = applying.block
    BY <2>1, <2>2, <1>0, AppendFacts, Zenon
  <2>4. ASSUME NEW t \in Tx, t \notin lost', t \notin InHand PROVE Agrees(t)' /\ Placed(t)'
    <3> DEFINE h == mrc[t].height
    <3>1. Agrees(t) /\ Placed(t)
      BY <2>1, <2>4, <1>a, Zenon
    <3>2. Agrees(t)'
      BY <3>1, <2>1, Zenon DEF Agrees
    <3>3. mrc'[t].height = h /\ h \in Nat
      BY <2>1, <1>b
    <3>4. h # Null =>
            /\ h <= Len(chain) /\ t \in chain[h].txs
            /\ \A i \in 1 .. Len(blocks) : i <= h => blocks[i] = chain[i]
            /\ h > Len(blocks) => applying.block = chain[Len(blocks) + 1]
      BY <3>1, <2>1, Zenon DEF Placed
    <3> HIDE DEF h
    <3>5. ASSUME h # Null, NEW i \in 1 .. Len(blocks'), i <= h PROVE blocks'[i] = chain[i]
      <4>1. CASE i \in 1 .. Len(blocks)
        BY <4>1, <3>4, <3>5, <2>3, Zenon
      <4>2. CASE i = Len(blocks) + 1
        <5>1. h > Len(blocks)
          BY <4>2, <3>3, <3>5, <1>b
        <5> QED
          BY <4>2, <5>1, <3>4, <3>5, <2>3, Zenon
      <4> QED
        BY <4>1, <4>2, <2>3, <1>b
    <3>6. Placed(t)'
      BY <3>3, <3>4, <3>5, <2>1, Zenon DEF Placed
    <3> QED
      BY <3>2, <3>6
  <2> QED
    BY <2>1, <2>4, <1>k
<1>15. CASE RollBack
  <2>1. /\ blocks # << >> /\ ~IsPrefix(blocks, chain) /\ applying = Resting /\ applying' = Resting
        /\ blocks' = Front(blocks) /\ lost' = lost /\ UNCHANGED <<watch, txs, chain>>
        /\ mrc' = [t \in Tx |-> IF mrc[t].height >= Len(blocks) THEN NoMrc ELSE mrc[t]]
    BY <1>15 DEF RollBack, watcher, daemon
  <2>2. /\ Len(blocks) >= 1 /\ Len(blocks') = Len(blocks) - 1 /\ \A i \in 1 .. Len(blocks) - 1 : blocks'[i] = blocks[i]
    BY <2>1, <1>0, FrontFacts, Zenon
  <2>3. ASSUME NEW t \in Tx, t \notin lost', t \notin InHand PROVE Agrees(t)' /\ Placed(t)'
    <3> DEFINE h == mrc[t].height
    <3>1. Agrees(t) /\ Placed(t)
      BY <2>1, <2>3, <1>a, Zenon
    <3>2. h \in Nat
      BY <1>b
    <3>3. h # Null =>
            /\ h <= Len(chain) /\ t \in chain[h].txs
            /\ \A i \in 1 .. Len(blocks) : i <= h => blocks[i] = chain[i]
      BY <3>1, Zenon DEF Placed
    <3> HIDE DEF h
    (* A block that goes is none the request knows of. *)
    <3>4. ~(h >= Len(blocks))
      <4> SUFFICES ASSUME h >= Len(blocks) PROVE FALSE
        OBVIOUS
      <4>1. h # Null /\ Len(blocks) <= Len(chain) /\ \A i \in 1 .. Len(blocks) : i <= h
        BY <3>2, <3>3, <2>2, <1>b DEF Null
      <4>2. \A i \in 1 .. Len(blocks) : blocks[i] = chain[i]
        BY <4>1, <3>3
      <4> QED
        BY <4>1, <4>2, <2>1, <1>0, PrefixFacts, Zenon
    <3>5. mrc'[t] = mrc[t] /\ mrc'[t].height = h
      BY <3>4, <2>1 DEF h
    <3>6. Agrees(t)'
      BY <3>1, <3>5, <2>1, Zenon DEF Agrees
    <3>7. \A i \in 1 .. Len(blocks') : i \in 1 .. Len(blocks) /\ blocks'[i] = blocks[i]
      BY <2>2, <1>b
    <3>8. Placed(t)'
      BY <3>3, <3>5, <3>7, <2>1, Zenon DEF Placed
    <3> QED
      BY <3>6, <3>8
  <2> QED
    BY <2>1, <2>3, <1>k
<1> QED
  BY <1>1, <1>2, <1>3, <1>4, <1>5, <1>6, <1>7, <1>8, <1>9, <1>10, <1>11, <1>12, <1>13, <1>14, <1>15, Zenon
     DEF Next, WatchStep, IndexStep

-----------------------------------------------------------------------------
(* The theorems.                                                           *)

Inv == IInv /\ Snaps /\ Marked

LEMMA InvariantInit == Init => Inv
  BY TypedInit, MinedInit, WatchedInit, StampedInit, ArrivedInit, Zenon DEF Inv, IInv

LEMMA InvariantStep == Inv /\ [Next]_vars => Inv'
<1> SUFFICES ASSUME Inv, [Next]_vars PROVE Inv'
  OBVIOUS
<1>0. Typed /\ Mined /\ Watched /\ Stamped /\ Arrived /\ Snaps /\ Marked
  BY DEF Inv, IInv
<1>1. Watcher'
  <2>1. CASE UNCHANGED watcher
    BY <2>1, <1>0, Zenon DEF watcher, Typed, Watcher
  <2>2. CASE WatchStep \/ HandleFails \/ Restart
    BY <2>2, <1>0, WatcherStep, Zenon
  <2> QED
    BY <2>1, <2>2, Zenon DEF Next, IndexStep, Tick, Disconnects, Arrives, Dropped, Mines, StartApply, Reconcile,
       InsertMrcRequests, CaptureSnapshot, InsertBlocks, RollBack, vars
<1>2. Typed'
  BY <1>0, <1>1, CountedStep, ChainsStep, RowsStep, Zenon DEF Typed
<1>3. Mined' /\ Watched' /\ Stamped' /\ Arrived' /\ Snaps' /\ Marked'
  BY <1>0, MinedStep, WatchedStep, StampedStep, ArrivedStep, SnapsStep, MarkedStep, Zenon
<1> QED
  BY <1>2, <1>3, Zenon DEF Inv, IInv

LEMMA Invariant == Safety => []Inv
  BY InvariantInit, InvariantStep, PTL DEF Safety

(* MempoolTypes: every variable keeps its type, a row is never confirmed   *)
(* and evicted at once, and the daemon's pool is of what it has seen.      *)
THEOREM MempoolTypes == Safety => []TypeOK
<1>1. Inv => TypeOK
  <2> SUFFICES ASSUME Inv PROVE TypeOK
    OBVIOUS
  <2>0. Typed /\ Mined /\ Snaps /\ Marked
    BY DEF Inv, IInv
  <2>1. Range(chain) \subseteq Block /\ Range(blocks) \subseteq Block
    <3>1. chain \in Seq(Block) /\ blocks \in Seq(Block)
      BY <2>0 DEF Typed, Chains
    <3> QED
      BY <3>1, ChainFacts
  <2>2. applying = Resting \/ (applying.block \in Block /\ applying.left \subseteq Writes)
    BY <2>0 DEF Typed, Chains, Applying
  <2>3. txs \in [Tx -> Row] /\ mrc \in [Tx -> Request] /\ snaps \subseteq Snapshot
    BY <2>0 DEF Typed, Rows, Snaps
  <2>4. /\ watch.pc \in Phases /\ watch.pool \cup watch.left \cup watch.tx \subseteq Tx
        /\ watch.time \in 0 .. MaxTime
    BY <2>0 DEF Typed, Watcher, Watch
  <2>5. watch.confirmed \in BOOLEAN
    BY <2>0 DEF Typed, Watcher, Watch
  <2>6. now \in Times /\ mined \in 0 .. MaxBlocks /\ reorgs \in 0 .. MaxReorgs /\ faults \in 0 .. MaxFaults
    BY <2>0 DEF Typed, Counted
  <2>7. pool \subseteq sent /\ sent \subseteq Tx /\ last \subseteq Tx /\ lost \subseteq Tx /\ overtaken \subseteq Tx
    BY <2>0 DEF Typed, Chains, Rows, Watcher, Mined, Marked
  <2>8. \A t \in Tx : txs[t].confirmed = Null \/ txs[t].evicted = Null
    BY <2>0 DEF Typed, Exclusive
  <2> QED
    BY <2>1, <2>2, <2>3, <2>4, <2>5, <2>6, <2>7, <2>8, Zenon DEF TypeOK, Row, Request, Snapshot, Phases
<1> QED
  BY <1>1, Invariant, PTL

(* ArrivalAgrees: "Keep the earlier mempool value".  A request and its row *)
(* agree on when the transaction arrived, whether the block or the watcher *)
(* came first, through reorganisations, rollbacks, failed calls and        *)
(* restarts, unless the transaction is lost to the watcher.                *)
THEOREM ArrivalsAgree == Safety => []ArrivalAgrees
<1>1. Inv => ArrivalAgrees
  <2> SUFFICES ASSUME Inv, NEW t \in Tx \ (lost \cup watch.tx), txs[t] # NoRow
               PROVE  mrc[t].first = txs[t].first
    BY DEF ArrivalAgrees
  <2>1. t \in Tx /\ t \notin lost /\ t \notin InHand
    BY DEF InHand
  <2> QED
    BY <2>1, Zenon DEF Inv, IInv, Arrived, Agrees
<1> QED
  BY <1>1, Invariant, PTL

(* SnapshotComplete: whichever of the watcher's exit, reconcileMempool and *)
(* the capture comes first, the snapshot of a block whose header is not    *)
(* ahead of the watcher's clock has every transaction that was pending as  *)
(* it was mined and that the watcher had seen.  Nothing is assumed of the  *)
(* order of the headers.                                                   *)
THEOREM SnapshotsComplete == Safety => SnapshotComplete
<1>1. ASSUME Inv, [Next]_vars, ~applying.block.ahead, NEW t \in Tx \ lost,
             applying # Resting, "snapshot" \in applying.left \ applying'.left, applying' # Resting,
             t \in applying.block.pool, txs[t] # NoRow, txs[t].first <= applying.block.time
      PROVE  [height |-> Height, block |-> applying.block.id, tx |-> t, included |-> Mine(t)] \in snaps'
  <2>0. Typed /\ Mined /\ Stamped /\ t \in Tx /\ t \notin lost
    BY <1>1 DEF Inv, IInv
  <2>1. applying \in Applying
    BY <1>1, <2>0 DEF Typed, Chains
  <2>2. CaptureSnapshot
    <3>1. ASSUME NEW w, w # "snapshot", Write(w) PROVE FALSE
      <4>1. applying'.left = applying.left \ {w}
        BY <3>1, <2>1 DEF Write, Applying
      <4> QED
        BY <4>1, <3>1, <1>1
    <3>2. ~Reconcile /\ ~InsertMrcRequests
      BY <3>1 DEF Reconcile, InsertMrcRequests
    <3>3. ~InsertBlocks /\ ~StartApply /\ ~RollBack /\ ~Restart
      BY <1>1 DEF InsertBlocks, StartApply, RollBack, Restart
    <3>4. applying' # applying
      BY <1>1
    <3> QED
      BY <1>1, <3>2, <3>3, <3>4, Zenon DEF Next, WatchStep, IndexStep, Tick, Disconnects, Arrives, Dropped, Mines, ReadPool,
         EnterMrc, EntriesDone, StampExit, TickDone, EnterRow, AskDaemon, HandleFails, indexer, vars
  <2>3. Coming(applying.block)
    BY <1>1 DEF Coming
  <2>4. /\ txs[t].confirmed # Null => applying.block.time <= txs[t].confirmed
        /\ txs[t].evicted # Null => applying.block.time <= txs[t].evicted
    BY <2>0, <2>3, <1>1, Zenon DEF Stamped, Behind, Past
  <2>5. txs[t].confirmed \in Int /\ txs[t].evicted \in Int /\ applying.block.time \in Int
    <3>1. txs[t] \in Row /\ applying.block \in Block
      BY <2>0, <2>1 DEF Typed, Rows, Applying
    <3> QED
      BY <3>1 DEF Row, Block, Times
  <2>6. ActiveAt(t, applying.block.time)
    BY <2>4, <2>5, <1>1 DEF ActiveAt
  <2> QED
    BY <2>0, <2>2, <2>6, Zenon DEF CaptureSnapshot
<1>2. Inv /\ [Next]_vars => [~applying.block.ahead => \A t \in Tx \ lost : Frozen(t)]_vars
  BY <1>1, Zenon DEF Frozen
<1> QED
  BY <1>2, Invariant, PTL DEF Safety, SnapshotComplete
=============================================================================
