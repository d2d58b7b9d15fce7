----------------------------- MODULE BlockTables -----------------------------
(***************************************************************************)
(* BlockWriter.applyBlocks over whole blocks: the indexer applies the      *)
(* daemon's chain in batches of any length, one insert per table in        *)
(* parallel, the `blocks` row last.  A batch may fail when some inserts    *)
(* have landed; the others land later, or never, and the batch, cut anew,  *)
(* is applied again over them (INSERT IGNORE).  The chain may reorganise.  *)
(*                                                                         *)
(* Block 1 is mined with work and pays two addresses; every later block    *)
(* has a coinstake, and perhaps a payment, a poll or a legacy vote.        *)
(* Sidestakes, MRCs and second splits, outputs staked twice, failures and  *)
(* reorganisations are what may happen MaxSpecial times in a behaviour.    *)
(* Of a failed batch one insert has landed, or all but one, which may land *)
(* later; a chain that replaces another has coinstakes only.               *)
(***************************************************************************)
EXTENDS BlockParser

CONSTANTS
  MaxBlocks,     \* the longest chain
  MaxMined,      \* blocks ever mined
  MaxSpecial,    \* unusual events
  MaxFaults      \* batches that fail

ASSUME BlockTablesAssumption ==
  /\ IsFiniteSet(Addr) /\ None \notin Addr
  /\ {MaxBlocks, MaxMined, MaxSpecial, MaxFaults} \subseteq Nat

VARIABLES
  chain,       \* the daemon's blocks
  applied,     \* the `blocks` table
  tables,      \* the other tables: sets of rows
  pending,     \* inserts of a failed batch still under way
  mined, special, faults,
  stale        \* a reorganisation found rows of a failed batch

vars == <<chain, applied, tables, pending, mined, special, faults, stale>>

Tables == {"outputs", "inputs", "history", "sides", "polls", "votes"}
Key(table, r) ==
  CASE table \in {"outputs", "inputs"} -> <<r.tx, r.n>>
    [] table = "sides" -> <<r.address, r.height, r.n>>
    [] table = "history" -> <<r.address, r.height>>
    [] table = "polls" -> r.tx
    [] table = "votes" -> <<r.tx, r.choice>>

Init ==
  /\ chain = << >> /\ applied = << >> /\ tables = [t \in Tables |-> {}] /\ pending = {}
  /\ mined = 0 /\ special = 0 /\ faults = 0 /\ stale = FALSE

-----------------------------------------------------------------------------
(* The daemon. *)

OutputsOf(blocks) == UNION {UNION {Outputs(tx, h) : tx \in Range(blocks[h].txs)} : h \in DOMAIN blocks}
Spent(blocks) == UNION {Range(tx.ins) : tx \in UNION {Range(b.txs) : b \in Range(blocks)}}
Point(o) == [tx |-> o.tx, n |-> o.n]
NoContract == [type |-> "none"]
NoClaim == [block |-> 0, research |-> 0, mrcs |-> << >>, share |-> 0, beacons |-> FALSE]
Tx(id, kind, ins, outs, contract) == [id |-> id, kind |-> kind, ins |-> ins, outs |-> outs, contract |-> contract]
Out(to, value) == [to |-> to, value |-> value]

Plain == [splits |-> 1, sides |-> << >>, mrcs |-> << >>, share |-> 0, beacons |-> FALSE, data |-> FALSE]

Work(id) ==
  [id |-> id, claim |-> NoClaim, layout |-> Plain,
   txs |-> <<Tx(<<id, 1>>, "coinbase", << >>, SetToSeq({Out(a, 3) : a \in Addr}), NoContract)>>]

\* What a block may hold next to the coinstake: nothing, or one transaction.
Others(id, unspent) ==
  {<< >>} \cup
  UNION {{<<Tx(<<id, 3>>, "standard", <<Point(o)>>, <<Out(to, o.value - fee)>>, c)>> :
            to \in Addr, fee \in {1}, c \in {NoContract}}
         \cup {<<Tx(<<id, 3>>, "standard", <<Point(o)>>, <<Out(o.address, o.value)>>, c)>> :
                 c \in {[type |-> "poll", title |-> "t", labels |-> <<"yes", "no">>],
                        [type |-> "vote", title |-> "t", labels |-> {"no", "maybe"}]}}
         : o \in {u \in unspent : u.value > 1}}

Mrcs == [to : Addr, subsidy : {2, 3}, fee : {1}]     \* a claimant is known by its address
Layouts ==
  {l \in [splits : {1, 2}, sides : {<< >>} \cup {<<a>> : a \in Addr},
          mrcs : {<< >>} \cup {<<m>> : m \in Mrcs} \cup {q \in Mrcs \X Mrcs : q[1].to # q[2].to},
          share : {0, 1}, beacons : BOOLEAN, data : BOOLEAN] :
     l.mrcs = << >> => l.share = 0 /\ ~l.beacons}

\* Everything the staker is due, less one for each sidestake, in one or two splits; at the end
\* perhaps an output of data.
Coinstake(id, kernel, l, claim, fees) ==
  LET due == kernel.value + claim.block + claim.research + StakerFees(claim) + fees - Len(l.sides)
      splits == IF l.splits = 1 THEN <<Out(kernel.address, due)>>
                ELSE <<Out(kernel.address, due - 1), Out(kernel.address, 1)>>
      paid == [n \in DOMAIN l.mrcs |-> Out(l.mrcs[n].to, l.mrcs[n].subsidy - l.mrcs[n].fee)]
      foundation == IF Foundation(claim) > 0 THEN <<Out(CHOOSE a \in Addr : TRUE, Foundation(claim))>> ELSE << >>
  IN  Tx(<<id, 2>>, "coinstake", <<Point(kernel)>>,
         <<Out(None, 0)>> \o splits \o [n \in DOMAIN l.sides |-> Out(l.sides[n], 1)] \o paid \o foundation
           \o (IF l.data THEN <<Out(None, 0)>> ELSE << >>), NoContract)

Stake(id, kernel, l, other) ==
  LET claim == [block |-> 1, research |-> 1, mrcs |-> l.mrcs, share |-> l.share, beacons |-> l.beacons]
      spent == Total({o \in OutputsOf(chain) : other # << >> /\ Point(o) = other[1].ins[1]})
      fees == IF other = << >> THEN 0 ELSE spent - other[1].outs[1].value
  IN  [id |-> id, claim |-> claim, layout |-> l,
       txs |-> <<Tx(<<id, 1>>, "coinbase", << >>, << >>, NoContract), Coinstake(id, kernel, l, claim, fees)>> \o other]

\* An unusual layout takes all of the behaviour's special events, and ends the chain.
Cost(l, kernel) == IF l # Plain THEN MaxSpecial ELSE IF Point(kernel) \in Spent(chain) THEN 1 ELSE 0

MineWork ==
  /\ chain = << >> /\ mined < MaxMined /\ mined' = mined + 1
  /\ chain' = <<Work(mined + 1)>>
  /\ UNCHANGED <<applied, tables, pending, special, faults, stale>>

MineStake ==
  /\ chain # << >> /\ Len(chain) < MaxBlocks /\ Last(chain).layout = Plain /\ mined < MaxMined /\ mined' = mined + 1
  /\ \E kernel \in {o \in OutputsOf(chain) : o.value > 1}, l \in IF mined = 1 THEN Layouts ELSE {Plain} :
       LET unspent == {o \in OutputsOf(chain) : o.address # None /\ Point(o) \notin Spent(chain) \cup {Point(kernel)}} IN
       /\ Cost(l, kernel) + special <= MaxSpecial /\ special' = special + Cost(l, kernel)
       /\ \E other \in IF mined = Len(chain) THEN Others(mined + 1, unspent) ELSE {<< >>} :
            /\ l # Plain => (other # << >> => other[1].contract = NoContract)
            /\ chain' = Append(chain, Stake(mined + 1, kernel, l, other))
  /\ UNCHANGED <<applied, tables, pending, faults, stale>>

Reorg ==
  /\ special < MaxSpecial /\ special' = special + 1
  /\ \E to \in 1 .. Len(chain) - 1 : chain' = SubSeq(chain, 1, to)
  /\ stale' = (stale \/ pending # {} \/ \E t \in Tables : \E r \in tables[t] : r.height > Len(applied))
  /\ UNCHANGED <<applied, tables, pending, mined, faults>>

-----------------------------------------------------------------------------
(* The indexer. *)

OnChain == IsPrefix(applied, chain)

\* The rows of the next n blocks.  Outputs are looked up in the table and in the batch.
Rows(n) ==
  LET from == Len(applied)
      heights == from + 1 .. from + n
      polls == UNION {PollRows(chain[h], h) : h \in heights}
      outputs == UNION {Outputs(tx, h) : <<h, tx>> \in UNION {{h} \X Range(chain[h].txs) : h \in heights}}
      read == UNION {Inputs(tx, h, tables["outputs"] \cup outputs) :
                       <<h, tx>> \in UNION {{h} \X Range(chain[h].txs) : h \in heights}}
      inputs == MarkPhantoms(read, tables["inputs"])
  IN  [outputs |-> outputs, inputs |-> inputs, polls |-> polls,
       history |-> UNION {{Undebited(r, inputs) :
                             r \in AddressDeltas(chain[h], h, {i \in inputs : i.height = h})} : h \in heights},
       sides |-> UNION {CoinstakeSidestakes(chain[h], h) : h \in heights},
       votes |-> UNION {UNION {UNION {VoteRows(v, p) : p \in Candidates(v, polls, tables["polls"])} :
                                 v \in VotesOf(chain[h], h)} : h \in heights}]

Insert(old, t, rows) == old \cup {r \in rows : \A o \in old : Key(t, o) # Key(t, r)}

\* All inserts, and the `blocks` rows.
ApplyBatch(n) ==
  /\ OnChain /\ Len(applied) + n <= Len(chain)
  /\ LET rows == Rows(n) IN tables' = [t \in Tables |-> Insert(tables[t], t, rows[t])]
  /\ applied' = SubSeq(chain, 1, Len(applied) + n)
  /\ UNCHANGED <<chain, pending, mined, special, faults, stale>>

\* Promise.all rejects with the inserts of `done` landed, those of `late` under way; this batch is all there is.
BatchFails(done, late) ==
  /\ OnChain /\ Len(applied) < Len(chain) /\ special < MaxSpecial /\ special' = special + 1
  /\ faults < MaxFaults /\ faults' = faults + 1
  /\ LET rows == Rows(Len(chain) - Len(applied)) IN
       /\ tables' = [t \in Tables |-> IF t \in done THEN Insert(tables[t], t, rows[t]) ELSE tables[t]]
       /\ pending' = pending \cup {[table |-> t, rows |-> rows[t]] : t \in late}
  /\ UNCHANGED <<chain, applied, mined, stale>>

Lands(p) ==
  /\ p \in pending /\ pending' = pending \ {p}
  /\ tables' = [tables EXCEPT ![p.table] = Insert(@, p.table, p.rows)]
  /\ UNCHANGED <<chain, applied, mined, special, faults, stale>>

Kept(rows, fork) == {r \in rows : r.height <= fork}

RollBack ==
  /\ ~OnChain
  /\ LET fork == Len(LongestCommonPrefix({applied, chain})) IN
       /\ tables' = [t \in Tables |-> Kept(tables[t], fork)]
       /\ applied' = SubSeq(applied, 1, fork)
  /\ UNCHANGED <<chain, pending, mined, special, faults, stale>>

Next ==
  \/ MineWork \/ MineStake \/ Reorg \/ RollBack
  \/ \E n \in 1 .. MaxBlocks : ApplyBatch(n)
  \/ \E t \in Tables : BatchFails({t}, {}) \/ BatchFails(Tables \ {t}, {}) \/ BatchFails(Tables \ {t}, {t})
  \/ \E p \in pending : Lands(p)

Spec == Init /\ [][Next]_vars

-----------------------------------------------------------------------------
(* What the tables should hold, said block by block of the chain applied. *)

Ids(blocks) == {b.id : b \in Range(blocks)}
Here(rows) == {r \in rows : r.height <= Len(applied)}
References(point) == {i \in Here(tables["inputs"]) : i.prev = point}
Paid(a) == {o \in OutputsOf(applied) : o.address = a}

\* The poll a legacy vote means, when its title is given once on the chain and before the vote.
PollsTitled(title) == UNION {{p \in PollRows(applied[h], h) : p.title = title} : h \in DOMAIN applied}
Votes == UNION {VotesOf(applied[h], h) : h \in DOMAIN applied}
Clear(v) == Cardinality(PollsTitled(v.title)) = 1 /\ \A p \in PollsTitled(v.title) : Before(p, v)

\* "Existing rows are skipped, missing rows fill in": however the chain was cut into batches, and
\* whatever part of a batch had landed before it was applied again, the tables hold the rows of
\* the blocks applied, each one once.
TablesFollowChain ==
  stale \/
  /\ Here(tables["outputs"]) = OutputsOf(applied)
  /\ Here(tables["polls"]) = UNION {PollRows(applied[h], h) : h \in DOMAIN applied}
  /\ \A v \in Votes : Clear(v) =>
       {r \in tables["votes"] : r.tx = v.tx} = UNION {VoteRows(v, p) : p \in PollsTitled(v.title)}
  /\ \A o \in OutputsOf(applied) : Point(o) \in Spent(applied) =>
       Cardinality({i \in References(Point(o)) : ~i.phantom}) = 1

\* Three tables, three computations, one balance: the event log of an address, the outputs paid
\* to it that no input spends, and its list of transactions; and received less sent is the
\* balance too, until an output is staked twice.
BalancesAgree ==
  stale \/ \A a \in Addr :
    LET log == {r \in Here(tables["history"]) : r.address = a}
        sum(Field(_)) == MapThenSumSet(Field, log)
        txs == {r \in AddressTxs(Here(tables["outputs"]), Here(tables["inputs"])) : r.address = a}
    IN  /\ sum(LAMBDA r : r.delta) = Total({o \in Paid(a) : Point(o) \notin Spent(applied)})
        /\ sum(LAMBDA r : r.delta) = MapThenSumSet(LAMBDA r : r.delta, txs)
        /\ (\A i \in Here(tables["inputs"]) : ~i.phantom) =>
             sum(LAMBDA r : r.received) - sum(LAMBDA r : r.sent) = sum(LAMBDA r : r.delta)

PosHeights == {h \in DOMAIN applied : IsPos(applied[h])}

\* What the miner laid out: the outputs behind the splits that are neither MRC nor foundation.
\* The indexer's rows and the block page's flows, two readings of the same layout, both find the
\* sidestakes that left the staker and nothing else.
SidestakesAgree ==
  stale \/ \A h \in PosHeights :
    LET outs == Staked(applied[h]).outs
        claim == applied[h].claim
        rows == {r.n : r \in {s \in tables["sides"] : s.tx = Staked(applied[h]).id}}
        tail == Len(claim.mrcs) + (IF Foundation(claim) > 0 THEN 1 ELSE 0) + (IF applied[h].layout.data THEN 1 ELSE 0)
        truth == {n \in DOMAIN outs : n > 2 /\ n <= Len(outs) - tail /\ outs[n].to # outs[2].to}
    IN  rows = truth /\ \A feeKnown \in BOOLEAN : SidestakeFlows(outs, outs[2].to, claim, feeKnown) = truth

\* The fees the page lets the staker collect are those the block's other transactions paid, and
\* each claimant of an MRC is shown what it was paid, and where, if no other payout is equal;
\* also when the row of the MRC is older than the column of the fee.
FlowsBalance ==
  \A h \in PosHeights :
    LET outs == Staked(applied[h]).outs
        claim == applied[h].claim
        inputs == {i \in Here(tables["inputs"]) : i.height = h}
        spent == Total({i \in inputs : i.tx = Staked(applied[h]).id})
        fees == MapThenSumSet(LAMBDA tx : Fee(tx, inputs), Range(applied[h].txs))
        mrcs == BySubsidy(claim.mrcs)
    IN  \A feeKnown \in BOOLEAN :
          /\ CollectedFees(outs, spent, claim, feeKnown) = fees
          /\ \A n \in DOMAIN mrcs :
               /\ ClaimantPaid(outs, claim, feeKnown, n) = mrcs[n].subsidy - mrcs[n].fee
               /\ \A m \in Matched(outs, claim, feeKnown)[n] :
                    outs[m].to = mrcs[n].to \/ \E k \in Pool(outs, claim) \ {m} : outs[k].value = outs[m].value
=============================================================================
