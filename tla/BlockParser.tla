----------------------------- MODULE BlockParser -----------------------------
(***************************************************************************)
(* From a block of the daemon to the rows of the index (ContractParser,    *)
(* PhantomSpendDetector, the row builders of BlockWriter), and from the    *)
(* rows of a transaction to what the block page shows of it (blockFlow).   *)
(* No state: BlockTables applies these functions.                          *)
(*                                                                         *)
(* A transaction is [id, kind, ins, outs, contract]: kind is "coinbase",   *)
(* "coinstake" or "standard", ins a sequence of outpoints, outs one of     *)
(* [to, value].  A block is [id, txs, claim]: claim holds the subsidies    *)
(* and the MRCs the coinstake pays, [to, subsidy, fee] each.               *)
(***************************************************************************)
EXTENDS Integers, Sequences, FiniteSets, SequencesExt, FiniteSetsExt, Functions

CONSTANTS
  Addr,       \* addresses
  None        \* no address: the marker of a coinstake, a script without one

Larger(a, b) == IF a > b THEN a ELSE b
Smaller(a, b) == IF a < b THEN a ELSE b
Total(rows) == MapThenSumSet(LAMBDA r : r.value, rows)

-----------------------------------------------------------------------------
(* Rows of one transaction. *)

Outputs(tx, height) ==
  {[tx |-> tx.id, n |-> n, address |-> tx.outs[n].to, value |-> tx.outs[n].value, height |-> height] :
     n \in DOMAIN tx.outs}

\* The lookup's answer, as a set: an output it does not know leaves value and address empty.
PrevOutput(prev, known) == {o \in known : o.tx = prev.tx /\ o.n = prev.n}

Inputs(tx, height, known) ==
  {[tx |-> tx.id, n |-> n, prev |-> tx.ins[n], height |-> height, phantom |-> FALSE,
    address |-> IF PrevOutput(tx.ins[n], known) = {} THEN None ELSE (CHOOSE o \in PrevOutput(tx.ins[n], known) : TRUE).address,
    value |-> Total(PrevOutput(tx.ins[n], known))] : n \in DOMAIN tx.ins}

\* What a transaction moves of an address.  A coinstake's principal returns to its owner, so
\* there only the difference counts as received or sent.
Legs(tx, spent, paid) ==
  [delta |-> paid - spent,
   received |-> IF tx.kind = "coinstake" THEN Larger(paid - spent, 0) ELSE paid,
   sent |-> IF tx.kind = "coinstake" THEN Larger(spent - paid, 0) ELSE spent]

Moved(tx, rows, a) ==
  Legs(tx, Total({i \in rows : i.tx = tx.id /\ i.address = a}), Total({o \in Outputs(tx, 0) : o.address = a}))

Touches(tx, rows, a) == a \in {i.address : i \in {r \in rows : r.tx = tx.id}} \cup {o.to : o \in Range(tx.outs)}

\* Per address of the block: delta, received, sent, number of transactions.
AddressDeltas(block, height, rows) ==
  LET touching(a) == {tx \in Range(block.txs) : Touches(tx, rows, a)}
      sum(a, Leg(_)) == MapThenSumSet(LAMBDA tx : Leg(Moved(tx, rows, a)), touching(a))
  IN  {[address |-> a, height |-> height, count |-> Cardinality(touching(a)),
        delta |-> sum(a, LAMBDA m : m.delta), received |-> sum(a, LAMBDA m : m.received),
        sent |-> sum(a, LAMBDA m : m.sent)] : a \in {b \in Addr : touching(b) # {}}}

\* Inputs less outputs, never below nothing; a transaction that mints has no fee.
Fee(tx, rows) ==
  IF tx.kind # "standard" THEN 0
  ELSE Larger(0, Total({i \in rows : i.tx = tx.id}) - Total(Outputs(tx, 0)))

-----------------------------------------------------------------------------
(* Halford-era coinstakes may stake an output that is spent: only the first input that names
   it, in the order of the chain, spends it. *)

Before(i, j) == i.height < j.height \/ (i.height = j.height /\ i.tx[2] < j.tx[2])

\* Bug: the row this input wrote before a crash counts as another's.
ClaimedByOther_Self(i, stored) == \E r \in stored : ~r.phantom /\ r.prev = i.prev

ClaimedByOther(i, stored) == \E r \in stored : ~r.phantom /\ r.prev = i.prev /\ r.tx # i.tx

\* markPhantomSpends: against the rows stored, then against earlier inputs of the batch.
IsPhantom(i, stored, batch) ==
  \/ ClaimedByOther(i, stored)
  \/ \E j \in batch : Before(j, i) /\ j.prev = i.prev /\ ~ClaimedByOther(j, stored)

MarkPhantoms(batch, stored) == {[i EXCEPT !.phantom = IsPhantom(i, stored, batch)] : i \in batch}

\* The debit was booked by then: it is taken back from the delta, and from sent as far as it goes.
Undebited(row, inputs) ==
  LET back == Total({i \in inputs : i.phantom /\ i.address = row.address /\ i.height = row.height})
  IN  [row EXCEPT !.delta = @ + back, !.sent = Larger(0, @ - back)]

\* insertAddressTxs goes over outputs and inputs on its own.
AddressTxs(outputs, inputs) ==
  LET spent(a, t) == {i \in inputs : i.address = a /\ i.tx = t /\ ~i.phantom}
      paid(a, t) == {o \in outputs : o.address = a /\ o.tx = t}
  IN  {[address |-> r.address, tx |-> r.tx, height |-> r.height,
        delta |-> Total(paid(r.address, r.tx)) - Total(spent(r.address, r.tx))] :
         r \in {x \in outputs \cup {i \in inputs : ~i.phantom} : x.address # None}}

-----------------------------------------------------------------------------
(* Contracts.  A legacy vote names its poll by title and its choices by label. *)

PollRows(block, height) ==
  {[tx |-> tx.id, height |-> height, title |-> tx.contract.title, labels |-> tx.contract.labels] :
     tx \in {t \in Range(block.txs) : t.contract.type = "poll"}}

VotesOf(block, height) ==
  {[tx |-> tx.id, height |-> height, title |-> tx.contract.title, labels |-> tx.contract.labels] :
     tx \in {t \in Range(block.txs) : t.contract.type = "vote"}}

\* Bug: only the polls stored before this batch are looked at.
Candidates_Stored(v, batch, stored) == {p \in stored : p.title = v.title}

\* The title is looked up among the polls of the batch, where the last one stands; only if
\* there is none, among those stored.
Candidates(v, batch, stored) ==
  LET own == {p \in batch : p.title = v.title}
  IN  IF own # {} THEN {p \in own : \A q \in own : q = p \/ Before(q, p)}
      ELSE {p \in stored : p.title = v.title}

\* One row for each label the poll knows; none if no poll is found.
VoteRows(v, poll) ==
  {[tx |-> v.tx, height |-> v.height, poll |-> poll.tx, choice |-> c - 1] :
     c \in {n \in DOMAIN poll.labels : poll.labels[n] \in v.labels}}

-----------------------------------------------------------------------------
(* The coinstake: marker, stake splits, sidestakes, then one output for each MRC and one for
   the foundation's share of their fees. *)

Foundation(claim) == claim.share * Len(claim.mrcs)
StakerFees(claim) == MapThenSumSet(LAMBDA n : claim.mrcs[n].fee, DOMAIN claim.mrcs) - Foundation(claim)
Staked(block) == block.txs[2]
IsPos(block) == Len(block.txs) > 1 /\ Staked(block).kind = "coinstake"

\* How many outputs at the tail pay MRCs.
MrcTail(claim) == Len(claim.mrcs) + IF Foundation(claim) > 0 /\ claim.mrcs # << >> THEN 1 ELSE 0

\* An output of data (nulldata): no address, no value.
IsData(out) == out.to = None /\ out.value = 0
LastOf(ns, k) == {ns[i] : i \in {j \in DOMAIN ns : j > Len(ns) - k}}

\* mrcPayoutVouts, by number: never the marker or the first split, nor data.
MrcPayoutVouts(block) ==
  LET outs == Staked(block).outs
      payouts == SelectSeq([n \in DOMAIN outs |-> n], LAMBDA n : n > 2 /\ ~IsData(outs[n]))
  IN  IF block.claim.mrcs = << >> THEN {} ELSE LastOf(payouts, MrcTail(block.claim))

\* Bug: stake splits are taken for sidestakes.
IsSplit_Never(outs, n) == n <= 2

IsSplit(outs, n) == n <= 2 \/ outs[n].to = outs[2].to

CoinstakeSidestakes(block, height) ==
  LET outs == Staked(block).outs IN
  IF ~IsPos(block) THEN {}
  ELSE {[tx |-> Staked(block).id, n |-> n, address |-> outs[n].to, value |-> outs[n].value, height |-> height] :
          n \in {m \in DOMAIN outs \ MrcPayoutVouts(block) :
                   ~IsSplit(outs, m) /\ outs[m].to # None /\ outs[m].value > 0}}

-----------------------------------------------------------------------------
(* The block page, from the rows of a coinstake: ins, outs ordered by number, claim and MRCs
   ordered by subsidy.  feeKnown is false for rows older than the column of the fee. *)

First(candidates) == IF candidates = {} THEN {} ELSE {Min(candidates)}
BySubsidy(mrcs) == SortSeq(mrcs, LAMBDA x, y : x.subsidy > y.subsidy)

\* Candidates: the last spendable outputs.
Pool(outs, claim) ==
  LET spendable == SelectSeq([n \in DOMAIN outs |-> n], LAMBDA n : n > 2 /\ outs[n].value > 0)
  IN  IF claim.mrcs = << >> THEN {} ELSE LastOf(spendable, MrcTail(claim))

FoundationVout(outs, claim) ==
  IF Foundation(claim) = 0 THEN {} ELSE First({n \in Pool(outs, claim) : outs[n].value = Foundation(claim)})

\* Bug: the fee stays with the claimant.
Net_Gross(mrcs, n, claim, feeKnown) == {mrcs[n].subsidy}

\* What a claimant is paid, if it can be told.
Net(mrcs, n, claim, feeKnown) ==
  IF feeKnown THEN {mrcs[n].subsidy - mrcs[n].fee}
  ELSE IF Len(mrcs) = 1 THEN {mrcs[n].subsidy - Foundation(claim) - StakerFees(claim)} ELSE {}

\* matchMrcPayouts: claimants in turn take the first free output of their amount, or one to an
\* address of theirs; those left are paired by size.
Matched(outs, claim, feeKnown) ==
  LET mrcs == BySubsidy(claim.mrcs)
      pool == Pool(outs, claim) \ FoundationVout(outs, claim)
      hit(n, free) ==
        LET exact == First({m \in free : outs[m].value \in Net(mrcs, n, claim, feeKnown)})
        IN  IF exact # {} THEN exact ELSE First({m \in free : outs[m].to = mrcs[n].to /\ claim.beacons})
      taken[n \in 0 .. Len(mrcs)] ==
        IF n = 0 THEN << >>
        ELSE Append(taken[n - 1], hit(n, pool \ UNION Range(taken[n - 1])))
      direct == taken[Len(mrcs)]
      left == SelectSeq([n \in DOMAIN mrcs |-> n], LAMBDA n : direct[n] = {})
      rest == SortSeq(SetToSortSeq(pool \ UNION Range(direct), <), LAMBDA x, y : outs[x].value > outs[y].value)
  IN  [n \in DOMAIN mrcs |->
         IF direct[n] # {} THEN direct[n]
         ELSE LET k == Cardinality({m \in Range(left) : m <= n}) IN IF k <= Len(rest) THEN {rest[k]} ELSE {}]

\* An output that is matched is the truth; otherwise the row is.
ClaimantPaid(outs, claim, feeKnown, n) ==
  LET m == Matched(outs, claim, feeKnown)[n]
      row == BySubsidy(claim.mrcs)[n]
  IN  IF m # {} THEN outs[CHOOSE k \in m : TRUE].value ELSE row.subsidy - (IF feeKnown THEN row.fee ELSE 0)

MrcTotal(outs, claim, feeKnown) ==
  IF claim.mrcs = << >> THEN 0
  ELSE Foundation(claim) + StakerFees(claim)
       + MapThenSumSet(LAMBDA n : ClaimantPaid(outs, claim, feeKnown, n), DOMAIN claim.mrcs)

\* What was minted beyond the claim: the fees of the block's other transactions.  Without a claim
\* all of it is shown as the block's reward.
CollectedFees(outs, spent, claim, feeKnown) ==
  LET paid == MapThenSumSet(LAMBDA n : outs[n].value, DOMAIN outs)
      mint == claim.block + claim.research + MrcTotal(outs, claim, feeKnown)
  IN  IF mint = 0 THEN 0 ELSE Larger(0, Larger(0, paid - spent) - mint)

\* Outputs that are no MRC payout and not to the staker.
SidestakeFlows(outs, staker, claim, feeKnown) ==
  LET mrc == FoundationVout(outs, claim) \cup UNION Range(Matched(outs, claim, feeKnown))
  IN  {n \in DOMAIN outs \ mrc : n > 2 /\ outs[n].value > 0 /\ outs[n].to \notin {None, staker, outs[2].to}}
=============================================================================
