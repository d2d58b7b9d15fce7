---------------------------- MODULE WatermarkJobs ----------------------------
(***************************************************************************)
(* The periodic jobs that derive tables from blocks already indexed:       *)
(* AddressClusterJob merges addresses that were spent together,            *)
(* VoteClaimJob looks up the claim of every vote, PollWeightAggregator     *)
(* weighs the votes of a poll until its end, and once after.  The indexer  *)
(* appends blocks, rolls them back and is wiped between any two awaits.    *)
(*                                                                         *)
(* The jobs share nothing but the index, so each behaviour has one of      *)
(* them.  An item is what a block holds for that job: the input addresses  *)
(* of a transaction, or a vote, named by its block.  The first block holds *)
(* the poll.                                                               *)
(***************************************************************************)
EXTENDS Integers, Sequences, FiniteSets, SequencesExt, FiniteSetsExt

CONSTANTS
  Jobs,            \* the jobs to look at
  Addr,            \* addresses, integers: a cluster may be named by its least
  Groups,          \* input addresses of a transaction
  MaxReorgDepth,   \* MAX_REORG_DEPTH
  SeedReplay,      \* SEED_REPLAY_BLOCKS
  PollEnd,         \* the poll's end_time
  Fresh,           \* how old a tip may be for the wall clock to stand in for it (300 s)
  MaxTime,         \* the last tick of the clock
  MaxHeight,       \* blocks of a chain
  MaxBlocks,       \* blocks ever indexed
  MaxReorgs, MaxWipes, MaxRebuilds, MaxFaults

ASSUME WatermarkAssumption ==
  /\ Jobs \subseteq {"clusters", "claims", "weights"} /\ Addr \subseteq Nat
  /\ Groups \subseteq SUBSET Addr /\ \A g \in Groups : Cardinality(g) >= 2
  /\ {MaxReorgDepth, PollEnd, Fresh, MaxHeight, MaxBlocks} \subseteq Nat
  /\ {MaxTime, SeedReplay} \subseteq Nat \ {0}
  /\ {MaxReorgs, MaxWipes, MaxRebuilds, MaxFaults} \subseteq Nat

None == -1
Vote == {None}           \* the item of a block with a vote
Empty == {}

VARIABLES
  job,               \* the job of this behaviour
  blocks, made,      \* the index: blocks [id, time, item], and the last id given out
  now,
  watermark,         \* the job's key in Redis
  cluster,           \* address_clusters: the cluster of an address, or None
  claims,            \* vote_claim_addresses: [vote, height]
  weighed,           \* votes with a weight
  final,             \* weights_computed_at_height of the poll is set
  tick,              \* where the tick is, and its locals
  fork,              \* the lowest fork not yet behind a tick; tick.fork is what a tick began with
  missed,            \* blocks were replaced below what the job reads again
  unbuilt,           \* a rebuild died, and nothing reads again all that it had to
  lost,              \* votes a rollback or a wipe took from under the job
  known,             \* groups that were ever indexed
  reorgs, wipes, rebuilds, faults

index == <<blocks, made, now>>
tables == <<watermark, cluster, claims, weighed, final>>
ghosts == <<fork, missed, unbuilt, lost, known>>
counters == <<reorgs, wipes, rebuilds, faults>>
vars == <<job, index, tables, tick, ghosts, counters>>

Height == 0 .. MaxHeight
Nowhere == [a \in Addr |-> None]
Idle == [pc |-> "idle", lo |-> 0, hi |-> 0, up |-> 0, read |-> {}, todo |-> {},
         of |-> Nowhere, pending |-> Nowhere, fork |-> MaxHeight + 1]
Item == Groups \cup {Vote, Empty}

TypeOK ==
  /\ job \in Jobs /\ made \in 0 .. MaxBlocks /\ now \in 1 .. MaxTime
  /\ Range(blocks) \subseteq [id : 1 .. MaxBlocks, time : 1 .. MaxTime, item : Item]
  /\ Len(blocks) <= MaxHeight /\ watermark \in Height \cup {None}
  /\ cluster \in [Addr -> Addr \cup {None}]
  /\ claims \subseteq [vote : 1 .. MaxBlocks, height : Height] /\ weighed \subseteq 1 .. MaxBlocks
  /\ {final, missed, unbuilt} \subseteq BOOLEAN /\ fork \in Height \cup {MaxHeight + 1}
  /\ tick.pc \in {"idle", "groups", "assigned", "merge", "save", "scan", "truncate", "fill",
                  "upper", "votes", "claim", "saveUpper", "polls", "weigh", "active", "closed"}
  /\ lost \subseteq 1 .. MaxBlocks /\ known \subseteq Groups

Init ==
  /\ job \in Jobs /\ blocks = << >> /\ made = 0 /\ now = 1
  /\ watermark = None /\ cluster = [a \in Addr |-> None] /\ claims = {} /\ weighed = {} /\ final = FALSE
  /\ tick = Idle /\ fork = MaxHeight + 1 /\ missed = FALSE /\ unbuilt = FALSE /\ lost = {} /\ known = {}
  /\ reorgs = 0 /\ wipes = 0 /\ rebuilds = 0 /\ faults = 0

Tip == Len(blocks)
Larger(a, b) == IF a > b THEN a ELSE b
Smaller(a, b) == IF a < b THEN a ELSE b
Above(lo, hi) == {blocks[h] : h \in {n \in 1 .. Smaller(hi, Tip) : n > lo}}
VotesIn(bs) == {b.id : b \in {x \in bs : x.item = Vote}}
GroupsIn(bs) == {b.item : b \in bs} \ {Vote, Empty}

-----------------------------------------------------------------------------
(* The indexer, and the clock. *)

ClockTicks ==
  /\ job = "weights" /\ now < MaxTime /\ now' = now + 1
  /\ UNCHANGED <<job, blocks, made, tables, tick, ghosts, counters>>

\* A block, mined since the tip's time and at most now; a vote comes before the poll's end.
Apply(item, time) ==
  /\ Tip < MaxHeight /\ made < MaxBlocks /\ made' = made + 1
  /\ time <= now /\ (job = "weights" /\ Tip > 0 => blocks[Tip].time < time)
  /\ (job # "weights" => time = now)
  /\ item = Vote => job # "clusters" /\ (job = "weights" => Tip > 0 /\ time <= PollEnd)
  /\ (item \in Groups) = (job = "clusters")
  /\ blocks' = Append(blocks, [id |-> made + 1, time |-> time, item |-> item])
  /\ known' = known \cup (Groups \cap {item})
  /\ UNCHANGED <<job, now, tables, tick, fork, missed, unbuilt, lost, counters>>

\* deleteChainRowsAtOrAboveHeight: votes and their claims go, clusters stay.  Votes of a poll
\* that is final, or being made so, come back without a weight.
Cut(to) ==
  /\ blocks' = SubSeq(blocks, 1, to) /\ claims' = {c \in claims : c.height <= to}
  /\ weighed' = weighed \cap VotesIn(Above(0, to))
  /\ fork' = Smaller(fork, to)

\* What a tick under way has read of these blocks it will write all the same.
RollBack(to) ==
  /\ to \in Larger(0, Tip - MaxReorgDepth) .. Tip - 1 /\ reorgs < MaxReorgs /\ reorgs' = reorgs + 1
  /\ Cut(to) /\ final' = (final /\ to > 0)
  /\ lost' = IF job = "weights" /\ (final \/ tick # Idle) THEN 1 .. MaxBlocks
             ELSE IF tick # Idle THEN lost \cup VotesIn(Above(to, Tip)) ELSE lost
  /\ UNCHANGED <<job, made, now, watermark, cluster, tick, missed, unbuilt, known, wipes, rebuilds, faults>>

\* The partial wipe.  A poll below the cut is computed again if weights_computed_at_height is
\* above it; but that is the height of the superblock before the poll.
Wipe(to) ==
  /\ tick = Idle /\ wipes < MaxWipes /\ wipes' = wipes + 1 /\ to \in 0 .. Tip - 1
  /\ Cut(to) /\ final' = (final /\ to > 0)
  /\ lost' = IF final THEN 1 .. MaxBlocks ELSE lost
  /\ UNCHANGED <<job, made, now, watermark, cluster, tick, missed, unbuilt, known, reorgs, rebuilds, faults>>

-----------------------------------------------------------------------------
(* Ticks of the two jobs behind a watermark. *)

Step(pc) == tick' = [tick EXCEPT !.pc = pc]

\* Bug: nothing below the watermark is read again.
Below_NoWindow(w) == IF job = "claims" THEN Smaller(w, Tip) ELSE w

\* Where to read from: the last MAX_REORG_DEPTH blocks below the watermark once more.
Below(w) == Larger(0, (IF job = "claims" THEN Smaller(w, Tip) ELSE w) - MaxReorgDepth)

\* The cursor, then the watermark.  Without one, an empty table of clusters is rebuilt, and one
\* that is not, seeded or left by a rebuild that died, replays the last SEED_REPLAY_BLOCKS.
TickStart ==
  LET w == IF watermark # None THEN watermark
           ELSE IF job = "clusters" THEN Larger(0, Tip - SeedReplay) ELSE 0
      lo == Below(w)
      rebuild == job = "clusters" /\ watermark = None /\ \A a \in Addr : cluster[a] = None
  IN  /\ tick = Idle /\ Tip > 0 /\ job \in {"clusters", "claims"}
      /\ IF ~rebuild /\ Tip <= lo
           THEN UNCHANGED <<tick, fork>> /\ watermark' = IF job = "clusters" THEN Tip ELSE watermark
           ELSE /\ tick' = [Idle EXCEPT !.pc = IF rebuild THEN "scan" ELSE IF job = "clusters" THEN "groups" ELSE "upper",
                                        !.lo = IF rebuild THEN 0 ELSE lo, !.hi = Tip, !.fork = fork]
                /\ fork' = MaxHeight + 1 /\ UNCHANGED watermark
      /\ missed' = (missed \/ (watermark # None /\ lo > fork /\ lo < Tip))
      /\ unbuilt' = (unbuilt \/ (watermark = None /\ ~rebuild /\ lo > 0))
      /\ UNCHANGED <<job, index, cluster, claims, weighed, final, lost, known, counters>>

\* Bug: a group runs on over the end of its transaction.
InputGroups_NoBorder(bs) == IF GroupsIn(bs) = {} THEN {} ELSE {UNION GroupsIn(bs)}

InputGroups(bs) == GroupsIn(bs)

CoSpendGroups ==
  LET read == InputGroups(Above(tick.lo, tick.hi)) IN
  /\ tick.pc = "groups"
  /\ tick' = [tick EXCEPT !.pc = IF read = {} THEN "save" ELSE "assigned", !.read = read]
  /\ UNCHANGED <<job, index, tables, ghosts, counters>>

\* The least sets that every link lies inside or outside of.
Components(links) ==
  LET closed(s) == s # {} /\ \A l \in links : l \cap s = {} \/ l \subseteq s
  IN  {s \in SUBSET UNION links : closed(s) /\ \A t \in SUBSET s : closed(t) => t = s}

\* The addresses read that share a cluster are linked like those of one group.
Assigned(of) == {{a \in DOMAIN of : of[a] = c} : c \in {of[a] : a \in DOMAIN of} \ {None}}
Clusters(s) == {tick.of[a] : a \in s} \ {None}
Unassigned(s) == {a \in s : tick.of[a] = None}

\* mergeGroups: the assignments, then what to do for each component; those of one cluster rest.
ReadAssigned ==
  LET of == [a \in Addr |-> IF a \in UNION tick.read THEN cluster[a] ELSE None]
      settled(s) == \E c \in Addr : \A a \in s : of[a] = c
  IN  /\ tick.pc = "assigned"
      /\ tick' = [tick EXCEPT !.pc = "merge", !.of = of,
                   !.todo = {s \in Components(tick.read \cup Assigned(of)) : ~settled(s)}]
      /\ UNCHANGED <<job, index, tables, ghosts, counters>>

Members(c) == {a \in Addr : cluster[a] = c}

\* Bug: only the members that were read are moved.
Repoint_ReadOnly(s, target) == [a \in Addr |-> IF a \in s /\ tick.of[a] # None THEN target ELSE cluster[a]]

\* One UPDATE moves the members of all other clusters of the component.
Repoint(s, target) == [a \in Addr |-> IF cluster[a] \in Clusters(s) THEN target ELSE cluster[a]]

Attach(s, target) == [a \in Addr |-> IF a \in Unassigned(s) THEN target ELSE tick.pending[a]]

\* The largest cluster takes the others; addresses without one follow in the last flush.
MergeComponent(s) ==
  /\ tick.pc = "merge" /\ s \in tick.todo
  /\ \/ /\ Clusters(s) = {}
        /\ tick' = [tick EXCEPT !.todo = @ \ {s}, !.pending = Attach(s, Min(s))] /\ UNCHANGED cluster
     \/ \E target \in Clusters(s) :
          /\ \A c \in Clusters(s) : Cardinality(Members(c)) <= Cardinality(Members(target))
          /\ cluster' = Repoint(s, target)
          /\ tick' = [tick EXCEPT !.todo = @ \ {s}, !.pending = Attach(s, target)]
  /\ UNCHANGED <<job, index, watermark, claims, weighed, final, ghosts, counters>>

FlushPending ==
  /\ tick.pc = "merge" /\ tick.todo = {} /\ Step("save")
  /\ cluster' = [a \in Addr |-> IF tick.pending[a] # None THEN tick.pending[a] ELSE cluster[a]]
  /\ UNCHANGED <<job, index, watermark, claims, weighed, final, ghosts, counters>>

SaveWatermark ==
  /\ tick.pc = "save" /\ watermark' = tick.hi /\ tick' = Idle
  /\ UNCHANGED <<job, index, cluster, claims, weighed, final, ghosts, counters>>

\* rebuild-clusters; the watermark will be the tip of before the scan.
RebuildStart ==
  /\ job = "clusters" /\ tick = Idle /\ Tip > 0 /\ rebuilds < MaxRebuilds /\ rebuilds' = rebuilds + 1
  /\ tick' = [Idle EXCEPT !.pc = "scan", !.hi = Tip, !.fork = fork] /\ fork' = MaxHeight + 1
  /\ UNCHANGED <<job, index, tables, missed, unbuilt, lost, known, reorgs, wipes, faults>>

\* Page by page, in the order of transaction ids: some of the blocks that came meanwhile.
Scan ==
  /\ tick.pc = "scan"
  /\ \E some \in SUBSET GroupsIn(Above(tick.hi, Tip)) :
       tick' = [tick EXCEPT !.pc = "truncate", !.read = InputGroups(Above(0, tick.hi)) \cup some,
                            !.fork = Smaller(tick.fork, fork)]
  /\ fork' = IF Tip < tick.hi THEN Tip ELSE MaxHeight + 1
  /\ UNCHANGED <<job, index, tables, missed, unbuilt, lost, known, counters>>

Truncate ==
  /\ tick.pc = "truncate" /\ Step("fill") /\ cluster' = Nowhere
  /\ UNCHANGED <<job, index, watermark, claims, weighed, final, ghosts, counters>>

Fill ==
  /\ tick.pc = "fill" /\ Step("save")
  /\ cluster' = [a \in Addr |->
       IF a \in UNION tick.read THEN Min(CHOOSE s \in Components(tick.read) : a \in s) ELSE cluster[a]]
  /\ UNCHANGED <<job, index, watermark, claims, weighed, final, ghosts, counters>>

\* VoteClaimJob: a batch ends at a height with votes, or at the cursor (HEIGHTS_PER_BATCH is 1).
BatchUpper ==
  LET heights == {h \in 1 .. Smaller(tick.hi, Tip) : h > tick.lo /\ blocks[h].item = Vote}
  IN  /\ tick.pc = "upper"
      /\ tick' = [tick EXCEPT !.pc = "votes", !.up = IF heights = {} THEN tick.hi ELSE Min(heights)]
      /\ UNCHANGED <<job, index, tables, ghosts, counters>>

LoadVotes ==
  /\ tick.pc = "votes"
  /\ tick' = [tick EXCEPT !.pc = "claim", !.read =
       {[vote |-> blocks[h].id, height |-> h] :
          h \in {n \in 1 .. Smaller(tick.up, Tip) : n > tick.lo /\ blocks[n].item = Vote}}]
  /\ UNCHANGED <<job, index, tables, ghosts, counters>>

\* After an RPC for each vote: INSERT IGNORE.
InsertClaims ==
  /\ tick.pc = "claim" /\ Step("saveUpper") /\ claims' = claims \cup tick.read
  /\ UNCHANGED <<job, index, watermark, cluster, weighed, final, ghosts, counters>>

\* The next batch, or the end of the range.  Out of TICK_BUDGET_MS, a tick ends earlier; one
\* that always does may read the same batch for ever, so this counts as a fault.
SaveUpper ==
  /\ tick.pc = "saveUpper" /\ watermark' = tick.up
  /\ \/ tick.up < tick.hi /\ tick' = [tick EXCEPT !.pc = "upper", !.lo = tick.up, !.read = {}, !.fork = Larger(@, tick.up)] /\ UNCHANGED faults
     \/ tick.up = tick.hi /\ tick' = Idle /\ UNCHANGED faults
     \/ tick.up < tick.hi /\ faults < MaxFaults /\ faults' = faults + 1 /\ tick' = Idle
  /\ UNCHANGED <<job, index, cluster, claims, weighed, final, ghosts, reorgs, wipes, rebuilds>>

-----------------------------------------------------------------------------
(* PollWeightAggregator.  On an empty index it finds no poll. *)

\* Bug: the wall clock says whether a poll is over.
Anchor_WallClock == now

\* getTipAnchor: the tip's time, or the wall clock when the tip is fresh.
Anchor == IF Tip > 0 /\ now - blocks[Tip].time > Fresh THEN blocks[Tip].time ELSE now

ReadAnchor ==
  /\ job = "weights" /\ tick = Idle /\ Tip > 0 /\ tick' = [Idle EXCEPT !.pc = "polls", !.hi = Anchor]
  /\ UNCHANGED <<job, index, tables, ghosts, counters>>

\* The poll is active, or over and not final; then its votes.
ReadPolls ==
  /\ tick.pc = "polls"
  /\ IF Tip > 0 /\ (PollEnd > tick.hi \/ ~final)
       THEN tick' = [tick EXCEPT !.pc = "weigh", !.lo = IF PollEnd > tick.hi THEN 1 ELSE 0,
                                 !.todo = VotesIn(Above(0, Tip))]
       ELSE tick' = Idle
  /\ UNCHANGED <<job, index, tables, ghosts, counters>>

\* One UPDATE for each vote, if it is still there.
Weigh(v) ==
  /\ tick.pc = "weigh" /\ v \in tick.todo /\ tick' = [tick EXCEPT !.todo = @ \ {v}]
  /\ weighed' = weighed \cup ({v} \cap VotesIn(Above(0, Tip)))
  /\ UNCHANGED <<job, index, watermark, cluster, claims, final, ghosts, counters>>

\* Stamped by the pass after the end, cleared by one before it.
MarkPollComputed ==
  /\ tick.pc = "weigh" /\ tick.todo = {} /\ tick' = Idle
  /\ final' = (Tip > 0 /\ tick.lo = 0)
  /\ UNCHANGED <<job, index, watermark, cluster, claims, weighed, ghosts, counters>>

-----------------------------------------------------------------------------
\* A statement or an RPC throws, or the process dies; Redis and the tables stay.  A rebuild
\* cut short leaves a watermark over an empty table.
TickFails ==
  /\ tick # Idle /\ faults < MaxFaults /\ faults' = faults + 1 /\ tick' = Idle
  /\ fork' = Smaller(tick.fork, fork) /\ unbuilt' = (unbuilt \/ (tick.pc = "fill" /\ watermark # None))
  /\ UNCHANGED <<job, index, tables, missed, lost, known, reorgs, wipes, rebuilds>>

TickStep ==
  \/ TickStart
  \/ CoSpendGroups \/ ReadAssigned \/ FlushPending \/ SaveWatermark \/ Scan \/ Truncate \/ Fill
  \/ \E s \in SUBSET Addr : MergeComponent(s)
  \/ BatchUpper \/ LoadVotes \/ InsertClaims \/ SaveUpper
  \/ ReadAnchor \/ ReadPolls \/ MarkPollComputed
  \/ \E v \in 1 .. MaxBlocks : Weigh(v)

Next ==
  \/ ClockTicks
  \/ \E item \in Item, time \in 1 .. MaxTime : Apply(item, time)
  \/ \E to \in Height : RollBack(to) \/ Wipe(to)
  \/ RebuildStart \/ TickStep \/ TickFails

Safety == Init /\ [][Next]_vars

\* schedule() starts tick after tick; what a tick awaits answers.
Spec == Safety /\ WF_vars(TickStep)

-----------------------------------------------------------------------------
Together(a, b) == cluster[a] # None /\ cluster[a] = cluster[b]
Votes == VotesIn(Above(0, Tip))

\* "A crash can't strand half a cluster under the old id": whatever is merged, cut short and
\* merged again, addresses once found together stay so (until a rebuild starts over).
NeverSplit == [][tick.pc # "truncate" => \A a, b \in Addr : Together(a, b) => Together(a, b)']_vars

\* No cluster joins wallets that no chain of co-spends ever indexed connects.
NoOverMerge ==
  \A a, b \in Addr : a # b /\ Together(a, b) => \E s \in Components(known) : {a, b} \subseteq s

\* The last MAX_REORG_DEPTH blocks below the watermark are enough to see every replaced block
\* again, whenever the rollback comes and whatever fails; it takes a wipe or a second rollback
\* to miss one.
WindowCovers == missed => wipes > 0 \/ reorgs > 1

\* "Exactly one final pass after close, to catch votes cast in the last blocks": the wall clock
\* stands in for a tip at most Fresh old, so a final poll can lack the weights of its last Fresh
\* seconds, and of votes a rollback replaced, but no others.
InTime == VotesIn({b \in Above(0, Tip) : b.time <= PollEnd - Fresh})
WeighedWhenFinal == job = "weights" /\ final => InTime \subseteq weighed \cup lost

\* Whatever fails and is retried, each job catches up with the index: co-spends are clustered,
\* votes have their claims and weights, and no claim is left of a vote that is gone.
CatchesUp ==
  <>[](/\ job = "clusters" /\ ~missed /\ ~unbuilt =>
            \A g \in GroupsIn(Above(0, Tip)) : \A a, b \in g : Together(a, b)
       /\ job = "claims" /\ ~missed => Votes \subseteq {c.vote : c \in claims}
       /\ job = "claims" => {c.vote : c \in claims} \subseteq Votes \cup lost
       /\ job = "weights" => InTime \subseteq weighed \cup lost)
=============================================================================
