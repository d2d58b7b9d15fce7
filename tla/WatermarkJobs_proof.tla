------------------------- MODULE WatermarkJobs_proof -------------------------
(***************************************************************************)
(* For any addresses, groups, depth and number of failures: clusters only  *)
(* join what co-spends connect and are split by a rebuild alone; a block   *)
(* replaced by one rollback is read again; a poll marked final has its     *)
(* weights.                                                                *)
(*                                                                         *)
(* Each of these has an inductive invariant of its own next to Types:      *)
(* Sorted says what a merge under way holds of the assignments and what    *)
(* waits to be written, Window how far the watermark and a tick's upper    *)
(* bound are above a fork not read again, Final that no block in time is   *)
(* still to come once a tick has found the poll over.                      *)
(***************************************************************************)
EXTENDS WatermarkJobs, WellFoundedInduction, TLAPS

-----------------------------------------------------------------------------
(* Min of FiniteSetsExt chooses: that there is something to choose comes   *)
(* from the well-foundedness of the naturals.                              *)

(* A set of naturals with an element has a least one. *)
LEMMA LeastElement ==
  ASSUME NEW S \in SUBSET Nat, S # {}
  PROVE  \E x \in S : \A y \in S : x <= y
<1>1. PICK x \in S : \A y \in S : ~(<<y, x>> \in OpToRel(<, Nat))
  BY NatLessThanWellFounded, WFMin, Zenon
<1>2. \A y \in S : ~(y < x)
  BY <1>1, Zenon DEF OpToRel
<1> QED
  BY <1>2

LEMMA LeastNatural ==
  ASSUME NEW S, S \subseteq Nat, S # {}
  PROVE  Min(S) \in S /\ \A y \in S : Min(S) <= y
<1>1. \E x \in S : \A y \in S : x <= y
  BY LeastElement
<1> QED
  BY <1>1, Zenon DEF Min

-----------------------------------------------------------------------------
(* Components of a set of links.  A set is Closed when no link crosses its *)
(* border; two elements are Linked when no closed set parts them.          *)

Closed(K, t) == \A l \in K : l \cap t = {} \/ l \subseteq t

Linked(K, a, b) ==
  /\ a \in UNION K /\ b \in UNION K
  /\ \A t \in SUBSET UNION K : Closed(K, t) => (a \in t <=> b \in t)

(* The components, unfolded.                                               *)
LEMMA ComponentFacts ==
  ASSUME NEW K, NEW s
  PROVE  s \in Components(K) <=>
           /\ s \in SUBSET UNION K /\ s # {} /\ Closed(K, s)
           /\ \A t \in SUBSET s : t # {} /\ Closed(K, t) => t = s
  BY Zenon DEF Components, Closed

LEMMA ComponentWithin ==
  ASSUME NEW K, NEW s \in Components(K)
  PROVE  s # {} /\ s \subseteq UNION K
  BY ComponentFacts, Zenon

LEMMA LinkedBack ==
  ASSUME NEW K, NEW a, NEW b, Linked(K, a, b)
  PROVE  Linked(K, b, a)
  BY DEF Linked

LEMMA LinkedOn ==
  ASSUME NEW K, NEW a, NEW b, NEW c, Linked(K, a, b), Linked(K, b, c)
  PROVE  Linked(K, a, c)
  BY DEF Linked

(* Elements of one link are linked.                                        *)
LEMMA LinkedByOne ==
  ASSUME NEW K, NEW l \in K, NEW a \in l, NEW b \in l
  PROVE  Linked(K, a, b)
  BY DEF Linked, Closed

(* Elements of one component are linked ...                                *)
LEMMA InComponent ==
  ASSUME NEW K, NEW s \in Components(K), NEW a \in s, NEW b \in s
  PROVE  Linked(K, a, b)
<1>1. s \in SUBSET UNION K /\ Closed(K, s) /\ \A t \in SUBSET s : t # {} /\ Closed(K, t) => t = s
  BY ComponentFacts, Zenon
<1>2. ASSUME NEW t \in SUBSET UNION K, Closed(K, t), NEW x \in s, NEW y \in s, x \in t
      PROVE  y \in t
  <2>1. Closed(K, s \cap t)
    BY <1>1, <1>2 DEF Closed
  <2>2. s \cap t = s
    BY <1>1, <1>2, <2>1
  <2> QED
    BY <2>2
<1> QED
  BY <1>1, <1>2 DEF Linked

(* ... every element is in one, which has all that are linked to it ...    *)
LEMMA ComponentOf ==
  ASSUME NEW K, NEW a \in UNION K
  PROVE  \E s \in Components(K) : a \in s
<1> DEFINE s == {b \in UNION K : Linked(K, a, b)}
<1>1. a \in s
  BY DEF Linked
<1>2. Closed(K, s)
  <2> SUFFICES ASSUME NEW l \in K, NEW c \in l, c \in s, NEW d \in l
               PROVE  d \in s
    BY Zenon DEF Closed
  <2>1. Linked(K, a, c) /\ Linked(K, c, d)
    BY LinkedByOne
  <2>2. Linked(K, a, d) /\ d \in UNION K
    BY <2>1, LinkedOn, Zenon
  <2> QED
    BY <2>2
<1>3. ASSUME NEW t \in SUBSET s, t # {}, Closed(K, t)
      PROVE  t = s
  <2>1. PICK c \in t : TRUE
    BY <1>3
  <2>2. ASSUME NEW d \in s PROVE d \in t
    <3>1. Linked(K, a, c) /\ Linked(K, a, d) /\ t \in SUBSET UNION K
      BY <2>1
    <3>2. Linked(K, c, d)
      BY <3>1, LinkedBack, LinkedOn, Zenon
    <3> QED
      BY <3>1, <3>2, <1>3, <2>1 DEF Linked
  <2> QED
    BY <2>2
<1>4. s \in SUBSET UNION K /\ s # {}
  BY <1>1
<1> HIDE DEF s
<1>5. s \in Components(K)
  BY <1>2, <1>3, <1>4, ComponentFacts, Zenon
<1> QED
  BY <1>1, <1>5

(* ... and in no other.                                                    *)
LEMMA ComponentsApart ==
  ASSUME NEW K, NEW s \in Components(K), NEW t \in Components(K), NEW a \in s, a \in t
  PROVE  s = t
<1>1. ASSUME NEW u \in Components(K), NEW v \in Components(K), a \in u, a \in v
      PROVE  u \subseteq v
  <2>1. v \in SUBSET UNION K /\ Closed(K, v)
    BY ComponentFacts, Zenon
  <2> SUFFICES ASSUME NEW b \in u PROVE b \in v
    OBVIOUS
  <2>2. Linked(K, a, b)
    BY <1>1, InComponent
  <2> QED
    BY <1>1, <2>1, <2>2 DEF Linked
<1>2. s \subseteq t /\ t \subseteq s
  BY <1>1
<1> QED
  BY <1>2

(* Links that join only what others join already add nothing.              *)
LEMMA LinksWithin ==
  ASSUME NEW K, NEW L, \A l \in K : \A a, b \in l : Linked(L, a, b),
         NEW x, NEW y, Linked(K, x, y)
  PROVE  Linked(L, x, y)
<1>1. \A z \in UNION K : z \in UNION L
  BY DEF Linked
<1>2. ASSUME NEW t \in SUBSET UNION L, Closed(L, t)
      PROVE  x \in t <=> y \in t
  <2> DEFINE u == t \cap UNION K
  <2>1. Closed(K, u)
    <3> SUFFICES ASSUME NEW l \in K, NEW c \in l, c \in u, NEW d \in l
                 PROVE  d \in u
      BY Zenon DEF Closed
    <3>1. Linked(L, c, d) /\ c \in t
      OBVIOUS
    <3> QED
      BY <3>1, <1>2 DEF Linked
  <2>2. x \in u <=> y \in u
    BY <2>1 DEF Linked
  <2>3. x \in UNION K /\ y \in UNION K
    BY DEF Linked
  <2> QED
    BY <2>2, <2>3
<1>3. x \in UNION L /\ y \in UNION L
  BY <1>1 DEF Linked
<1> QED
  BY <1>2, <1>3 DEF Linked

LEMMA MoreLinks ==
  ASSUME NEW K, NEW L, K \subseteq L, NEW x, NEW y, Linked(K, x, y)
  PROVE  Linked(L, x, y)
<1>1. \A l \in K : \A a, b \in l : Linked(L, a, b)
  BY LinkedByOne
<1> QED
  BY <1>1, LinksWithin

-----------------------------------------------------------------------------
(* Types, and what a tick holds at each of its awaits.                     *)

Clustering == {"groups", "assigned", "merge", "save", "scan", "truncate", "fill"}
Claiming == {"upper", "votes", "claim", "saveUpper"}
Weighing == {"polls", "weigh"}

Block == [id : 1 .. MaxBlocks, time : 1 .. MaxTime, item : Item]
Claim == [vote : 1 .. MaxBlocks, height : Height]
Assignment == [Addr -> Addr \cup {None}]
Tick == [pc : {"idle"} \cup Clustering \cup Claiming \cup Weighing,
         lo : Nat, hi : Nat, up : Nat,
         read : SUBSET (Groups \cup Claim), todo : SUBSET ((SUBSET Addr) \cup (1 .. MaxBlocks)),
         of : Assignment, pending : Assignment, fork : Nat]

IndexTypes ==
  /\ job \in Jobs /\ blocks \in Seq(Block) /\ Len(blocks) <= MaxHeight
  /\ made \in 0 .. MaxBlocks /\ now \in 1 .. MaxTime

TableTypes ==
  /\ watermark \in Height \cup {None} /\ cluster \in Assignment
  /\ claims \subseteq Claim /\ weighed \subseteq 1 .. MaxBlocks /\ final \in BOOLEAN

GhostTypes ==
  /\ fork \in 0 .. MaxHeight + 1 /\ missed \in BOOLEAN /\ unbuilt \in BOOLEAN
  /\ lost \subseteq 1 .. MaxBlocks /\ known \subseteq Groups
  /\ reorgs \in Nat /\ wipes \in Nat /\ rebuilds \in Nat /\ faults \in Nat

Locals ==
  /\ tick \in Tick
  /\ tick.pc = "idle" => tick = Idle
  /\ tick.pc \in Clustering => job = "clusters" /\ tick.hi <= MaxHeight /\ tick.read \subseteq Groups
  /\ tick.pc \in Claiming => job = "claims" /\ tick.hi <= MaxHeight /\ tick.read \subseteq Claim
  /\ tick.pc \in Claiming \ {"upper"} => tick.up <= tick.hi
  /\ tick.pc \in Weighing => job = "weights" /\ tick.fork = MaxHeight + 1
  /\ tick.pc = "merge" => \A s \in tick.todo : s # {} /\ s \subseteq Addr
  /\ tick.pc = "weigh" => tick.todo \subseteq 1 .. MaxBlocks

Types == IndexTypes /\ TableTypes /\ GhostTypes /\ Locals

LEMMA Parameters ==
  /\ Addr \subseteq Nat /\ Groups \subseteq SUBSET Addr
  /\ MaxReorgDepth \in Nat /\ PollEnd \in Nat /\ Fresh \in Nat /\ MaxTime \in Nat \ {0}
  /\ SeedReplay \in Nat \ {0}
  /\ MaxHeight \in Nat /\ MaxBlocks \in Nat
  /\ MaxReorgs \in Nat /\ MaxWipes \in Nat /\ MaxRebuilds \in Nat /\ MaxFaults \in Nat
  /\ None \notin Addr /\ None \notin Nat
  BY WatermarkAssumption DEF WatermarkAssumption, None

LEMMA IdleType == Idle \in Tick /\ Nowhere \in Assignment
  BY Parameters DEF Idle, Tick, Nowhere, Assignment

(* The blocks in a range of heights, and the votes and groups among them.  *)
LEMMA AboveFacts ==
  ASSUME IndexTypes, NEW lo \in Nat, NEW hi \in Nat
  PROVE  /\ \A b \in Above(lo, hi) : b \in Block
         /\ VotesIn(Above(lo, hi)) \subseteq 1 .. MaxBlocks
         /\ GroupsIn(Above(lo, hi)) \subseteq Groups
<1>1. \A b \in Above(lo, hi) : b \in Block
  BY DEF IndexTypes, Above, Smaller, Tip
<1>2. VotesIn(Above(lo, hi)) \subseteq 1 .. MaxBlocks
  BY <1>1 DEF VotesIn, Block
<1>3. GroupsIn(Above(lo, hi)) \subseteq Groups
  BY <1>1 DEF GroupsIn, Block, Item
<1> QED
  BY <1>1, <1>2, <1>3

LEMMA TypesInit == Init => Types
<1> SUFFICES ASSUME Init PROVE Types
  OBVIOUS
<1>1. IndexTypes
  BY Parameters DEF Init, IndexTypes
<1>3. TableTypes
  BY DEF Init, TableTypes, Assignment
<1>4. GhostTypes
  <2>1. /\ fork = MaxHeight + 1 /\ missed = FALSE /\ unbuilt = FALSE /\ lost = {} /\ known = {}
        /\ reorgs = 0 /\ wipes = 0 /\ rebuilds = 0 /\ faults = 0
    BY DEF Init
  <2>2. fork \in 0 .. MaxHeight + 1
    BY <2>1, Parameters
  <2>3. missed \in BOOLEAN /\ unbuilt \in BOOLEAN
    BY <2>1
  <2>4. lost \subseteq 1 .. MaxBlocks /\ known \subseteq Groups
    BY <2>1
  <2>5. reorgs \in Nat /\ wipes \in Nat /\ rebuilds \in Nat /\ faults \in Nat
    BY <2>1
  <2> QED
    BY <2>2, <2>3, <2>4, <2>5 DEF GhostTypes
<1>2. Locals
  BY IdleType DEF Init, Locals, Idle, Clustering, Claiming, Weighing
<1> QED
  BY <1>1, <1>2, <1>3, <1>4 DEF Types

(* Only the indexer and the clock change the index, and only a job its     *)
(* tables.                                                                 *)
LEMMA JobsReadTheIndex ==
  ASSUME RebuildStart \/ TickStep \/ TickFails \/ UNCHANGED vars
  PROVE  UNCHANGED <<job, blocks, made, now>>
<1>1. CASE RebuildStart
  BY <1>1 DEF RebuildStart, index
<1>2. CASE TickFails
  BY <1>2 DEF TickFails, index
<1>3. CASE UNCHANGED vars
  BY <1>3 DEF vars, index
<1>4. CASE TickStart
  BY <1>4 DEF TickStart, index
<1>5. CASE CoSpendGroups \/ ReadAssigned \/ FlushPending \/ SaveWatermark \/ Scan \/ Truncate \/ Fill
  BY <1>5 DEF CoSpendGroups, ReadAssigned, FlushPending, SaveWatermark, Scan, Truncate, Fill, index
<1>6. CASE \E s \in SUBSET Addr : MergeComponent(s)
  BY <1>6 DEF MergeComponent, index
<1>7. CASE BatchUpper \/ LoadVotes \/ InsertClaims \/ SaveUpper
  BY <1>7 DEF BatchUpper, LoadVotes, InsertClaims, SaveUpper, index
<1>8. CASE ReadAnchor \/ ReadPolls \/ MarkPollComputed
  BY <1>8 DEF ReadAnchor, ReadPolls, MarkPollComputed, index
<1>9. CASE \E v \in 1 .. MaxBlocks : Weigh(v)
  BY <1>9 DEF Weigh, index
<1> QED
  BY <1>1, <1>2, <1>3, <1>4, <1>5, <1>6, <1>7, <1>8, <1>9 DEF TickStep

LEMMA CutBlocks ==
  ASSUME IndexTypes, NEW to \in 0 .. Tip, Cut(to)
  PROVE  /\ blocks' \in Seq(Block) /\ Len(blocks') = to
         /\ \A h \in 1 .. to : blocks'[h] = blocks[h]
<1>1. blocks \in Seq(Block) /\ to \in 0 .. Len(blocks) /\ blocks' = SubSeq(blocks, 1, to)
  BY DEF IndexTypes, Cut, Tip
<1>2. to = 0 \/ to \in 1 .. Len(blocks)
  BY <1>1
<1>3. CASE to = 0
  <2>1. SubSeq(blocks, 1, 0) = << >>
    BY <1>1
  <2> QED
    BY <1>1, <1>3, <2>1
<1>4. CASE to \in 1 .. Len(blocks)
  BY <1>1, <1>4
<1> QED
  BY <1>2, <1>3, <1>4

LEMMA RollBackWithin ==
  ASSUME IndexTypes, NEW to \in Height, RollBack(to) \/ Wipe(to)
  PROVE  to \in 0 .. Tip /\ to < Tip
<1>1. Tip \in Nat /\ MaxReorgDepth \in Nat /\ to \in Nat
  BY Parameters DEF IndexTypes, Tip, Height
<1>2. CASE RollBack(to)
  <2>1. to \in Larger(0, Tip - MaxReorgDepth) .. Tip - 1
    BY <1>2 DEF RollBack
  <2> QED
    BY <1>1, <2>1 DEF Larger
<1>3. CASE Wipe(to)
  <2>1. to \in 0 .. Tip - 1
    BY <1>3 DEF Wipe
  <2> QED
    BY <1>1, <2>1
<1> QED
  BY <1>2, <1>3

LEMMA IndexTypesStep ==
  ASSUME IndexTypes, [Next]_vars
  PROVE  IndexTypes'
<1>1. CASE ClockTicks
  BY <1>1, Parameters DEF IndexTypes, ClockTicks
<1>2. ASSUME NEW item \in Item, NEW time \in 1 .. MaxTime, Apply(item, time)
      PROVE  IndexTypes'
  <2>1. /\ blocks' = Append(blocks, [id |-> made + 1, time |-> time, item |-> item])
        /\ made' = made + 1 /\ made < MaxBlocks /\ Len(blocks) < MaxHeight
        /\ UNCHANGED <<job, now>>
    BY <1>2 DEF Apply, Tip
  <2>2. made' \in 0 .. MaxBlocks /\ made + 1 \in 1 .. MaxBlocks
    BY <2>1, Parameters DEF IndexTypes
  <2>3. [id |-> made + 1, time |-> time, item |-> item] \in Block
    BY <2>2 DEF Block
  <2>4. blocks' \in Seq(Block) /\ Len(blocks') = Len(blocks) + 1
    BY <2>1, <2>3 DEF IndexTypes
  <2> QED
    BY <2>1, <2>2, <2>4, Parameters DEF IndexTypes
<1>3. ASSUME NEW to \in Height, RollBack(to) \/ Wipe(to)
      PROVE  IndexTypes'
  <2>1. Cut(to) /\ UNCHANGED <<job, made, now>>
    BY <1>3 DEF RollBack, Wipe
  <2>2. to \in 0 .. Tip
    BY <1>3, RollBackWithin
  <2>3. blocks' \in Seq(Block) /\ Len(blocks') = to
    BY <2>1, <2>2, CutBlocks
  <2>4. to <= MaxHeight
    BY Parameters DEF Height
  <2> QED
    BY <2>1, <2>3, <2>4 DEF IndexTypes
<1>4. CASE RebuildStart \/ TickStep \/ TickFails \/ UNCHANGED vars
  BY <1>4, JobsReadTheIndex DEF IndexTypes
<1> QED
  BY <1>1, <1>2, <1>3, <1>4 DEF Next

(* A tick of a job behind a watermark, as it begins.                       *)
Begun(rebuild, lo) ==
  [Idle EXCEPT !.pc = IF rebuild THEN "scan" ELSE IF job = "clusters" THEN "groups" ELSE "upper",
               !.lo = IF rebuild THEN 0 ELSE lo, !.hi = Tip, !.fork = fork]

(* What mergeGroups reads of the assignments, and the components it takes  *)
(* up.                                                                     *)
Found == [a \in Addr |-> IF a \in UNION tick.read THEN cluster[a] ELSE None]
Unsettled ==
  {s \in Components(tick.read \cup Assigned(Found)) : ~ \E c \in Addr : \A a \in s : Found[a] = c}

LEMMA AssignedRead ==
  ASSUME ReadAssigned
  PROVE  /\ tick.pc = "assigned" /\ UNCHANGED <<job, cluster, known>>
         /\ tick' = [tick EXCEPT !.pc = "merge", !.of = Found, !.todo = Unsettled]
  BY DEF ReadAssigned, Found, Unsettled, index, tables, ghosts

LEMMA ToIdle ==
  ASSUME tick' = Idle
  PROVE  Locals'
  BY IdleType DEF Locals, Idle, Clustering, Claiming, Weighing

LEMMA LocalsStep ==
  ASSUME Types, [Next]_vars
  PROVE  Locals'
<1> USE DEF Types, Clustering, Claiming, Weighing
<1>0. UNCHANGED <<job, tick>> => Locals'
  BY DEF Locals
<1>1. CASE ClockTicks \/ UNCHANGED vars
  BY <1>0, <1>1 DEF ClockTicks, vars, index
<1>2. ASSUME NEW item \in Item, NEW time \in 1 .. MaxTime, Apply(item, time)
      PROVE  Locals'
  BY <1>0, <1>2 DEF Apply
<1>3. ASSUME NEW to \in Height, RollBack(to) \/ Wipe(to)
      PROVE  Locals'
  BY <1>0, <1>3 DEF RollBack, Wipe
<1>4. CASE TickFails
  BY <1>4, ToIdle DEF TickFails
<1>5. CASE RebuildStart
  <2>1. tick' = [Idle EXCEPT !.pc = "scan", !.hi = Tip, !.fork = fork] /\ job' = job /\ job = "clusters"
    BY <1>5 DEF RebuildStart
  <2>2. Tip \in Nat /\ Tip <= MaxHeight /\ fork \in Nat
    BY Parameters DEF IndexTypes, GhostTypes, Tip
  <2> QED
    BY <2>1, <2>2, IdleType DEF Locals, Idle, Tick
<1>6. CASE TickStart
  <2>1. UNCHANGED job
    BY <1>6, JobsReadTheIndex DEF TickStep
  <2>2. CASE UNCHANGED tick
    BY <1>0, <2>1, <2>2
  <2>3. CASE tick' # tick
    <3> DEFINE w == IF watermark # None THEN watermark
                  ELSE IF job = "clusters" THEN Larger(0, Tip - SeedReplay) ELSE 0
               lo == Below(w)
               rebuild == job = "clusters" /\ watermark = None /\ \A a \in Addr : cluster[a] = None
    <3>1. tick' = Begun(rebuild, lo)
          /\ job \in {"clusters", "claims"}
      BY <1>6, <2>3 DEF TickStart, Begun
    <3>2. Tip \in Nat /\ Tip <= MaxHeight /\ fork \in Nat
      BY Parameters DEF IndexTypes, GhostTypes, Tip
    <3>3. lo \in Nat
      <4>1. w \in Nat /\ MaxReorgDepth \in Nat
        BY <3>2, Parameters DEF TableTypes, Height, Larger
      <4> HIDE DEF w
      <4> QED
        BY <3>2, <4>1 DEF Below, Larger, Smaller
    <3>4. rebuild => job = "clusters"
      OBVIOUS
    <3> HIDE DEF lo, rebuild
    <3> DEFINE p == IF rebuild THEN "scan" ELSE IF job = "clusters" THEN "groups" ELSE "upper"
               l == IF rebuild THEN 0 ELSE lo
    <3>5. /\ p \in {"scan", "groups", "upper"} /\ l \in Nat
          /\ p \in {"scan", "groups"} => job = "clusters"
          /\ p = "upper" => job = "claims"
      BY <3>1, <3>3, <3>4
    <3>6. tick' = [Idle EXCEPT !.pc = p, !.lo = l, !.hi = Tip, !.fork = fork]
      BY <3>1 DEF Begun
    <3> HIDE DEF p, l
    <3>7. tick' = [pc |-> p, lo |-> l, hi |-> Tip, up |-> 0, read |-> {}, todo |-> {},
                   of |-> Nowhere, pending |-> Nowhere, fork |-> fork]
      BY <3>6 DEF Idle
    <3>8. tick' \in Tick
      BY <3>2, <3>5, <3>7, IdleType DEF Tick, Clustering, Claiming
    <3> QED
      BY <2>1, <3>2, <3>5, <3>7, <3>8 DEF Locals, Clustering, Claiming, Weighing
  <2> QED
    BY <2>2, <2>3
<1>7. CASE CoSpendGroups
  <2> DEFINE read == InputGroups(Above(tick.lo, tick.hi))
  <2>1. /\ tick' = [tick EXCEPT !.pc = IF read = {} THEN "save" ELSE "assigned", !.read = read]
        /\ UNCHANGED job /\ tick.pc = "groups"
    BY <1>7, JobsReadTheIndex DEF CoSpendGroups, TickStep
  <2>2. read \subseteq Groups
    BY AboveFacts DEF InputGroups, Locals, Tick
  <2> HIDE DEF read
  <2> QED
    BY <2>1, <2>2 DEF Locals, Tick
<1>8. CASE ReadAssigned
  <2> DEFINE of == Found
             todo == Unsettled
  <2>1. /\ tick' = [tick EXCEPT !.pc = "merge", !.of = of, !.todo = todo]
        /\ tick.pc = "assigned" /\ UNCHANGED job
    BY <1>8, AssignedRead
  <2>2. of \in Assignment
    BY DEF Found, TableTypes, Assignment
  <2>3. ASSUME NEW s \in todo PROVE s # {} /\ s \subseteq Addr
    <3>0. s \in Components(tick.read \cup Assigned(of))
      BY DEF Unsettled
    <3>1. s # {} /\ s \subseteq UNION (tick.read \cup Assigned(of))
      BY <3>0, ComponentWithin, Zenon
    <3>2. UNION Assigned(of) \subseteq Addr
      <4> HIDE DEF of
      <4> QED
        BY <2>2 DEF Assigned, Assignment
    <3>3. UNION tick.read \subseteq Addr
      BY <2>1, Parameters DEF Locals
    <3> QED
      BY <3>1, <3>2, <3>3
  <2> HIDE DEF of, todo
  <2> QED
    BY <2>1, <2>2, <2>3 DEF Locals, Tick
<1>9. ASSUME NEW s \in SUBSET Addr, MergeComponent(s)
      PROVE  Locals'
  <2>1. PICK target \in Addr : tick' = [tick EXCEPT !.todo = @ \ {s}, !.pending = Attach(s, target)]
    <3>1. CASE Clusters(s) = {} /\ tick' = [tick EXCEPT !.todo = @ \ {s}, !.pending = Attach(s, Min(s))]
      <4>1. s # {} /\ s \subseteq Nat
        BY <1>9, Parameters DEF MergeComponent, Locals
      <4>2. Min(s) \in Addr
        BY <4>1, LeastNatural
      <4> QED
        BY <3>1, <4>2
    <3>2. CASE \E target \in Clusters(s) : tick' = [tick EXCEPT !.todo = @ \ {s}, !.pending = Attach(s, target)]
      <4>1. Clusters(s) \subseteq Addr
        BY DEF Clusters, Locals, Tick, Assignment
      <4> QED
        BY <3>2, <4>1
    <3> QED
      BY <1>9, <3>1, <3>2, Zenon DEF MergeComponent
  <2>2. Attach(s, target) \in Assignment
    BY DEF Attach, Locals, Tick, Assignment
  <2>3. UNCHANGED job /\ tick.pc = "merge"
    BY <1>9 DEF MergeComponent
  <2> QED
    BY <2>1, <2>2, <2>3 DEF Locals, Tick
<1>10. CASE FlushPending \/ Truncate \/ Fill
  <2>1. /\ UNCHANGED job
        /\ \/ tick.pc = "merge" /\ tick' = [tick EXCEPT !.pc = "save"]
           \/ tick.pc = "truncate" /\ tick' = [tick EXCEPT !.pc = "fill"]
           \/ tick.pc = "fill" /\ tick' = [tick EXCEPT !.pc = "save"]
    BY <1>10 DEF FlushPending, Truncate, Fill, Step
  <2> QED
    BY <2>1 DEF Locals, Tick
<1>11. CASE SaveWatermark
  BY <1>11, ToIdle DEF SaveWatermark
<1>12. CASE Scan
  <2>1. PICK some \in SUBSET GroupsIn(Above(tick.hi, Tip)) :
          /\ tick' = [tick EXCEPT !.pc = "truncate", !.read = InputGroups(Above(0, tick.hi)) \cup some,
                                  !.fork = Smaller(tick.fork, fork)]
          /\ tick.pc = "scan" /\ UNCHANGED job
    BY <1>12, JobsReadTheIndex DEF Scan, TickStep
  <2>2. tick.hi \in Nat /\ Tip \in Nat
    BY DEF Locals, Tick, IndexTypes, Tip
  <2>3. InputGroups(Above(0, tick.hi)) \cup some \subseteq Groups
    BY <2>2, AboveFacts DEF InputGroups
  <2>4. Smaller(tick.fork, fork) \in Nat
    BY DEF Smaller, Locals, Tick, GhostTypes
  <2> QED
    BY <2>1, <2>3, <2>4 DEF Locals, Tick
<1>13. CASE BatchUpper
  <2> DEFINE heights == {h \in 1 .. Smaller(tick.hi, Tip) : h > tick.lo /\ blocks[h].item = Vote}
             up == IF heights = {} THEN tick.hi ELSE Min(heights)
  <2>1. tick' = [tick EXCEPT !.pc = "votes", !.up = up] /\ tick.pc = "upper" /\ UNCHANGED job
    BY <1>13, JobsReadTheIndex DEF BatchUpper, TickStep
  <2>2. up \in Nat /\ up <= tick.hi
    <3>1. tick.hi \in Nat /\ \A h \in heights : h \in Nat /\ h <= tick.hi
      BY DEF Locals, Tick, IndexTypes, Tip, Smaller
    <3>2. heights # {} => Min(heights) \in heights
      <4> HIDE DEF heights
      <4> QED
        BY <3>1, LeastNatural
    <3> HIDE DEF heights
    <3> QED
      BY <3>1, <3>2
  <2> HIDE DEF up
  <2> QED
    BY <2>1, <2>2 DEF Locals, Tick
<1>14. CASE LoadVotes
  <2> DEFINE read == {[vote |-> blocks[h].id, height |-> h] :
          h \in {n \in 1 .. Smaller(tick.up, Tip) : n > tick.lo /\ blocks[n].item = Vote}}
  <2>1. tick' = [tick EXCEPT !.pc = "claim", !.read = read] /\ tick.pc = "votes" /\ UNCHANGED job
    BY <1>14, JobsReadTheIndex DEF LoadVotes, TickStep
  <2>2. read \subseteq Claim
    <3>1. ASSUME NEW h \in 1 .. Smaller(tick.up, Tip)
          PROVE  [vote |-> blocks[h].id, height |-> h] \in Claim
      <4>1. h \in 1 .. Len(blocks) /\ h \in Height
        BY Parameters DEF Locals, Tick, IndexTypes, Tip, Smaller, Height
      <4>2. blocks[h] \in Block
        BY <4>1 DEF IndexTypes
      <4> QED
        BY <4>1, <4>2 DEF Block, Claim
    <3> QED
      BY <3>1
  <2> HIDE DEF read
  <2> QED
    BY <2>1, <2>2 DEF Locals, Tick
<1>15. CASE InsertClaims
  <2>1. tick' = [tick EXCEPT !.pc = "saveUpper"] /\ tick.pc = "claim" /\ UNCHANGED job
    BY <1>15 DEF InsertClaims, Step
  <2> QED
    BY <2>1 DEF Locals, Tick
<1>16. CASE SaveUpper
  <2>1. CASE tick' = [tick EXCEPT !.pc = "upper", !.lo = tick.up, !.read = {}, !.fork = Larger(@, tick.up)]
    <3>1. UNCHANGED job /\ tick.pc = "saveUpper"
      BY <1>16, JobsReadTheIndex DEF SaveUpper, TickStep
    <3>2. Larger(tick.fork, tick.up) \in Nat
      BY DEF Larger, Locals, Tick
    <3> QED
      BY <2>1, <3>1, <3>2 DEF Locals, Tick
  <2>2. CASE tick' = Idle
    BY <2>2, ToIdle
  <2> QED
    BY <1>16, <2>1, <2>2 DEF SaveUpper
<1>17. CASE ReadAnchor
  <2>1. tick' = [Idle EXCEPT !.pc = "polls", !.hi = Anchor] /\ job = "weights" /\ UNCHANGED job
    BY <1>17, JobsReadTheIndex DEF ReadAnchor, TickStep
  <2>2. Anchor \in Nat
    <3>1. Tip > 0 => blocks[Tip].time \in Nat
      <4>1. Tip > 0 => blocks[Tip] \in Block
        BY DEF IndexTypes, Tip
      <4> QED
        BY <4>1 DEF Block
    <3> QED
      BY <3>1 DEF Anchor, IndexTypes
  <2> QED
    BY <2>1, <2>2, IdleType DEF Locals, Idle, Tick
<1>18. CASE ReadPolls
  <2>1. CASE tick' = [tick EXCEPT !.pc = "weigh", !.lo = IF PollEnd > tick.hi THEN 1 ELSE 0,
                                  !.todo = VotesIn(Above(0, Tip))]
    <3>1. UNCHANGED job /\ tick.pc = "polls"
      BY <1>18, JobsReadTheIndex DEF ReadPolls, TickStep
    <3>2. VotesIn(Above(0, Tip)) \subseteq 1 .. MaxBlocks
      BY AboveFacts DEF IndexTypes, Tip
    <3> QED
      BY <2>1, <3>1, <3>2 DEF Locals, Tick
  <2>2. CASE tick' = Idle
    BY <2>2, ToIdle
  <2> QED
    BY <1>18, <2>1, <2>2 DEF ReadPolls
<1>19. CASE MarkPollComputed
  BY <1>19, ToIdle DEF MarkPollComputed
<1>20. ASSUME NEW v \in 1 .. MaxBlocks, Weigh(v)
       PROVE  Locals'
  <2>1. tick' = [tick EXCEPT !.todo = @ \ {v}] /\ tick.pc = "weigh" /\ UNCHANGED job
    BY <1>20 DEF Weigh
  <2> QED
    BY <2>1 DEF Locals, Tick
<1> QED
  BY <1>1, <1>2, <1>3, <1>4, <1>5, <1>6, <1>7, <1>8, <1>9, <1>10, <1>11, <1>12, <1>13, <1>14,
     <1>15, <1>16, <1>17, <1>18, <1>19, <1>20 DEF Next, TickStep

(* Where a rebuild puts an address that has a component.                   *)
LEMMA LeastOfComponent ==
  ASSUME NEW K, K \subseteq Groups, NEW s \in Components(K)
  PROVE  Min(s) \in s /\ s \subseteq Addr
<1>1. s # {} /\ s \subseteq UNION K
  BY ComponentWithin, Zenon
<1>2. s \subseteq Nat /\ s \subseteq Addr
  BY <1>1, Parameters
<1> QED
  BY <1>1, <1>2, LeastNatural

LEMMA ChosenComponent ==
  ASSUME NEW K, NEW a \in UNION K
  PROVE  LET s == CHOOSE s \in Components(K) : a \in s IN s \in Components(K) /\ a \in s
<1>1. \E s \in Components(K) : a \in s
  BY ComponentOf
<1> QED
  BY <1>1, Zenon

LEMMA ClusterTypeStep ==
  ASSUME Types, TickStep
  PROVE  cluster' \in Assignment
<1> USE DEF Types
<1>1. CASE UNCHANGED cluster
  BY <1>1 DEF TableTypes
<1>2. ASSUME NEW s \in SUBSET Addr, MergeComponent(s)
      PROVE  cluster' \in Assignment
  <2>1. UNCHANGED cluster \/ \E target \in Clusters(s) : cluster' = Repoint(s, target)
    BY <1>2 DEF MergeComponent
  <2>2. Clusters(s) \subseteq Addr
    BY DEF Clusters, Locals, Tick, Assignment
  <2> QED
    BY <1>1, <2>1, <2>2 DEF Repoint, TableTypes, Assignment
<1>3. CASE FlushPending
  BY <1>3 DEF FlushPending, Locals, Tick, TableTypes, Assignment
<1>4. CASE Truncate
  BY <1>4, IdleType DEF Truncate
<1>5. CASE Fill
  <2> DEFINE put(a) == Min(CHOOSE s \in Components(tick.read) : a \in s)
  <2>1. cluster' = [a \in Addr |-> IF a \in UNION tick.read THEN put(a) ELSE cluster[a]]
    BY <1>5 DEF Fill
  <2>2. ASSUME NEW a \in UNION tick.read
        PROVE  put(a) \in Addr
    <3>1. tick.read \subseteq Groups
      BY <1>5 DEF Fill, Locals, Clustering
    <3> QED
      BY <3>1, ChosenComponent, LeastOfComponent
  <2> HIDE DEF put
  <2> QED
    BY <2>1, <2>2 DEF TableTypes, Assignment
<1>6. CASE TickStart
  BY <1>1, <1>6 DEF TickStart
<1>7. CASE CoSpendGroups \/ ReadAssigned \/ SaveWatermark \/ Scan
  BY <1>1, <1>7 DEF CoSpendGroups, ReadAssigned, SaveWatermark, Scan, tables
<1>8. CASE BatchUpper \/ LoadVotes \/ InsertClaims \/ SaveUpper
  BY <1>1, <1>8 DEF BatchUpper, LoadVotes, InsertClaims, SaveUpper, tables
<1>9. CASE ReadAnchor \/ ReadPolls \/ MarkPollComputed \/ \E v \in 1 .. MaxBlocks : Weigh(v)
  BY <1>1, <1>9 DEF ReadAnchor, ReadPolls, MarkPollComputed, Weigh, tables
<1> QED
  BY <1>2, <1>3, <1>4, <1>5, <1>6, <1>7, <1>8, <1>9 DEF TickStep

(* The other tables, as a step of a job leaves them.                       *)
LEMMA TablesStep ==
  ASSUME Types, TickStep
  PROVE  /\ watermark' \in {watermark, Tip, tick.up, tick.hi} /\ watermark' \in Height \cup {None}
         /\ claims' \in {claims, claims \cup tick.read} /\ claims' \subseteq Claim
         /\ weighed \subseteq weighed' /\ weighed' \subseteq 1 .. MaxBlocks
         /\ final' \in BOOLEAN
<1> USE DEF Types
<1>0. ASSUME UNCHANGED <<watermark, claims, weighed, final>>
      PROVE  /\ watermark' \in {watermark, Tip, tick.up, tick.hi} /\ watermark' \in Height \cup {None}
             /\ claims' \in {claims, claims \cup tick.read} /\ claims' \subseteq Claim
             /\ weighed \subseteq weighed' /\ weighed' \subseteq 1 .. MaxBlocks
             /\ final' \in BOOLEAN
  BY <1>0 DEF TableTypes
<1>1. CASE TickStart
  <2>1. watermark' \in {watermark, Tip} /\ UNCHANGED <<claims, weighed, final>>
    BY <1>1 DEF TickStart
  <2>2. Tip \in Height
    BY Parameters DEF IndexTypes, Tip, Height
  <2> QED
    BY <2>1, <2>2 DEF TableTypes
<1>2. CASE SaveWatermark
  <2>1. watermark' = tick.hi /\ UNCHANGED <<claims, weighed, final>> /\ tick.pc = "save"
    BY <1>2 DEF SaveWatermark
  <2>2. tick.hi \in Height
    BY <2>1 DEF Locals, Tick, Clustering, Height
  <2> QED
    BY <2>1, <2>2 DEF TableTypes
<1>3. CASE InsertClaims
  <2>1. claims' = claims \cup tick.read /\ UNCHANGED <<watermark, weighed, final>> /\ tick.pc = "claim"
    BY <1>3 DEF InsertClaims
  <2>2. tick.read \subseteq Claim
    BY <2>1 DEF Locals, Claiming
  <2> QED
    BY <2>1, <2>2 DEF TableTypes
<1>4. CASE SaveUpper
  <2>1. watermark' = tick.up /\ UNCHANGED <<claims, weighed, final>> /\ tick.pc = "saveUpper"
    BY <1>4 DEF SaveUpper
  <2>2. tick.up \in Height
    BY <2>1, Parameters DEF Locals, Tick, Claiming, Height
  <2> QED
    BY <2>1, <2>2 DEF TableTypes
<1>5. ASSUME NEW v \in 1 .. MaxBlocks, Weigh(v)
      PROVE  /\ UNCHANGED <<watermark, claims, final>>
             /\ weighed \subseteq weighed' /\ weighed' \subseteq 1 .. MaxBlocks
  BY <1>5 DEF Weigh, TableTypes
<1>6. CASE MarkPollComputed
  <2>1. UNCHANGED <<watermark, claims, weighed>> /\ final' = (Tip > 0 /\ tick.lo = 0)
    BY <1>6 DEF MarkPollComputed
  <2>2. final' \in BOOLEAN
    BY <2>1
  <2> QED
    BY <2>1, <2>2 DEF TableTypes
<1>7. CASE CoSpendGroups \/ ReadAssigned \/ FlushPending \/ Scan \/ Truncate \/ Fill
  BY <1>0, <1>7 DEF CoSpendGroups, ReadAssigned, FlushPending, Scan, Truncate, Fill, tables
<1>8. CASE \E s \in SUBSET Addr : MergeComponent(s)
  BY <1>0, <1>8 DEF MergeComponent
<1>9. CASE BatchUpper \/ LoadVotes \/ ReadAnchor \/ ReadPolls
  BY <1>0, <1>9 DEF BatchUpper, LoadVotes, ReadAnchor, ReadPolls, tables
<1>10. CASE \E v \in 1 .. MaxBlocks : Weigh(v)
  BY <1>5, <1>10 DEF TableTypes
<1> QED
  BY <1>1, <1>2, <1>3, <1>4, <1>6, <1>7, <1>8, <1>9, <1>10 DEF TickStep

LEMMA TableTypesStep ==
  ASSUME Types, [Next]_vars
  PROVE  TableTypes'
<1>1. CASE TickStep
  BY <1>1, ClusterTypeStep, TablesStep DEF TableTypes
<1>2. ASSUME UNCHANGED tables
      PROVE  TableTypes'
  BY <1>2 DEF TableTypes, Types, tables
<1>3. CASE ClockTicks \/ RebuildStart \/ TickFails \/ UNCHANGED vars
  BY <1>2, <1>3 DEF ClockTicks, RebuildStart, TickFails, vars
<1>4. ASSUME NEW item \in Item, NEW time \in 1 .. MaxTime, Apply(item, time)
      PROVE  TableTypes'
  BY <1>2, <1>4 DEF Apply
<1>5. ASSUME NEW to \in Height, RollBack(to) \/ Wipe(to)
      PROVE  TableTypes'
  <2>1. /\ Cut(to) /\ UNCHANGED <<watermark, cluster>> /\ final' = (final /\ to > 0)
    BY <1>5 DEF RollBack, Wipe
  <2>2. claims' \subseteq claims /\ weighed' \subseteq weighed
    BY <2>1 DEF Cut
  <2>3. final' \in BOOLEAN
    BY <2>1
  <2> QED
    BY <2>1, <2>2, <2>3 DEF TableTypes, Types
<1> QED
  BY <1>1, <1>3, <1>4, <1>5 DEF Next

LEMMA ForkTypeStep ==
  ASSUME Types, [Next]_vars
  PROVE  fork' \in 0 .. MaxHeight + 1
<1> USE DEF Types
<1>0. fork \in 0 .. MaxHeight + 1 /\ MaxHeight \in Nat
  BY Parameters DEF GhostTypes
<1>1. ASSUME NEW to \in Height, RollBack(to) \/ Wipe(to)
      PROVE  fork' \in 0 .. MaxHeight + 1
  <2>1. fork' = Smaller(fork, to)
    BY <1>1 DEF RollBack, Wipe, Cut
  <2> QED
    BY <1>0, <2>1 DEF Smaller, Height
<1>2. CASE RebuildStart
  BY <1>0, <1>2 DEF RebuildStart
<1>3. CASE TickFails
  <2>1. fork' = Smaller(tick.fork, fork)
    BY <1>3 DEF TickFails
  <2> QED
    BY <1>0, <2>1 DEF Smaller, Locals, Tick
<1>4. CASE TickStart
  <2>1. fork' \in {fork, MaxHeight + 1}
    BY <1>4 DEF TickStart
  <2> QED
    BY <1>0, <2>1
<1>5. CASE Scan
  <2>1. fork' \in {Tip, MaxHeight + 1}
    BY <1>5 DEF Scan
  <2> QED
    BY <1>0, <2>1 DEF IndexTypes, Tip
<1>6. CASE ClockTicks \/ UNCHANGED vars \/ \E item \in Item, time \in 1 .. MaxTime : Apply(item, time)
  BY <1>0, <1>6 DEF ClockTicks, vars, ghosts, Apply
<1>7. CASE CoSpendGroups \/ ReadAssigned \/ FlushPending \/ SaveWatermark \/ Truncate \/ Fill
  BY <1>0, <1>7 DEF CoSpendGroups, ReadAssigned, FlushPending, SaveWatermark, Truncate, Fill, ghosts
<1>8. CASE BatchUpper \/ LoadVotes \/ InsertClaims \/ SaveUpper \/ \E s \in SUBSET Addr : MergeComponent(s)
  BY <1>0, <1>8 DEF BatchUpper, LoadVotes, InsertClaims, SaveUpper, MergeComponent, ghosts
<1>9. CASE ReadAnchor \/ ReadPolls \/ MarkPollComputed \/ \E v \in 1 .. MaxBlocks : Weigh(v)
  BY <1>0, <1>9 DEF ReadAnchor, ReadPolls, MarkPollComputed, Weigh, ghosts
<1> QED
  BY <1>1, <1>2, <1>3, <1>4, <1>5, <1>6, <1>7, <1>8, <1>9 DEF Next, TickStep

(* What else the jobs leave of the history variables.                      *)
LEMMA GhostsStep ==
  ASSUME Types, TickStep
  PROVE  /\ UNCHANGED <<lost, known, reorgs, wipes, rebuilds>>
         /\ faults' \in {faults, faults + 1}
         /\ TickStart \/ (missed' = missed /\ unbuilt' = unbuilt)
<1>1. CASE TickStart
  BY <1>1 DEF TickStart, counters
<1>2. CASE CoSpendGroups \/ ReadAssigned \/ FlushPending \/ SaveWatermark \/ Truncate \/ Fill \/ Scan
  BY <1>2 DEF CoSpendGroups, ReadAssigned, FlushPending, SaveWatermark, Truncate, Fill, Scan, ghosts, counters
<1>3. CASE BatchUpper \/ LoadVotes \/ InsertClaims \/ SaveUpper \/ \E s \in SUBSET Addr : MergeComponent(s)
  BY <1>3 DEF BatchUpper, LoadVotes, InsertClaims, SaveUpper, MergeComponent, ghosts, counters
<1>4. CASE ReadAnchor \/ ReadPolls \/ MarkPollComputed \/ \E v \in 1 .. MaxBlocks : Weigh(v)
  BY <1>4 DEF ReadAnchor, ReadPolls, MarkPollComputed, Weigh, ghosts, counters
<1> QED
  BY <1>1, <1>2, <1>3, <1>4 DEF TickStep

LEMMA GhostTypesStep ==
  ASSUME Types, [Next]_vars
  PROVE  GhostTypes'
<1> USE DEF Types
<1>0. fork' \in 0 .. MaxHeight + 1
  BY ForkTypeStep
<1>1. CASE TickStep
  <2>1. missed' \in BOOLEAN /\ unbuilt' \in BOOLEAN
    <3>1. CASE TickStart
      BY <3>1 DEF TickStart
    <3>2. CASE missed' = missed /\ unbuilt' = unbuilt
      BY <3>2 DEF GhostTypes
    <3> QED
      BY <1>1, <3>1, <3>2, GhostsStep
  <2>2. lost' \subseteq 1 .. MaxBlocks /\ known' \subseteq Groups
    BY <1>1, GhostsStep DEF GhostTypes
  <2>3. reorgs' \in Nat /\ wipes' \in Nat /\ rebuilds' \in Nat /\ faults' \in Nat
    BY <1>1, GhostsStep DEF GhostTypes
  <2> QED
    BY <1>0, <2>1, <2>2, <2>3 DEF GhostTypes
<1>2. CASE ClockTicks \/ UNCHANGED vars
  BY <1>2 DEF ClockTicks, vars, ghosts, counters, GhostTypes
<1>3. ASSUME NEW item \in Item, NEW time \in 1 .. MaxTime, Apply(item, time)
      PROVE  GhostTypes'
  <2>1. UNCHANGED <<fork, missed, unbuilt, lost, reorgs, wipes, rebuilds, faults>> /\ known' = known \cup (Groups \cap {item})
    BY <1>3 DEF Apply, counters
  <2> QED
    BY <2>1 DEF GhostTypes
<1>4. ASSUME NEW to \in Height, RollBack(to) \/ Wipe(to)
      PROVE  GhostTypes'
  <2>1. lost' \in {lost, 1 .. MaxBlocks, lost \cup VotesIn(Above(to, Tip))}
    BY <1>4 DEF RollBack, Wipe
  <2>2. UNCHANGED <<missed, unbuilt, known, rebuilds, faults>> /\ reorgs' \in {reorgs, reorgs + 1} /\ wipes' \in {wipes, wipes + 1}
    BY <1>4 DEF RollBack, Wipe
  <2>3. VotesIn(Above(to, Tip)) \subseteq 1 .. MaxBlocks
    <3>1. to \in Nat /\ Tip \in Nat
      BY DEF IndexTypes, Tip, Height
    <3> QED
      BY <3>1, AboveFacts
  <2>4. lost' \subseteq 1 .. MaxBlocks
    BY <2>1, <2>3 DEF GhostTypes
  <2> QED
    BY <1>0, <2>2, <2>4 DEF GhostTypes
<1>5. CASE RebuildStart
  <2>1. UNCHANGED <<missed, unbuilt, lost, known, reorgs, wipes, faults>> /\ rebuilds' = rebuilds + 1
    BY <1>5 DEF RebuildStart
  <2> QED
    BY <1>0, <2>1 DEF GhostTypes
<1>6. CASE TickFails
  <2>1. UNCHANGED <<missed, lost, known, reorgs, wipes, rebuilds>> /\ faults' = faults + 1
    BY <1>6 DEF TickFails
  <2>2. unbuilt' \in BOOLEAN
    BY <1>6 DEF TickFails
  <2> QED
    BY <1>0, <2>1, <2>2 DEF GhostTypes
<1> QED
  BY <1>1, <1>2, <1>3, <1>4, <1>5, <1>6 DEF Next

LEMMA TypesStep ==
  ASSUME Types, [Next]_vars
  PROVE  Types'
<1>1. IndexTypes' /\ TableTypes' /\ GhostTypes' /\ Locals'
  BY IndexTypesStep, TableTypesStep, GhostTypesStep, LocalsStep DEF Types
<1> QED
  BY <1>1 DEF Types

LEMMA AlwaysTypes == Spec => []Types
<1>1. Init => Types
  BY TypesInit
<1>2. Types /\ [Next]_vars => Types'
  BY TypesStep
<1> QED
  BY <1>1, <1>2, PTL DEF Spec, Safety

(* Every variable stays within its type.                                   *)
THEOREM JobTypes == Spec => []TypeOK
<1>1. Types => TypeOK
  <2> SUFFICES ASSUME Types PROVE TypeOK
    OBVIOUS
  <2> USE DEF Types
  <2>1. Range(blocks) \subseteq [id : 1 .. MaxBlocks, time : 1 .. MaxTime, item : Item]
    <3>1. \A h \in DOMAIN blocks : blocks[h] \in Block
      BY DEF IndexTypes
    <3>2. \A b \in Range(blocks) : b \in Block
      BY <3>1, Zenon DEF Range
    <3> QED
      BY <3>2 DEF Block
  <2>2. {final, missed, unbuilt} \subseteq BOOLEAN
    BY DEF TableTypes, GhostTypes
  <2>3. fork \in Height \cup {MaxHeight + 1}
    BY Parameters DEF GhostTypes, Height
  <2>4. tick.pc \in {"idle", "groups", "assigned", "merge", "save", "scan", "truncate", "fill",
                  "upper", "votes", "claim", "saveUpper", "polls", "weigh", "active", "closed"}
    BY DEF Locals, Tick, Clustering, Claiming, Weighing
  <2>5. job \in Jobs /\ made \in 0 .. MaxBlocks /\ now \in 1 .. MaxTime /\ Len(blocks) <= MaxHeight
    BY DEF IndexTypes
  <2>6. /\ watermark \in Height \cup {None} /\ cluster \in [Addr -> Addr \cup {None}]
        /\ claims \subseteq [vote : 1 .. MaxBlocks, height : Height] /\ weighed \subseteq 1 .. MaxBlocks
    BY DEF TableTypes, Assignment, Claim
  <2>7. lost \subseteq 1 .. MaxBlocks /\ known \subseteq Groups
    BY DEF GhostTypes
  <2> QED
    BY <2>1, <2>2, <2>3, <2>4, <2>5, <2>6, <2>7 DEF TypeOK
<1> QED
  BY <1>1, AlwaysTypes, PTL

-----------------------------------------------------------------------------
(* The window.  As long as blocks were replaced once at most and never     *)
(* wiped, neither the watermark nor what a tick under way will save as     *)
(* such is further than MaxReorgDepth above a fork not read again yet.     *)

Behind == Clustering \cup Claiming

Near ==
  /\ watermark <= fork + MaxReorgDepth
  /\ tick.pc \in Behind =>
       /\ tick.hi <= fork + MaxReorgDepth /\ (tick.hi <= Tip \/ fork <= Tip)
       /\ watermark <= tick.fork + MaxReorgDepth
  /\ reorgs = 0 => watermark <= Tip /\ (tick.pc \in Behind => tick.hi <= Tip)

Window ==
  /\ wipes = 0 /\ reorgs <= 1 => Near
  /\ WindowCovers

LEMMA Numbers ==
  ASSUME Types
  PROVE  /\ watermark \in Int /\ fork \in Nat /\ fork <= MaxHeight + 1
         /\ Tip \in Nat /\ Tip <= MaxHeight /\ MaxReorgDepth \in Nat /\ MaxHeight \in Nat
         /\ tick.hi \in Nat /\ tick.fork \in Nat /\ tick.up \in Nat /\ tick.lo \in Nat
         /\ reorgs \in Nat /\ wipes \in Nat /\ rebuilds \in Nat /\ faults \in Nat
         /\ (watermark = None \/ watermark \in 0 .. MaxHeight)
<1> USE Parameters DEF Types
<1>1. watermark \in Int /\ (watermark = None \/ watermark \in 0 .. MaxHeight)
  BY DEF TableTypes, Height, None
<1>2. Tip \in Nat /\ Tip <= MaxHeight
  BY DEF IndexTypes, Tip
<1>3. tick.hi \in Nat /\ tick.fork \in Nat /\ tick.up \in Nat /\ tick.lo \in Nat
  BY DEF Locals, Tick
<1>4. fork \in Nat /\ fork <= MaxHeight + 1
  BY DEF GhostTypes
<1>5. reorgs \in Nat /\ wipes \in Nat /\ rebuilds \in Nat /\ faults \in Nat
  BY DEF GhostTypes
<1> QED
  BY <1>1, <1>2, <1>3, <1>4, <1>5

(* What it takes of a step that the window does not see.                   *)
LEMMA WindowStays ==
  ASSUME Types, Window,
         UNCHANGED <<blocks, watermark, fork, missed, reorgs, wipes, rebuilds>>,
         faults' \in {faults, faults + 1},
         \/ tick'.pc \notin Behind
         \/ /\ tick.pc \in Behind /\ tick'.hi = tick.hi /\ tick'.fork = tick.fork
  PROVE  Window'
<1>1. Tip' = Tip
  BY DEF Tip
<1>2. (wipes = 0 /\ reorgs <= 1 => Near)'
  BY <1>1 DEF Window, Near
<1>3. WindowCovers'
  BY DEF Window, WindowCovers
<1> QED
  BY <1>2, <1>3 DEF Window

LEMMA WindowStep ==
  ASSUME Types, Types', Window, [Next]_vars
  PROVE  Window'
<1>0. /\ watermark \in Int /\ fork \in Nat /\ fork <= MaxHeight + 1
      /\ Tip \in Nat /\ Tip <= MaxHeight /\ MaxReorgDepth \in Nat /\ MaxHeight \in Nat
      /\ tick.hi \in Nat /\ tick.fork \in Nat /\ tick.up \in Nat /\ tick.lo \in Nat
      /\ reorgs \in Nat /\ wipes \in Nat /\ rebuilds \in Nat /\ faults \in Nat
      /\ (watermark = None \/ watermark \in 0 .. MaxHeight)
  BY Numbers
<1>a. ASSUME tick' = Idle
      PROVE  tick'.pc = "idle" /\ tick'.pc \notin Behind
  BY <1>a DEF Idle, Behind, Clustering, Claiming
<1>1. CASE ClockTicks
  BY <1>1, WindowStays DEF ClockTicks, tables, ghosts, counters
<1>2. CASE UNCHANGED vars
  BY <1>2, WindowStays DEF vars, index, tables, ghosts, counters
<1>3. ASSUME NEW item \in Item, NEW time \in 1 .. MaxTime, Apply(item, time)
      PROVE  Window'
  <2>1. /\ UNCHANGED <<watermark, tick, fork, missed, reorgs, wipes, rebuilds, faults>>
        /\ blocks' = Append(blocks, [id |-> made + 1, time |-> time, item |-> item])
    BY <1>3 DEF Apply, tables, counters
  <2>2. blocks \in Seq(Block) /\ [id |-> made + 1, time |-> time, item |-> item] \in Block
    <3>1. made \in Nat /\ made < MaxBlocks
      BY <1>3 DEF Apply, Types, IndexTypes
    <3> QED
      BY <3>1, Parameters DEF Block, Types, IndexTypes
  <2>3. Tip' = Tip + 1
    BY <2>1, <2>2 DEF Tip
  <2>4. (wipes = 0 /\ reorgs <= 1 => Near)'
    BY <1>0, <2>1, <2>3 DEF Window, Near
  <2> QED
    BY <2>1, <2>4 DEF Window, WindowCovers
<1>4. ASSUME NEW to \in Height, RollBack(to)
      PROVE  Window'
  <2>1. /\ UNCHANGED <<watermark, tick, missed, wipes, rebuilds, faults>>
        /\ reorgs' = reorgs + 1 /\ fork' = Smaller(fork, to) /\ Cut(to)
        /\ to \in Larger(0, Tip - MaxReorgDepth) .. Tip - 1
    BY <1>4 DEF RollBack, Cut
  <2>2. to \in Nat /\ to < Tip /\ Tip <= to + MaxReorgDepth
    BY <1>0, <2>1 DEF Larger
  <2>3. Tip' = to
    BY <1>0, <2>1, <2>2, CutBlocks DEF Types, Tip
  <2>4. fork' <= fork /\ fork' <= to /\ (fork' = fork \/ fork' = to)
    BY <1>0, <2>1, <2>2 DEF Smaller
  <2>5. (wipes = 0 /\ reorgs <= 1 => Near)'
    BY <1>0, <2>1, <2>2, <2>3, <2>4 DEF Window, Near
  <2>6. WindowCovers'
    BY <1>0, <2>1 DEF Window, WindowCovers
  <2> QED
    BY <2>1, <2>5, <2>6 DEF Window
<1>5. ASSUME NEW to \in Height, Wipe(to)
      PROVE  Window'
  <2>1. UNCHANGED <<watermark, tick, missed, reorgs, rebuilds, faults>> /\ wipes' = wipes + 1
    BY <1>5 DEF Wipe
  <2>2. wipes' > 0 /\ wipes' # 0
    BY <1>0, <2>1
  <2> QED
    BY <2>1, <2>2 DEF Window, WindowCovers
<1>6. CASE RebuildStart
  <2>1. /\ tick' = [Idle EXCEPT !.pc = "scan", !.hi = Tip, !.fork = fork]
        /\ fork' = MaxHeight + 1 /\ rebuilds' = rebuilds + 1
        /\ UNCHANGED <<blocks, watermark, missed, reorgs, wipes, faults>>
    BY <1>6 DEF RebuildStart, index, tables
  <2>2. tick'.hi = Tip /\ tick'.fork = fork /\ Tip' = Tip
    BY <2>1 DEF Idle, Tip
  <2>3. (wipes = 0 /\ reorgs <= 1 => Near)'
    BY <1>0, <2>1, <2>2 DEF Window, Near
  <2>4. WindowCovers'
    BY <2>1 DEF Window, WindowCovers
  <2> QED
    BY <2>3, <2>4 DEF Window
<1>7. CASE TickFails
  <2>1. /\ fork' = Smaller(tick.fork, fork) /\ tick' = Idle /\ faults' = faults + 1
        /\ UNCHANGED <<blocks, watermark, missed, reorgs, wipes, rebuilds>> /\ tick # Idle
    BY <1>7 DEF TickFails, index, tables
  <2>2. Tip' = Tip /\ tick'.pc \notin Behind
    BY <1>a, <2>1 DEF Tip
  <2>3. (wipes = 0 /\ reorgs <= 1 => Near)'
    <3>1. CASE tick.pc \in Behind
      BY <1>0, <2>1, <2>2, <3>1 DEF Window, Near, Smaller
    <3>2. CASE tick.pc \notin Behind
      <4> SUFFICES ASSUME wipes = 0, reorgs <= 1 PROVE Near'
        BY <2>1
      <4>1. fork' = fork
        <5>1. tick.pc \in Weighing
          BY <2>1, <3>2 DEF Types, Locals, Tick, Behind
        <5>2. tick.fork = MaxHeight + 1
          BY <5>1 DEF Types, Locals
        <5> QED
          BY <1>0, <2>1, <5>2 DEF Smaller
      <4> QED
        BY <1>0, <2>1, <2>2, <4>1 DEF Window, Near
    <3> QED
      BY <3>1, <3>2
  <2>4. WindowCovers'
    BY <2>1 DEF Window, WindowCovers
  <2> QED
    BY <2>2, <2>3, <2>4 DEF Window
<1>8. CASE TickStart
  <2> DEFINE w == IF watermark # None THEN watermark
                  ELSE IF job = "clusters" THEN Larger(0, Tip - SeedReplay) ELSE 0
             lo == Below(w)
             rebuild == job = "clusters" /\ watermark = None /\ \A a \in Addr : cluster[a] = None
  <2>1. /\ UNCHANGED <<blocks, reorgs, wipes, rebuilds, faults>>
        /\ missed' = (missed \/ (watermark # None /\ lo > fork /\ lo < Tip))
    BY <1>8 DEF TickStart, index, counters
  <2>2. \/ /\ ~rebuild /\ Tip <= lo /\ Tip > 0
           /\ UNCHANGED <<tick, fork>> /\ watermark' \in {Tip, watermark}
        \/ /\ tick' = Begun(rebuild, lo)
           /\ fork' = MaxHeight + 1 /\ UNCHANGED watermark
    BY <1>8 DEF TickStart, Begun
  <2>3. tick = Idle /\ tick.pc \notin Behind
    BY <1>8 DEF TickStart, Idle, Behind, Clustering, Claiming
  <2>4. SeedReplay \in Nat \ {0}
    BY Parameters
  <2>5. /\ lo \in Nat
        /\ watermark # None /\ watermark <= fork + MaxReorgDepth => lo <= fork
        /\ watermark = None /\ Tip > 0 => lo < Tip
    <3>1. /\ w \in Nat
          /\ watermark # None => w = watermark
          /\ watermark = None /\ Tip > 0 => w < Tip
      BY <1>0, <2>4 DEF Larger
    <3> HIDE DEF w
    <3> QED
      BY <1>0, <3>1 DEF Below, Larger, Smaller
  <2> HIDE DEF lo, rebuild
  <2>6. Tip' = Tip
    BY <2>1 DEF Tip
  <2>7. (wipes = 0 /\ reorgs <= 1 => Near)'
    <3> SUFFICES ASSUME wipes = 0, reorgs <= 1 PROVE Near'
      BY <2>1
    <3>1. Near /\ (watermark # None => lo <= fork)
      BY <2>5 DEF Window, Near
    <3>2. CASE /\ ~rebuild /\ Tip <= lo /\ Tip > 0
               /\ UNCHANGED <<tick, fork>> /\ watermark' \in {Tip, watermark}
      <4>1. watermark # None
        BY <1>0, <2>5, <3>2
      <4> QED
        BY <1>0, <2>1, <2>3, <2>5, <2>6, <3>1, <3>2, <4>1 DEF Near
    <3>3. CASE /\ tick' = Begun(rebuild, lo)
               /\ fork' = MaxHeight + 1 /\ UNCHANGED watermark
      <4>1. tick'.hi = Tip /\ tick'.fork = fork
        BY <3>3 DEF Idle, Begun
      <4> QED
        BY <1>0, <2>1, <2>6, <3>1, <3>3, <4>1 DEF Near
    <3> QED
      BY <2>2, <3>2, <3>3
  <2>8. WindowCovers'
    <3>1. CASE wipes = 0 /\ reorgs <= 1
      <4>1. watermark # None => ~(lo > fork)
        BY <1>0, <2>5, <3>1 DEF Window, Near
      <4>2. missed' => missed
        BY <2>1, <4>1
      <4> QED
        BY <2>1, <4>2, Zenon DEF Window, WindowCovers
    <3>2. CASE ~(wipes = 0 /\ reorgs <= 1)
      <4>1. wipes > 0 \/ reorgs > 1
        BY <1>0, <3>2
      <4> QED
        BY <2>1, <4>1, Zenon DEF WindowCovers
    <3> QED
      BY <3>1, <3>2
  <2> QED
    BY <2>7, <2>8 DEF Window
<1>9. CASE SaveWatermark
  <2>1. /\ watermark' = tick.hi /\ tick' = Idle /\ tick.pc \in Behind
        /\ UNCHANGED <<blocks, fork, missed, reorgs, wipes, rebuilds, faults>>
    BY <1>9 DEF SaveWatermark, index, ghosts, counters, Behind, Clustering
  <2>2. Tip' = Tip /\ tick'.pc \notin Behind
    BY <1>a, <2>1 DEF Tip
  <2>3. (wipes = 0 /\ reorgs <= 1 => Near)'
    BY <1>0, <2>1, <2>2 DEF Window, Near
  <2>4. WindowCovers'
    BY <2>1 DEF Window, WindowCovers
  <2> QED
    BY <2>2, <2>3, <2>4 DEF Window
<1>10. CASE Scan
  <2>1. /\ tick.pc = "scan" /\ tick' = [tick EXCEPT !.pc = "truncate", !.read = tick'.read, !.fork = Smaller(tick.fork, fork)]
        /\ fork' = (IF Tip < tick.hi THEN Tip ELSE MaxHeight + 1)
        /\ UNCHANGED <<blocks, watermark, missed, reorgs, wipes, rebuilds, faults>>
    <3>1. PICK some : tick' = [tick EXCEPT !.pc = "truncate", !.read = InputGroups(Above(0, tick.hi)) \cup some,
                                  !.fork = Smaller(tick.fork, fork)]
      BY <1>10 DEF Scan
    <3> QED
      BY <1>10, <3>1 DEF Scan, index, tables, counters, Types, Locals, Tick
  <2>2. /\ tick.pc \in Behind /\ Tip' = Tip
        /\ tick'.hi = tick.hi /\ tick'.fork = Smaller(tick.fork, fork)
    BY <2>1 DEF Behind, Clustering, Tip, Types, Locals, Tick
  <2>3. (wipes = 0 /\ reorgs <= 1 => Near)'
    <3>1. tick'.pc \in Behind /\ (tick'.fork = tick.fork \/ tick'.fork = fork)
      BY <2>1, <2>2 DEF Smaller, Behind, Clustering, Types, Locals, Tick
    <3>2. ASSUME Near, Tip < tick.hi
          PROVE  Near'
      BY <1>0, <2>1, <2>2, <3>1, <3>2 DEF Near
    <3>3. ASSUME Near, ~(Tip < tick.hi)
          PROVE  Near'
      BY <1>0, <2>1, <2>2, <3>1, <3>3 DEF Near
    <3> QED
      BY <2>1, <3>2, <3>3 DEF Window
  <2>4. WindowCovers'
    BY <2>1 DEF Window, WindowCovers
  <2> QED
    BY <2>1, <2>2, <2>3, <2>4 DEF Window
<1>11. CASE SaveUpper
  <2>1. /\ watermark' = tick.up /\ tick.pc = "saveUpper"
        /\ UNCHANGED <<blocks, fork, missed, reorgs, wipes, rebuilds>> /\ faults' \in {faults, faults + 1}
        /\ \/ tick' = Idle
           \/ tick' = [tick EXCEPT !.pc = "upper", !.lo = tick.up, !.read = {}, !.fork = Larger(@, tick.up)]
    BY <1>11 DEF SaveUpper, index, ghosts
  <2>2. tick.up <= tick.hi /\ tick.pc \in Behind
    BY <2>1 DEF Types, Locals, Claiming, Behind
  <2>3. Tip' = Tip
    BY <2>1 DEF Tip
  <2>4. tick'.pc \in Behind => tick'.hi = tick.hi /\ tick'.fork = Larger(tick.fork, tick.up)
    BY <1>a, <2>1 DEF Types, Locals, Tick
  <2>5. (wipes = 0 /\ reorgs <= 1 => Near)'
    BY <1>0, <2>1, <2>2, <2>3, <2>4 DEF Window, Near, Larger
  <2>6. WindowCovers'
    BY <1>0, <2>1 DEF Window, WindowCovers
  <2> QED
    BY <2>3, <2>5, <2>6 DEF Window
<1>12. CASE CoSpendGroups \/ ReadAssigned \/ FlushPending \/ Truncate \/ Fill \/ \E s \in SUBSET Addr : MergeComponent(s)
  <2>1. /\ tick.pc \in Clustering /\ tick'.hi = tick.hi /\ tick'.fork = tick.fork
    <3> USE DEF Types, Locals, Tick, Clustering
    <3>1. CASE CoSpendGroups \/ ReadAssigned
      BY <1>12, <3>1, AssignedRead DEF CoSpendGroups
    <3>2. CASE FlushPending \/ Truncate \/ Fill
      BY <1>12, <3>2 DEF FlushPending, Truncate, Fill, Step
    <3>3. CASE \E s \in SUBSET Addr : MergeComponent(s)
      BY <1>12, <3>3 DEF MergeComponent
    <3> QED
      BY <1>12, <3>1, <3>2, <3>3
  <2>2. UNCHANGED <<blocks, watermark, fork, missed, reorgs, wipes, rebuilds, faults>>
    BY <1>12 DEF CoSpendGroups, ReadAssigned, FlushPending, Truncate, Fill, MergeComponent, index, tables, ghosts, counters
  <2> QED
    BY <2>1, <2>2, WindowStays DEF Behind
<1>13. CASE BatchUpper \/ LoadVotes \/ InsertClaims
  <2>1. /\ tick.pc \in Claiming /\ tick'.hi = tick.hi /\ tick'.fork = tick.fork
    BY <1>13 DEF BatchUpper, LoadVotes, InsertClaims, Step, Types, Locals, Tick, Claiming
  <2>2. UNCHANGED <<blocks, watermark, fork, missed, reorgs, wipes, rebuilds, faults>>
    BY <1>13 DEF BatchUpper, LoadVotes, InsertClaims, index, tables, ghosts, counters
  <2> QED
    BY <2>1, <2>2, WindowStays DEF Behind
<1>14. CASE ReadAnchor \/ ReadPolls \/ MarkPollComputed \/ \E v \in 1 .. MaxBlocks : Weigh(v)
  <2>1. tick'.pc \in {"idle", "polls", "weigh"}
    <3> USE DEF Types, Locals, Tick
    <3>1. CASE ReadAnchor
      BY <3>1 DEF ReadAnchor, Idle
    <3>2. CASE ReadPolls
      <4>1. \/ tick' = Idle
            \/ tick' = [tick EXCEPT !.pc = "weigh", !.lo = IF PollEnd > tick.hi THEN 1 ELSE 0,
                                    !.todo = VotesIn(Above(0, Tip))]
        BY <3>2 DEF ReadPolls
      <4> QED
        BY <4>1, <1>a
    <3>3. CASE MarkPollComputed \/ \E v \in 1 .. MaxBlocks : Weigh(v)
      BY <3>3 DEF MarkPollComputed, Weigh, Idle
    <3> QED
      BY <1>14, <3>1, <3>2, <3>3
  <2>2. UNCHANGED <<blocks, watermark, fork, missed, reorgs, wipes, rebuilds, faults>>
    BY <1>14 DEF ReadAnchor, ReadPolls, MarkPollComputed, Weigh, index, tables, ghosts, counters
  <2> QED
    BY <2>1, <2>2, WindowStays DEF Behind, Clustering, Claiming
<1> QED
  BY <1>1, <1>2, <1>3, <1>4, <1>5, <1>6, <1>7, <1>8, <1>9, <1>10, <1>11, <1>12, <1>13, <1>14 DEF Next, TickStep

(* The last MAX_REORG_DEPTH blocks below the watermark are enough to read  *)
(* every replaced block again, for one rollback at any time.               *)
THEOREM EveryForkIsReread == Spec => []WindowCovers
<1>1. Init => Window
  <2> SUFFICES ASSUME Init PROVE Window
    OBVIOUS
  <2>1. /\ watermark = None /\ tick.pc = "idle" /\ fork = MaxHeight + 1 /\ Tip = 0 /\ ~missed
    BY DEF Init, Idle, Tip
  <2>2. Near
    BY <2>1, Parameters DEF Near, None, Behind, Clustering, Claiming
  <2> QED
    BY <2>1, <2>2 DEF Window, WindowCovers
<1>2. Types /\ Types' /\ Window /\ [Next]_vars => Window'
  BY WindowStep
<1>3. Window => WindowCovers
  BY DEF Window
<1> QED
  BY <1>1, <1>2, <1>3, AlwaysTypes, PTL DEF Spec, Safety

-----------------------------------------------------------------------------
(* The final pass.  Once a tick has found the poll over, the tip is at     *)
(* most Fresh short of its end, so no block yet to come is in time; and    *)
(* what is in time is weighed, or still to do.                             *)

Everything == 1 .. MaxBlocks
Ripe == Tip > 0 /\ blocks[Tip].time >= PollEnd - Fresh

Final ==
  job = "weights" /\ lost # Everything =>
    /\ tick.pc = "polls" /\ tick.hi >= PollEnd => Ripe
    /\ tick.pc = "weigh" /\ tick.lo = 0 => Ripe /\ InTime \subseteq weighed \cup tick.todo
    /\ final => Ripe /\ InTime \subseteq weighed \cup lost

LEMMA VotesAt ==
  ASSUME IndexTypes
  PROVE  /\ \A v : v \in InTime <=>
              \E h \in 1 .. Tip : blocks[h].id = v /\ blocks[h].item = Vote /\ blocks[h].time <= PollEnd - Fresh
         /\ InTime \subseteq Votes /\ InTime \subseteq Everything
<1>1. Tip \in Nat /\ Above(0, Tip) = {blocks[h] : h \in 1 .. Tip}
  BY DEF IndexTypes, Tip, Above, Smaller
<1>2. \A v : v \in InTime <=>
              \E h \in 1 .. Tip : blocks[h].id = v /\ blocks[h].item = Vote /\ blocks[h].time <= PollEnd - Fresh
  BY <1>1 DEF InTime, VotesIn
<1>3. InTime \subseteq Votes
  BY DEF InTime, Votes, VotesIn
<1>4. Votes \subseteq Everything
  BY <1>1, AboveFacts DEF Votes, Everything
<1> QED
  BY <1>2, <1>3, <1>4

(* A block on top of a ripe tip is not in time, and leaves a ripe tip.     *)
LEMMA RipeStays ==
  ASSUME Types, Types', Ripe, NEW b \in Block, blocks' = Append(blocks, b), blocks[Tip].time < b.time
  PROVE  Ripe' /\ InTime' \subseteq InTime
<1>1. blocks \in Seq(Block) /\ Tip \in Nat /\ Tip > 0 /\ blocks[Tip].time >= PollEnd - Fresh
  BY DEF Types, IndexTypes, Tip, Ripe
<1>2. Tip' = Tip + 1 /\ blocks'[Tip + 1] = b /\ \A h \in 1 .. Tip : blocks'[h] = blocks[h]
  BY <1>1 DEF Tip
<1>3. blocks[Tip] \in Block
  BY <1>1 DEF Tip
<1>4. b.time \in Int /\ blocks[Tip].time \in Int /\ PollEnd - Fresh \in Int
  BY <1>3, Parameters DEF Block
<1>5. ~(b.time <= PollEnd - Fresh) /\ b.time >= PollEnd - Fresh
  BY <1>1, <1>4
<1>6. ASSUME NEW v \in InTime'
      PROVE  v \in InTime
  <2>1. PICK h \in 1 .. Tip' : blocks'[h].id = v /\ blocks'[h].item = Vote /\ blocks'[h].time <= PollEnd - Fresh
    <3>1. Tip' \in Nat /\ Above(0, Tip)' = {blocks'[h] : h \in 1 .. Tip'}
      BY DEF Types, IndexTypes, Tip, Above, Smaller
    <3> QED
      BY <3>1 DEF InTime, VotesIn
  <2>2. h \in 1 .. Tip
    <3>1. h # Tip + 1
      BY <1>2, <1>5, <2>1
    <3> QED
      BY <1>1, <1>2, <2>1, <3>1
  <2> QED
    BY <1>2, <2>1, <2>2, VotesAt DEF Types
<1>7. Ripe'
  BY <1>1, <1>2, <1>5 DEF Ripe
<1> QED
  BY <1>6, <1>7

LEMMA JobStays ==
  ASSUME [Next]_vars
  PROVE  UNCHANGED job
<1>1. CASE ClockTicks
  BY <1>1 DEF ClockTicks
<1>2. CASE \E item \in Item, time \in 1 .. MaxTime : Apply(item, time)
  BY <1>2 DEF Apply
<1>3. CASE \E to \in Height : RollBack(to) \/ Wipe(to)
  BY <1>3 DEF RollBack, Wipe
<1>4. CASE RebuildStart \/ TickStep \/ TickFails \/ UNCHANGED vars
  BY <1>4, JobsReadTheIndex
<1> QED
  BY <1>1, <1>2, <1>3, <1>4 DEF Next

LEMMA FinalStep ==
  ASSUME Types, Types', Final, [Next]_vars
  PROVE  Final'
<1>0. UNCHANGED job
  BY JobStays
<1> SUFFICES ASSUME job = "weights", job' = job, lost' # Everything
             PROVE  Final'
  BY <1>0, Zenon DEF Final
<1>a. tick \in Tick /\ tick.pc \notin Clustering /\ tick.pc \notin Claiming
  BY DEF Types, Locals
<1>b. /\ IndexTypes /\ Tip \in Nat
      /\ PollEnd \in Nat /\ Fresh \in Nat
  BY Parameters DEF Types, IndexTypes, Tip
<1>c. ASSUME tick' = Idle
      PROVE  tick'.pc = "idle"
  BY <1>c DEF Idle
<1>d. ASSUME UNCHANGED blocks
      PROVE  Ripe' = Ripe /\ InTime' = InTime /\ Votes' = Votes
  BY <1>d DEF Ripe, InTime, Votes, Tip, VotesIn, Above
<1>1. CASE ClockTicks \/ UNCHANGED vars
  <2>1. UNCHANGED <<blocks, tick, weighed, final, lost>>
    BY <1>1 DEF ClockTicks, vars, index, tables, ghosts
  <2> QED
    BY <1>d, <2>1 DEF Final
<1>2. ASSUME NEW item \in Item, NEW time \in 1 .. MaxTime, Apply(item, time)
      PROVE  Final'
  <2> DEFINE b == [id |-> made + 1, time |-> time, item |-> item]
  <2>1. /\ blocks' = Append(blocks, b) /\ UNCHANGED <<job, tick, weighed, final, lost>>
        /\ Tip > 0 => blocks[Tip].time < time
    BY <1>2 DEF Apply, tables
  <2>2. b \in Block
    <3>1. made \in Nat /\ made < MaxBlocks
      BY <1>2 DEF Apply, Types, IndexTypes
    <3> QED
      BY <3>1, Parameters DEF Block
  <2>3. b.time = time
    OBVIOUS
  <2> HIDE DEF b
  <2>4. Ripe => Ripe' /\ InTime' \subseteq InTime
    BY <2>1, <2>2, <2>3, RipeStays DEF Ripe
  <2> QED
    BY <2>1, <2>4, Zenon DEF Final
<1>3. ASSUME NEW to \in Height, RollBack(to) \/ Wipe(to)
      PROVE  Final'
  <2>1. UNCHANGED tick /\ tick = Idle /\ ~final
    BY <1>3 DEF RollBack, Wipe, Everything
  <2>2. final' = FALSE
    BY <1>3, <2>1 DEF RollBack, Wipe
  <2> QED
    BY <2>1, <2>2 DEF Final, Idle
<1>4. CASE RebuildStart
  BY <1>4 DEF RebuildStart
<1>5. CASE TickFails
  <2>1. tick' = Idle /\ UNCHANGED <<blocks, weighed, final, lost>>
    BY <1>5 DEF TickFails, index, tables
  <2> QED
    BY <1>c, <1>d, <2>1 DEF Final
<1>6. CASE TickStart
  BY <1>6 DEF TickStart
<1>7. CASE \/ CoSpendGroups \/ ReadAssigned \/ FlushPending \/ SaveWatermark \/ Scan \/ Truncate \/ Fill
           \/ \E s \in SUBSET Addr : MergeComponent(s)
  BY <1>7, <1>a DEF CoSpendGroups, ReadAssigned, FlushPending, SaveWatermark, Scan, Truncate, Fill,
                    MergeComponent, Clustering
<1>8. CASE BatchUpper \/ LoadVotes \/ InsertClaims \/ SaveUpper
  BY <1>8, <1>a DEF BatchUpper, LoadVotes, InsertClaims, SaveUpper, Claiming
<1>9. CASE ReadAnchor
  <2>1. /\ tick' = [Idle EXCEPT !.pc = "polls", !.hi = Anchor] /\ Tip > 0
        /\ UNCHANGED <<blocks, weighed, final, lost>>
    BY <1>9 DEF ReadAnchor, index, tables, ghosts
  <2>2. tick'.pc = "polls" /\ tick'.hi = Anchor
    BY <2>1 DEF Idle
  <2>3. Anchor >= PollEnd => Ripe
    <3>1. blocks[Tip] \in Block
      BY <1>b, <2>1 DEF IndexTypes, Tip
    <3>2. blocks[Tip].time \in Int /\ now \in Int
      BY <1>b, <3>1 DEF Block, IndexTypes
    <3> QED
      BY <1>b, <2>1, <3>2 DEF Anchor, Ripe
  <2> QED
    BY <1>d, <2>1, <2>2, <2>3, Zenon DEF Final
<1>10. CASE ReadPolls
  <2>1. UNCHANGED <<blocks, weighed, final, lost>> /\ tick.pc = "polls"
    BY <1>10 DEF ReadPolls, index, tables, ghosts
  <2>2. CASE tick' = Idle
    BY <1>c, <1>d, <2>1, <2>2 DEF Final
  <2>3. CASE tick' = [tick EXCEPT !.pc = "weigh", !.lo = IF PollEnd > tick.hi THEN 1 ELSE 0,
                                  !.todo = VotesIn(Above(0, Tip))]
    <3>1. /\ tick'.pc = "weigh" /\ tick'.todo = Votes
          /\ tick'.lo = 0 => tick.hi >= PollEnd
      <4>1. tick.hi \in Nat
        BY <1>a DEF Tick
      <4> QED
        BY <1>a, <1>b, <2>3, <4>1 DEF Tick, Votes
    <3>2. InTime \subseteq Votes
      BY <1>b, VotesAt
    <3> QED
      BY <1>d, <2>1, <3>1, <3>2 DEF Final
  <2> QED
    BY <1>10, <2>2, <2>3 DEF ReadPolls
<1>11. CASE MarkPollComputed
  <2>1. /\ tick' = Idle /\ tick.pc = "weigh" /\ tick.todo = {}
        /\ UNCHANGED <<blocks, weighed, lost>> /\ final' = (Tip > 0 /\ tick.lo = 0)
    BY <1>11 DEF MarkPollComputed, index, ghosts
  <2> QED
    BY <1>c, <1>d, <2>1 DEF Final
<1>12. ASSUME NEW v \in 1 .. MaxBlocks, Weigh(v)
       PROVE  Final'
  <2>1. /\ tick.pc = "weigh" /\ tick' = [tick EXCEPT !.todo = @ \ {v}]
        /\ weighed' = weighed \cup ({v} \cap Votes) /\ UNCHANGED <<job, blocks, final, lost>>
    BY <1>12 DEF Weigh, Votes, index, ghosts
  <2>2. tick'.pc = "weigh" /\ tick'.lo = tick.lo /\ tick'.todo = tick.todo \ {v}
    BY <1>a, <2>1 DEF Tick
  <2>3. InTime \subseteq Votes
    BY <1>b, VotesAt
  <2>4. /\ tick.lo = 0 => Ripe /\ InTime \subseteq weighed \cup tick.todo
        /\ final => Ripe /\ InTime \subseteq weighed \cup lost
    BY <2>1 DEF Final
  <2>5. Ripe' = Ripe /\ InTime' = InTime
    BY <1>d, <2>1
  <2> QED
    BY <2>1, <2>2, <2>3, <2>4, <2>5 DEF Final
<1> QED
  BY <1>1, <1>2, <1>3, <1>4, <1>5, <1>6, <1>7, <1>8, <1>9, <1>10, <1>11, <1>12 DEF Next, TickStep, Final

(* A poll marked final has the weight of every vote that was cast more     *)
(* than Fresh before its end and that no rollback took.                    *)
THEOREM FinalMeansWeighed == Spec => []WeighedWhenFinal
<1>1. Init => Final
  BY DEF Init, Final, Idle
<1>2. Types /\ Types' /\ Final /\ [Next]_vars => Final'
  BY FinalStep
<1>3. Types /\ Final => WeighedWhenFinal
  BY VotesAt DEF Types, Final, WeighedWhenFinal
<1> QED
  BY <1>1, <1>2, <1>3, AlwaysTypes, PTL DEF Spec, Safety

-----------------------------------------------------------------------------
(* Clusters.  An assignment is Sound when the address a cluster is named   *)
(* for is one of it, and all of it is linked by the groups ever indexed:   *)
(* then no two clusters that are not linked get the same name.             *)

Sound(K, c) == \A a \in Addr : c[a] # None => c[c[a]] = c[a] /\ Linked(K, a, c[a])

(* The components still to merge: of is what was read of the assignments,  *)
(* pend what is still to be written.  No component meets another, nor a    *)
(* cluster of another; what waits to be written has no cluster yet, and    *)
(* none to come will rename the one it is to get.                          *)
Apart(c, of, todo) ==
  \A s \in todo : \A a \in s :
    /\ c[a] = of[a]
    /\ \A t \in todo : \A b \in t : a = b \/ (of[a] = of[b] /\ of[a] # None) => s = t

AllLinked(K, todo) == \A s \in todo : \A a, b \in s : Linked(K, a, b)

Waiting(K, c, of, pend, todo) ==
  \A a \in Addr : pend[a] # None =>
    /\ c[a] = None /\ Linked(K, a, pend[a])
    /\ pend[pend[a]] = pend[a] \/ c[pend[a]] = pend[a]
    /\ \A s \in todo : a \notin s /\ \A b \in s : of[b] # pend[a]

(* The clusters of a component, and what its merge makes of an assignment. *)
Taken(of, s) == {of[a] : a \in s} \ {None}
Moved(c, of, s, target) == [a \in Addr |-> IF c[a] \in Taken(of, s) THEN target ELSE c[a]]
Added(pend, of, s, target) == [a \in Addr |-> IF a \in s /\ of[a] = None THEN target ELSE pend[a]]

LEMMA MoveIsSound ==
  ASSUME NEW K, NEW c \in Assignment, NEW of \in Assignment, NEW todo, NEW s \in todo, s \subseteq Addr,
         NEW target \in Taken(of, s),
         Sound(K, c), Apart(c, of, todo), AllLinked(K, todo)
  PROVE  /\ Sound(K, Moved(c, of, s, target))
         /\ \A a \in s : Linked(K, a, target)
<1>1. PICK e \in s : of[e] = target /\ target # None /\ target \in Addr
  BY DEF Taken, Assignment
<1>2. c[e] = target /\ c[target] = target /\ Linked(K, e, target)
  BY <1>1 DEF Apart, Sound
<1>3. \A a \in s : Linked(K, a, target)
  BY <1>1, <1>2, LinkedOn, Zenon DEF AllLinked
<1> DEFINE d == Moved(c, of, s, target)
<1>4. \A a \in Addr : d[a] = IF c[a] \in Taken(of, s) THEN target ELSE c[a]
  BY DEF Moved
<1>5. d[target] = target
  BY <1>1, <1>2, <1>4
<1> HIDE DEF d
<1>6. ASSUME NEW a \in Addr, d[a] # None
      PROVE  d[d[a]] = d[a] /\ Linked(K, a, d[a])
  <2>1. CASE c[a] \in Taken(of, s)
    <3>1. d[a] = target
      BY <1>4, <2>1
    <3>2. PICK b \in s : of[b] = c[a] /\ c[a] # None
      BY <2>1 DEF Taken
    <3>3. c[b] = c[a] /\ b \in Addr
      BY <3>2 DEF Apart
    <3>4. Linked(K, a, c[a]) /\ Linked(K, b, c[a])
      BY <3>2, <3>3 DEF Sound
    <3>5. Linked(K, a, b)
      BY <3>4, LinkedBack, LinkedOn, Zenon
    <3>6. Linked(K, a, target)
      BY <1>3, <3>5, LinkedOn, Zenon
    <3> QED
      BY <1>5, <3>1, <3>6
  <2>2. CASE c[a] \notin Taken(of, s)
    <3>1. d[a] = c[a] /\ c[a] # None /\ c[a] \in Addr
      BY <1>4, <1>6, <2>2 DEF Assignment
    <3>2. c[c[a]] = c[a] /\ Linked(K, a, c[a])
      BY <3>1 DEF Sound
    <3>3. d[c[a]] = c[a]
      BY <1>4, <2>2, <3>1, <3>2
    <3> QED
      BY <3>1, <3>2, <3>3
  <2> QED
    BY <2>1, <2>2
<1> QED
  BY <1>3, <1>6 DEF Sound, d

LEMMA MoveKeepsApart ==
  ASSUME NEW c \in Assignment, NEW of \in Assignment, NEW todo, NEW s \in todo,
         \A t \in todo : t \subseteq Addr, NEW target, Apart(c, of, todo)
  PROVE  Apart(Moved(c, of, s, target), of, todo \ {s})
<1> SUFFICES ASSUME NEW t \in todo \ {s}, NEW a \in t
             PROVE  Moved(c, of, s, target)[a] = of[a]
  BY DEF Apart
<1>1. a \in Addr /\ c[a] = of[a]
  BY DEF Apart
<1>2. of[a] \notin Taken(of, s)
  <2> SUFFICES ASSUME NEW b \in s, of[b] = of[a], of[a] # None PROVE FALSE
    BY DEF Taken
  <2> QED
    BY DEF Apart
<1> QED
  BY <1>1, <1>2 DEF Moved

LEMMA MoveKeepsWaiting ==
  ASSUME NEW K, NEW c \in Assignment, NEW of \in Assignment, NEW pend \in Assignment, NEW todo, NEW s \in todo,
         \A t \in todo : t \subseteq Addr, NEW target \in Taken(of, s),
         Sound(K, c), Apart(c, of, todo), AllLinked(K, todo), Waiting(K, c, of, pend, todo)
  PROVE  Waiting(K, Moved(c, of, s, target), of, Added(pend, of, s, target), todo \ {s})
<1> DEFINE d == Moved(c, of, s, target)
           q == Added(pend, of, s, target)
<1>1. PICK e \in s : of[e] = target /\ target # None /\ target \in Addr /\ e \in Addr
  BY DEF Taken, Assignment
<1>2. c[e] = target /\ c[target] = target
  BY <1>1 DEF Apart, Sound
<1>3. \A a \in Addr : d[a] = IF c[a] \in Taken(of, s) THEN target ELSE c[a]
  BY DEF Moved
<1>4. \A a \in Addr : q[a] = IF a \in s /\ of[a] = None THEN target ELSE pend[a]
  BY DEF Added
<1>5. d[target] = target
  BY <1>1, <1>2, <1>3
<1>6. \A a \in s : Linked(K, a, target)
  BY MoveIsSound
<1> HIDE DEF d, q
<1> SUFFICES ASSUME NEW a \in Addr, q[a] # None
             PROVE  /\ d[a] = None /\ Linked(K, a, q[a])
                    /\ q[q[a]] = q[a] \/ d[q[a]] = q[a]
                    /\ \A t \in todo \ {s} : a \notin t /\ \A b \in t : of[b] # q[a]
  BY DEF Waiting, d, q
<1>7. CASE a \in s /\ of[a] = None
  <2>1. q[a] = target /\ c[a] = None
    BY <1>4, <1>7 DEF Apart
  <2>2. d[a] = None
    BY <1>3, <2>1 DEF Taken
  <2>3. \A t \in todo \ {s} : a \notin t /\ \A b \in t : of[b] # target
    BY <1>1, <1>7 DEF Apart
  <2> QED
    BY <1>5, <1>6, <1>7, <2>1, <2>2, <2>3
<1>8. CASE ~(a \in s /\ of[a] = None)
  <2>1. q[a] = pend[a] /\ pend[a] # None /\ pend[a] \in Addr
    BY <1>4, <1>8 DEF Assignment
  <2>2. /\ c[a] = None /\ Linked(K, a, pend[a])
        /\ pend[pend[a]] = pend[a] \/ c[pend[a]] = pend[a]
        /\ \A t \in todo : a \notin t /\ \A b \in t : of[b] # pend[a]
    BY <2>1 DEF Waiting
  <2>3. d[a] = None
    BY <1>3, <2>2 DEF Taken
  <2>4. pend[a] \notin Taken(of, s)
    BY <2>2 DEF Taken
  <2>5. CASE c[pend[a]] = pend[a]
    BY <1>3, <2>1, <2>2, <2>3, <2>4, <2>5
  <2>6. CASE pend[pend[a]] = pend[a]
    <3>1. pend[a] \notin s
      BY <2>1, <2>6 DEF Waiting
    <3>2. q[pend[a]] = pend[a]
      BY <1>4, <2>1, <2>6, <3>1
    <3> QED
      BY <2>1, <2>2, <2>3, <3>2
  <2> QED
    BY <2>2, <2>5, <2>6
<1> QED
  BY <1>7, <1>8

(* A component none of whose addresses has a cluster gets a new one, whose *)
(* name no cluster has.                                                    *)
LEMMA NewCluster ==
  ASSUME NEW K, NEW c \in Assignment, NEW of \in Assignment, NEW pend \in Assignment, NEW todo, NEW s \in todo,
         \A t \in todo : t \subseteq Addr, NEW target \in s, Taken(of, s) = {},
         Sound(K, c), Apart(c, of, todo), AllLinked(K, todo), Waiting(K, c, of, pend, todo)
  PROVE  /\ Apart(c, of, todo \ {s})
         /\ Waiting(K, c, of, Added(pend, of, s, target), todo \ {s})
<1> DEFINE q == Added(pend, of, s, target)
<1>1. \A a \in s : a \in Addr /\ of[a] = None /\ c[a] = None
  BY DEF Taken, Apart
<1>2. target \in Addr /\ target # None
  BY Parameters
<1>3. \A a \in Addr : q[a] = IF a \in s THEN target ELSE pend[a]
  BY <1>1 DEF Added
<1> HIDE DEF q
<1>4. Apart(c, of, todo \ {s})
  BY DEF Apart
<1>5. ASSUME NEW a \in Addr, q[a] # None
      PROVE  /\ c[a] = None /\ Linked(K, a, q[a])
             /\ q[q[a]] = q[a] \/ c[q[a]] = q[a]
             /\ \A t \in todo \ {s} : a \notin t /\ \A b \in t : of[b] # q[a]
  <2>1. CASE a \in s
    <3>1. q[a] = target /\ q[target] = target /\ Linked(K, a, target)
      BY <1>2, <1>3, <2>1 DEF AllLinked
    <3>2. ASSUME NEW t \in todo \ {s}
          PROVE  a \notin t /\ \A b \in t : of[b] # target
      <4>1. a \notin t
        BY <2>1 DEF Apart
      <4>2. ASSUME NEW b \in t, of[b] = target
            PROVE  FALSE
        <5>1. b \in Addr /\ c[b] = target
          BY <4>2 DEF Apart
        <5>2. c[target] = target
          BY <1>2, <5>1 DEF Sound
        <5> QED
          BY <1>1, <1>2, <5>2
      <4> QED
        BY <4>1, <4>2
    <3> QED
      BY <1>1, <2>1, <3>1, <3>2
  <2>2. CASE a \notin s
    <3>1. q[a] = pend[a] /\ pend[a] # None /\ pend[a] \in Addr
      BY <1>3, <1>5, <2>2 DEF Assignment
    <3>2. /\ c[a] = None /\ Linked(K, a, pend[a])
          /\ pend[pend[a]] = pend[a] \/ c[pend[a]] = pend[a]
          /\ \A t \in todo : a \notin t /\ \A b \in t : of[b] # pend[a]
      BY <3>1 DEF Waiting
    <3>3. pend[pend[a]] = pend[a] => pend[a] \notin s
      BY <3>1 DEF Waiting
    <3>4. pend[pend[a]] = pend[a] => q[pend[a]] = pend[a]
      BY <1>3, <3>1, <3>3
    <3> QED
      BY <3>1, <3>2, <3>4
  <2> QED
    BY <2>1, <2>2
<1> QED
  BY <1>4, <1>5 DEF Waiting, q

(* The last write puts what waits.                                         *)
LEMMA FlushIsSound ==
  ASSUME NEW K, NEW c \in Assignment, NEW of \in Assignment, NEW pend \in Assignment, NEW todo,
         Sound(K, c), Waiting(K, c, of, pend, todo)
  PROVE  Sound(K, [a \in Addr |-> IF pend[a] # None THEN pend[a] ELSE c[a]])
<1> DEFINE d == [a \in Addr |-> IF pend[a] # None THEN pend[a] ELSE c[a]]
<1>1. \A a \in Addr : d[a] = IF pend[a] # None THEN pend[a] ELSE c[a]
  OBVIOUS
<1> HIDE DEF d
<1>2. ASSUME NEW a \in Addr, d[a] # None
      PROVE  d[d[a]] = d[a] /\ Linked(K, a, d[a])
  <2>1. CASE pend[a] # None
    <3>1. /\ d[a] = pend[a] /\ pend[a] \in Addr /\ Linked(K, a, pend[a])
          /\ pend[pend[a]] = pend[a] \/ c[pend[a]] = pend[a]
      BY <1>1, <2>1 DEF Waiting, Assignment
    <3>2. pend[pend[a]] # None => c[pend[a]] = None
      BY <3>1 DEF Waiting
    <3> QED
      BY <1>1, <2>1, <3>1, <3>2
  <2>2. CASE pend[a] = None
    <3>1. d[a] = c[a] /\ c[a] \in Addr /\ c[c[a]] = c[a] /\ Linked(K, a, c[a])
      BY <1>1, <1>2, <2>2 DEF Sound, Assignment
    <3>2. pend[c[a]] = None
      BY <1>2, <2>2, <3>1 DEF Waiting
    <3> QED
      BY <1>1, <3>1, <3>2
  <2> QED
    BY <2>1, <2>2
<1> QED
  BY <1>2 DEF Sound, d

(* What a merge begins with.                                               *)
LEMMA ReadKeepsApart ==
  ASSUME NEW K, NEW c \in Assignment, NEW read, read \subseteq K, Sound(K, c),
         NEW of, of = [a \in Addr |-> IF a \in UNION read THEN c[a] ELSE None],
         NEW todo, todo \subseteq Components(read \cup Assigned(of)),
         \A s \in todo : s \subseteq Addr
  PROVE  Apart(c, of, todo) /\ AllLinked(K, todo)
<1> DEFINE links == read \cup Assigned(of)
<1>1. of \in Assignment /\ \A a \in Addr : of[a] = IF a \in UNION read THEN c[a] ELSE None
  BY DEF Assignment
<1>2. ASSUME NEW l \in Assigned(of)
      PROVE  \E n \in Addr : l = {a \in Addr : of[a] = n}
  <2>1. DOMAIN of = Addr /\ \A a \in Addr : of[a] \in Addr \cup {None}
    BY <1>1 DEF Assignment
  <2>2. PICK n \in {of[a] : a \in DOMAIN of} \ {None} : l = {a \in DOMAIN of : of[a] = n}
    BY Zenon DEF Assigned
  <2>3. n \in Addr
    BY <2>1
  <2> QED
    BY <2>1, <2>2, <2>3
<1>3. ASSUME NEW a \in Addr, of[a] # None
      PROVE  {b \in Addr : of[b] = of[a]} \in Assigned(of)
  <2>1. DOMAIN of = Addr
    BY <1>1 DEF Assignment
  <2>2. of[a] \in {of[b] : b \in DOMAIN of} \ {None}
    BY <1>3, <2>1
  <2>3. {b \in DOMAIN of : of[b] = of[a]} \in Assigned(of)
    BY <2>2, Zenon DEF Assigned
  <2> QED
    BY <2>1, <2>3
<1>4. \A l \in links : \A a, b \in l : Linked(K, a, b)
  <2> SUFFICES ASSUME NEW l \in links, NEW a \in l, NEW b \in l
               PROVE  Linked(K, a, b)
    OBVIOUS
  <2>1. CASE l \in read
    BY <2>1, LinkedByOne
  <2>2. CASE l \in Assigned(of)
    <3>1. PICK n \in Addr : l = {x \in Addr : of[x] = n}
      BY <1>2, <2>2
    <3>2. /\ a \in Addr /\ b \in Addr /\ n # None
          /\ of[a] = n /\ of[b] = n
      BY <3>1, Parameters
    <3>3. c[a] = n /\ c[b] = n
      BY <1>1, <3>2
    <3>4. Linked(K, a, n) /\ Linked(K, b, n)
      BY <3>2, <3>3 DEF Sound
    <3> QED
      BY <3>4, LinkedBack, LinkedOn, Zenon
  <2> QED
    BY <2>1, <2>2
<1>5. AllLinked(K, todo)
  <2> SUFFICES ASSUME NEW s \in todo, NEW a \in s, NEW b \in s
               PROVE  Linked(K, a, b)
    BY DEF AllLinked
  <2>1. s \in Components(links)
    OBVIOUS
  <2> HIDE DEF links
  <2>2. Linked(links, a, b)
    BY <2>1, InComponent
  <2> QED
    BY <1>4, <2>2, LinksWithin
<1>6. ASSUME NEW s \in todo, NEW a \in s
      PROVE  c[a] = of[a]
  <2>1. a \in Addr /\ s \in Components(links)
    OBVIOUS
  <2>2. a \in UNION links
    <3> HIDE DEF links
    <3> QED
      BY <2>1, ComponentWithin
  <2>3. CASE a \in UNION read
    BY <1>1, <2>1, <2>3
  <2>4. CASE a \notin UNION read
    <3>1. PICK l \in Assigned(of) : a \in l
      BY <2>2, <2>4
    <3>2. PICK n \in Addr : l = {x \in Addr : of[x] = n}
      BY <1>2
    <3>3. of[a] = n /\ n # None
      BY <3>1, <3>2, Parameters
    <3> QED
      BY <1>1, <2>1, <2>4, <3>3
  <2> QED
    BY <2>3, <2>4
<1>7. ASSUME NEW s \in todo, NEW t \in todo, NEW a \in s, NEW b \in t,
             a = b \/ (of[a] = of[b] /\ of[a] # None)
      PROVE  s = t
  <2>1. s \in Components(links) /\ t \in Components(links) /\ a \in Addr /\ b \in Addr
    OBVIOUS
  <2>2. b \in s
    <3>1. CASE a = b
      BY <3>1
    <3>2. CASE of[a] = of[b] /\ of[a] # None
      <4> DEFINE l == {x \in Addr : of[x] = of[a]}
      <4>1. l \in links /\ a \in l /\ b \in l
        BY <1>3, <2>1, <3>2
      <4> HIDE DEF links, l
      <4>2. Closed(links, s)
        BY <2>1, ComponentFacts, Zenon
      <4> QED
        BY <4>1, <4>2 DEF Closed
    <3> QED
      BY <1>7, <3>1, <3>2
  <2> HIDE DEF links
  <2> QED
    BY <2>1, <2>2, ComponentsApart
<1> QED
  BY <1>5, <1>6, <1>7 DEF Apart

(* A rebuild names every component of what it read for its least address.  *)
LEMMA FillIsSound ==
  ASSUME NEW K, NEW read, read \subseteq K, read \subseteq Groups, NEW c,
         c = [a \in Addr |-> IF a \in UNION read THEN Min(CHOOSE s \in Components(read) : a \in s) ELSE None]
  PROVE  Sound(K, c)
<1> DEFINE of(a) == CHOOSE s \in Components(read) : a \in s
<1>1. \A a \in UNION read : of(a) \in Components(read) /\ a \in of(a)
  BY ChosenComponent
<1>2. \A a \in Addr : c[a] = IF a \in UNION read THEN Min(of(a)) ELSE None
  OBVIOUS
<1> HIDE DEF of
<1>3. \A a \in UNION read : Min(of(a)) \in of(a) /\ of(a) \subseteq Addr
  BY <1>1, LeastOfComponent
<1> SUFFICES ASSUME NEW a \in Addr, c[a] # None
             PROVE  c[c[a]] = c[a] /\ Linked(K, a, c[a])
  BY DEF Sound
<1>4. a \in UNION read /\ c[a] = Min(of(a)) /\ c[a] \in of(a) /\ c[a] \in Addr
  BY <1>2, <1>3
<1>5. c[a] \in UNION read
  BY <1>1, <1>4, ComponentWithin
<1>6. of(c[a]) = of(a)
  BY <1>1, <1>4, <1>5, ComponentsApart
<1>7. Linked(read, a, c[a])
  BY <1>1, <1>4, InComponent
<1> QED
  BY <1>2, <1>4, <1>5, <1>6, <1>7, MoreLinks

Merging ==
  /\ Apart(cluster, tick.of, tick.todo) /\ AllLinked(known, tick.todo)
  /\ Waiting(known, cluster, tick.of, tick.pending, tick.todo)

Recorded == \A h \in 1 .. Tip : blocks[h].item \in Groups => blocks[h].item \in known

Sorted ==
  /\ Recorded /\ Sound(known, cluster)
  /\ tick.pc \in Clustering => tick.read \subseteq known
  /\ tick.pc \in {"groups", "assigned"} => tick.pending = Nowhere
  /\ tick.pc = "merge" => Merging
  /\ tick.pc = "fill" => cluster = Nowhere

LEMMA GroupsRecorded ==
  ASSUME Types, Recorded, NEW lo \in Nat, NEW hi \in Nat
  PROVE  InputGroups(Above(lo, hi)) \subseteq known
<1>1. \A b \in Above(lo, hi) : \E h \in 1 .. Tip : b = blocks[h] /\ blocks[h] \in Block
  BY DEF Types, IndexTypes, Tip, Above, Smaller
<1>2. ASSUME NEW g \in InputGroups(Above(lo, hi))
      PROVE  g \in known
  <2>1. g \in Groups
    BY AboveFacts DEF InputGroups, Types
  <2>2. PICK b \in Above(lo, hi) : g = b.item
    BY DEF InputGroups, GroupsIn
  <2> QED
    BY <1>1, <2>1, <2>2 DEF Recorded
<1> QED
  BY <1>2

LEMMA MoreSound ==
  ASSUME Types, Sorted, known \subseteq known', UNCHANGED <<tick, cluster>>, Recorded'
  PROVE  Sorted'
<1>1. \A x, y : Linked(known, x, y) => Linked(known', x, y)
  BY MoreLinks
<1>2. Sound(known', cluster)
  BY <1>1 DEF Sorted, Sound
<1>3. tick.pc = "merge" => AllLinked(known', tick.todo) /\ Waiting(known', cluster, tick.of, tick.pending, tick.todo)
  BY <1>1 DEF Sorted, Merging, AllLinked, Waiting
<1> QED
  BY <1>2, <1>3 DEF Sorted, Merging

LEMMA RecordedStep ==
  ASSUME Types, Recorded, [Next]_vars
  PROVE  Recorded' /\ known \subseteq known'
<1>1. ASSUME NEW item \in Item, NEW time \in 1 .. MaxTime, Apply(item, time)
      PROVE  Recorded' /\ known \subseteq known'
  <2> DEFINE b == [id |-> made + 1, time |-> time, item |-> item]
  <2>1. blocks' = Append(blocks, b) /\ known' = known \cup (Groups \cap {item})
    BY <1>1 DEF Apply
  <2>2. b \in Block /\ b.item = item
    <3>1. made \in Nat /\ made < MaxBlocks
      BY <1>1 DEF Apply, Types, IndexTypes
    <3> QED
      BY <3>1, Parameters DEF Block
  <2> HIDE DEF b
  <2>3. Tip' = Tip + 1 /\ blocks'[Tip + 1] = b /\ Tip \in Nat /\ \A h \in 1 .. Tip : blocks'[h] = blocks[h]
    BY <2>1, <2>2 DEF Types, IndexTypes, Tip
  <2>4. \A h \in 1 .. Tip' : h \in 1 .. Tip \/ h = Tip + 1
    BY <2>3
  <2> QED
    BY <2>1, <2>2, <2>3, <2>4 DEF Recorded
<1>2. ASSUME NEW to \in Height, RollBack(to) \/ Wipe(to)
      PROVE  Recorded' /\ known \subseteq known'
  <2>1. UNCHANGED known /\ Cut(to) /\ to \in 0 .. Tip
    BY <1>2, RollBackWithin DEF RollBack, Wipe, Types
  <2>2. Tip' = to /\ \A h \in 1 .. to : blocks'[h] = blocks[h]
    BY <2>1, CutBlocks DEF Types, Tip
  <2> QED
    BY <2>1, <2>2, Numbers DEF Recorded
<1>3. CASE RebuildStart \/ TickStep \/ TickFails \/ UNCHANGED vars \/ ClockTicks
  <2>1. UNCHANGED <<blocks, known>>
    <3>1. CASE TickStep
      BY <3>1, JobsReadTheIndex, GhostsStep
    <3>2. CASE RebuildStart \/ TickFails \/ ClockTicks \/ UNCHANGED vars
      BY <3>2 DEF RebuildStart, TickFails, ClockTicks, index, ghosts, vars
    <3> QED
      BY <1>3, <3>1, <3>2
  <2> QED
    BY <2>1 DEF Recorded, Tip
<1> QED
  BY <1>1, <1>2, <1>3 DEF Next

LEMMA SortedStep ==
  ASSUME Types, Types', Sorted, [Next]_vars
  PROVE  Sorted'
<1>0. Recorded' /\ known \subseteq known'
  BY RecordedStep DEF Sorted
<1>a. tick \in Tick /\ cluster \in Assignment /\ Recorded /\ Sound(known, cluster)
  BY DEF Types, Locals, TableTypes, Sorted
<1>b. tick.of \in Assignment /\ tick.pending \in Assignment
  BY <1>a DEF Tick
<1>c. ASSUME tick'.pc \notin Clustering, Sound(known', cluster')
      PROVE  Sorted'
  BY <1>0, <1>c DEF Sorted, Clustering
<1>d. ASSUME tick'.pc \notin Clustering, UNCHANGED <<cluster, known>>
      PROVE  Sorted'
  BY <1>a, <1>c, <1>d
<1>e. ASSUME tick' = Idle
      PROVE  tick'.pc \notin Clustering
  BY <1>e DEF Idle, Clustering
<1>1. CASE ClockTicks \/ UNCHANGED vars
  BY <1>0, <1>1, MoreSound DEF ClockTicks, vars, tables
<1>2. ASSUME NEW item \in Item, NEW time \in 1 .. MaxTime, Apply(item, time)
      PROVE  Sorted'
  BY <1>0, <1>2, MoreSound DEF Apply, tables
<1>3. ASSUME NEW to \in Height, RollBack(to) \/ Wipe(to)
      PROVE  Sorted'
  BY <1>0, <1>3, MoreSound DEF RollBack, Wipe
<1>4. CASE RebuildStart
  <2>1. tick' = [Idle EXCEPT !.pc = "scan", !.hi = Tip, !.fork = fork] /\ UNCHANGED <<cluster, known>>
    BY <1>4 DEF RebuildStart, tables
  <2>2. tick'.pc = "scan" /\ tick'.read = {}
    BY <2>1 DEF Idle
  <2> QED
    BY <1>0, <1>a, <2>1, <2>2 DEF Sorted
<1>5. CASE TickFails
  BY <1>5, <1>d, <1>e DEF TickFails, tables
<1>6. CASE TickStart
  <2>1. UNCHANGED <<cluster, known>>
    BY <1>6 DEF TickStart
  <2>2. CASE UNCHANGED tick
    BY <1>0, <2>1, <2>2, MoreSound
  <2>3. CASE tick' # tick
    <3>1. \E pc \in {"scan", "groups", "upper"} : \E lo : tick' = [Idle EXCEPT !.pc = pc, !.lo = lo, !.hi = Tip, !.fork = fork]
      BY <1>6, <2>3 DEF TickStart
    <3>2. tick'.pc \in {"scan", "groups", "upper"} /\ tick'.read = {} /\ tick'.pending = Nowhere
      BY <3>1 DEF Idle
    <3> QED
      BY <1>0, <1>a, <2>1, <3>2 DEF Sorted
  <2> QED
    BY <2>2, <2>3
<1>7. CASE CoSpendGroups
  <2> DEFINE read == InputGroups(Above(tick.lo, tick.hi))
  <2>1. /\ tick' = [tick EXCEPT !.pc = IF read = {} THEN "save" ELSE "assigned", !.read = read]
        /\ UNCHANGED <<cluster, known>> /\ tick.pc = "groups"
    BY <1>7 DEF CoSpendGroups, tables, ghosts
  <2>2. read \subseteq known
    BY <1>a, GroupsRecorded DEF Tick
  <2> HIDE DEF read
  <2>3. tick'.pc \in {"save", "assigned"} /\ tick'.read = read /\ tick'.pending = tick.pending
    BY <1>a, <2>1 DEF Tick
  <2> QED
    BY <1>0, <1>a, <2>1, <2>2, <2>3 DEF Sorted
<1>8. CASE ReadAssigned
  <2>1. /\ tick.pc = "assigned" /\ UNCHANGED <<cluster, known>>
        /\ tick' = [tick EXCEPT !.pc = "merge", !.of = Found, !.todo = Unsettled]
    BY <1>8, AssignedRead
  <2>2. /\ tick'.pc = "merge" /\ tick'.of = Found /\ tick'.todo = Unsettled
        /\ tick'.read = tick.read /\ tick'.pending = tick.pending
    BY <1>a, <2>1 DEF Tick
  <2>3. tick.read \subseteq known /\ tick.pending = Nowhere
    BY <2>1 DEF Sorted, Clustering
  <2>4. \A s \in Unsettled : s \subseteq Addr
    BY <2>2 DEF Types, Locals
  <2>5. Unsettled \subseteq Components(tick.read \cup Assigned(Found))
    BY DEF Unsettled
  <2>6. Found = [a \in Addr |-> IF a \in UNION tick.read THEN cluster[a] ELSE None]
    BY DEF Found
  <2>7. Apart(cluster, Found, Unsettled) /\ AllLinked(known, Unsettled)
    BY <1>a, <2>3, <2>4, <2>5, <2>6, ReadKeepsApart
  <2>8. Waiting(known, cluster, Found, Nowhere, Unsettled)
    BY DEF Waiting, Nowhere
  <2> QED
    BY <1>0, <1>a, <2>1, <2>2, <2>3, <2>7, <2>8 DEF Sorted, Merging
<1>9. ASSUME NEW s \in SUBSET Addr, MergeComponent(s)
      PROVE  Sorted'
  <2>1. /\ tick.pc = "merge" /\ s \in tick.todo /\ UNCHANGED known
        /\ \/ /\ Clusters(s) = {} /\ UNCHANGED cluster
              /\ tick' = [tick EXCEPT !.todo = @ \ {s}, !.pending = Attach(s, Min(s))]
           \/ \E target \in Clusters(s) :
                /\ cluster' = Repoint(s, target)
                /\ tick' = [tick EXCEPT !.todo = @ \ {s}, !.pending = Attach(s, target)]
    BY <1>9 DEF MergeComponent, ghosts
  <2>2. /\ Apart(cluster, tick.of, tick.todo) /\ AllLinked(known, tick.todo)
        /\ Waiting(known, cluster, tick.of, tick.pending, tick.todo)
        /\ tick.read \subseteq known
    BY <2>1 DEF Sorted, Merging, Clustering
  <2>3. \A t \in tick.todo : t \subseteq Addr /\ t # {}
    BY <2>1 DEF Types, Locals
  <2>4. AllLinked(known, tick.todo \ {s})
    BY <2>2 DEF AllLinked
  <2>5. Clusters(s) = Taken(tick.of, s)
    BY DEF Clusters, Taken
  <2>6. ASSUME NEW target PROVE Attach(s, target) = Added(tick.pending, tick.of, s, target)
    BY DEF Attach, Added, Unassigned
  <2>7. CASE /\ Clusters(s) = {} /\ UNCHANGED cluster
             /\ tick' = [tick EXCEPT !.todo = @ \ {s}, !.pending = Attach(s, Min(s))]
    <3>1. Min(s) \in s
      <4>1. s # {} /\ s \subseteq Nat
        BY <2>1, <2>3, Parameters
      <4> QED
        BY <4>1, LeastNatural
    <3>2. /\ Apart(cluster, tick.of, tick.todo \ {s})
          /\ Waiting(known, cluster, tick.of, Added(tick.pending, tick.of, s, Min(s)), tick.todo \ {s})
      BY <1>a, <1>b, <2>1, <2>2, <2>3, <2>5, <2>7, <3>1, NewCluster
    <3>3. /\ tick'.pc = "merge" /\ tick'.of = tick.of /\ tick'.todo = tick.todo \ {s} /\ tick'.read = tick.read
          /\ tick'.pending = Added(tick.pending, tick.of, s, Min(s))
      BY <1>a, <2>1, <2>6, <2>7 DEF Tick
    <3> QED
      BY <1>0, <1>a, <2>1, <2>2, <2>4, <2>7, <3>2, <3>3 DEF Sorted, Merging
  <2>8. ASSUME NEW target \in Clusters(s), cluster' = Repoint(s, target),
               tick' = [tick EXCEPT !.todo = @ \ {s}, !.pending = Attach(s, target)]
        PROVE  Sorted'
    <3>0. target \in Taken(tick.of, s)
      BY <2>5
    <3>1. cluster' = Moved(cluster, tick.of, s, target)
      BY <2>5, <2>8 DEF Repoint, Moved
    <3>2. Sound(known, cluster')
      <4>1. Sound(known, Moved(cluster, tick.of, s, target))
        BY <1>a, <1>b, <2>1, <2>2, <3>0, MoveIsSound
      <4> QED
        BY <3>1, <4>1
    <3>3. Apart(cluster', tick.of, tick.todo \ {s})
      BY <1>a, <1>b, <2>1, <2>2, <2>3, <3>1, MoveKeepsApart
    <3>4. Waiting(known, cluster', tick.of, Added(tick.pending, tick.of, s, target), tick.todo \ {s})
      <4>1. Waiting(known, Moved(cluster, tick.of, s, target), tick.of,
                    Added(tick.pending, tick.of, s, target), tick.todo \ {s})
        BY <1>a, <1>b, <2>1, <2>2, <2>3, <3>0, MoveKeepsWaiting
      <4> QED
        BY <3>1, <4>1
    <3>5. /\ tick'.pc = "merge" /\ tick'.of = tick.of /\ tick'.todo = tick.todo \ {s} /\ tick'.read = tick.read
          /\ tick'.pending = Added(tick.pending, tick.of, s, target)
      BY <1>a, <2>1, <2>6, <2>8 DEF Tick
    <3> QED
      BY <1>0, <2>1, <2>2, <2>4, <3>2, <3>3, <3>4, <3>5 DEF Sorted, Merging
  <2> QED
    BY <2>1, <2>7, <2>8
<1>10. CASE FlushPending
  <2>1. /\ tick.pc = "merge" /\ tick' = [tick EXCEPT !.pc = "save"] /\ UNCHANGED known
        /\ cluster' = [a \in Addr |-> IF tick.pending[a] # None THEN tick.pending[a] ELSE cluster[a]]
    BY <1>10 DEF FlushPending, Step, ghosts
  <2>2. Waiting(known, cluster, tick.of, tick.pending, tick.todo) /\ tick.read \subseteq known
    BY <2>1 DEF Sorted, Merging, Clustering
  <2>3. Sound(known, cluster')
    BY <1>a, <1>b, <2>1, <2>2, FlushIsSound
  <2>4. tick'.pc = "save" /\ tick'.read = tick.read
    BY <1>a, <2>1 DEF Tick
  <2> QED
    BY <1>0, <2>1, <2>2, <2>3, <2>4 DEF Sorted
<1>11. CASE SaveWatermark
  BY <1>11, <1>d, <1>e DEF SaveWatermark, ghosts
<1>12. CASE Scan
  <2>1. PICK some \in SUBSET GroupsIn(Above(tick.hi, Tip)) :
          /\ tick' = [tick EXCEPT !.pc = "truncate", !.read = InputGroups(Above(0, tick.hi)) \cup some,
                                  !.fork = Smaller(tick.fork, fork)]
          /\ UNCHANGED <<cluster, known>>
    BY <1>12 DEF Scan, tables
  <2>2. InputGroups(Above(0, tick.hi)) \subseteq known /\ some \subseteq known
    <3>1. tick.hi \in Nat /\ Tip \in Nat
      BY Numbers
    <3> QED
      BY <1>a, <3>1, GroupsRecorded DEF InputGroups
  <2>3. tick'.pc = "truncate" /\ tick'.read \subseteq known
    BY <1>a, <2>1, <2>2 DEF Tick
  <2> QED
    BY <1>0, <1>a, <2>1, <2>3 DEF Sorted
<1>13. CASE Truncate
  <2>1. /\ tick.pc = "truncate" /\ tick' = [tick EXCEPT !.pc = "fill"] /\ cluster' = Nowhere /\ UNCHANGED known
    BY <1>13 DEF Truncate, Step, ghosts
  <2>2. tick'.pc = "fill" /\ tick'.read = tick.read /\ tick.read \subseteq known
    BY <1>a, <2>1 DEF Tick, Sorted, Clustering
  <2>3. Sound(known, Nowhere)
    BY DEF Sound, Nowhere
  <2> QED
    BY <1>0, <2>1, <2>2, <2>3 DEF Sorted
<1>14. CASE Fill
  <2>1. /\ tick.pc = "fill" /\ tick' = [tick EXCEPT !.pc = "save"] /\ UNCHANGED known
        /\ cluster' = [a \in Addr |->
             IF a \in UNION tick.read THEN Min(CHOOSE s \in Components(tick.read) : a \in s) ELSE cluster[a]]
    BY <1>14 DEF Fill, Step, ghosts
  <2>2. \A a \in Addr : cluster[a] = None
    BY <2>1 DEF Sorted, Nowhere
  <2>3. cluster' = [a \in Addr |->
             IF a \in UNION tick.read THEN Min(CHOOSE s \in Components(tick.read) : a \in s) ELSE None]
    BY <2>1, <2>2
  <2>4. tick.read \subseteq known /\ tick.read \subseteq Groups
    BY <2>1 DEF Sorted, Types, Locals, Clustering
  <2>5. Sound(known, cluster')
    BY <2>3, <2>4, FillIsSound
  <2>6. tick'.pc = "save" /\ tick'.read = tick.read
    BY <1>a, <2>1 DEF Tick
  <2> QED
    BY <1>0, <2>1, <2>4, <2>5, <2>6 DEF Sorted
<1>15. CASE BatchUpper \/ LoadVotes \/ InsertClaims \/ SaveUpper
  <2>1. tick.pc \in Claiming /\ UNCHANGED <<cluster, known>>
    BY <1>15 DEF BatchUpper, LoadVotes, InsertClaims, SaveUpper, Claiming, tables, ghosts
  <2>2. tick'.pc \notin Clustering
    <3>1. job = "claims" /\ job' = job
      BY <2>1, JobStays DEF Types, Locals
    <3> QED
      BY <3>1 DEF Types, Locals
  <2> QED
    BY <1>d, <2>1, <2>2
<1>16. CASE ReadAnchor \/ ReadPolls \/ MarkPollComputed \/ \E v \in 1 .. MaxBlocks : Weigh(v)
  <2>1. UNCHANGED <<cluster, known>>
    BY <1>16 DEF ReadAnchor, ReadPolls, MarkPollComputed, Weigh, tables, ghosts
  <2>2. tick'.pc \notin Clustering
    <3>1. job = "weights" /\ job' = job
      BY <1>16, JobStays DEF ReadAnchor, ReadPolls, MarkPollComputed, Weigh, Types, Locals, Weighing
    <3> QED
      BY <3>1 DEF Types, Locals
  <2> QED
    BY <1>d, <2>1, <2>2
<1> QED
  BY <1>1, <1>2, <1>3, <1>4, <1>5, <1>6, <1>7, <1>8, <1>9, <1>10, <1>11, <1>12, <1>13, <1>14,
     <1>15, <1>16 DEF Next, TickStep

LEMMA AlwaysSorted == Spec => []Sorted
<1>1. Init => Sorted
  BY DEF Init, Sorted, Recorded, Sound, Nowhere, Idle, Clustering, Tip
<1>2. Types /\ Types' /\ Sorted /\ [Next]_vars => Sorted'
  BY SortedStep
<1> QED
  BY <1>1, <1>2, AlwaysTypes, PTL DEF Spec, Safety

(* No cluster joins addresses that no chain of co-spends connects.         *)
THEOREM OnlyLinkedMerge == Spec => []NoOverMerge
<1>1. Types /\ Sorted => NoOverMerge
  <2> SUFFICES ASSUME Types, Sorted, NEW a \in Addr, NEW b \in Addr, Together(a, b)
               PROVE  \E s \in Components(known) : {a, b} \subseteq s
    BY DEF NoOverMerge
  <2>1. Linked(known, a, cluster[a]) /\ Linked(known, b, cluster[a])
    BY DEF Sorted, Sound, Together
  <2>2. Linked(known, a, b) /\ a \in UNION known
    BY <2>1, LinkedBack, LinkedOn DEF Linked
  <2>3. PICK s \in Components(known) : a \in s
    BY <2>2, ComponentOf
  <2>4. s \in SUBSET UNION known /\ Closed(known, s)
    BY ComponentFacts, Zenon
  <2>5. b \in s
    BY <2>2, <2>3, <2>4 DEF Linked
  <2> QED
    BY <2>3, <2>5
<1> QED
  BY <1>1, AlwaysTypes, AlwaysSorted, PTL

(* Until a rebuild starts over, addresses found together stay together.    *)
THEOREM ClustersOnlyGrow == Spec => NeverSplit
<1> DEFINE Grows == tick.pc # "truncate" => \A a, b \in Addr : Together(a, b) => Together(a, b)'
<1>1. ASSUME Types, Sorted, [Next]_vars
      PROVE  Grows
  <2> SUFFICES ASSUME tick.pc # "truncate", NEW a \in Addr, NEW b \in Addr, Together(a, b)
               PROVE  Together(a, b)'
    OBVIOUS
  <2>0. cluster[a] # None /\ cluster[a] = cluster[b]
    BY DEF Together
  <2>1. CASE UNCHANGED cluster
    BY <2>0, <2>1 DEF Together
  <2>2. ASSUME NEW s \in SUBSET Addr, MergeComponent(s)
        PROVE  Together(a, b)'
    <3>1. UNCHANGED cluster \/ \E target \in Clusters(s) : cluster' = Repoint(s, target)
      BY <2>2 DEF MergeComponent
    <3> QED
      BY <2>0, <2>1, <3>1 DEF Together, Repoint, Clusters
  <2>3. CASE FlushPending
    <3>1. /\ cluster' = [x \in Addr |-> IF tick.pending[x] # None THEN tick.pending[x] ELSE cluster[x]]
          /\ tick.pc = "merge"
      BY <2>3 DEF FlushPending
    <3>2. tick.pending[a] = None /\ tick.pending[b] = None
      BY <1>1, <2>0, <3>1 DEF Sorted, Merging, Waiting
    <3> QED
      BY <2>0, <3>1, <3>2 DEF Together
  <2>4. CASE Fill
    BY <1>1, <2>0, <2>4 DEF Fill, Sorted, Nowhere
  <2>5. CASE Truncate
    BY <2>5 DEF Truncate
  <2>6. CASE \/ TickStart \/ CoSpendGroups \/ ReadAssigned \/ SaveWatermark \/ Scan
             \/ BatchUpper \/ LoadVotes \/ InsertClaims \/ SaveUpper
             \/ ReadAnchor \/ ReadPolls \/ MarkPollComputed \/ \E v \in 1 .. MaxBlocks : Weigh(v)
    <3>1. UNCHANGED cluster
      BY <2>6 DEF TickStart, CoSpendGroups, ReadAssigned, SaveWatermark, Scan, BatchUpper, LoadVotes,
                  InsertClaims, SaveUpper, ReadAnchor, ReadPolls, MarkPollComputed, Weigh, tables
    <3> QED
      BY <2>1, <3>1
  <2>7. CASE \/ ClockTicks \/ RebuildStart \/ TickFails \/ UNCHANGED vars
             \/ \E item \in Item, time \in 1 .. MaxTime : Apply(item, time)
             \/ \E to \in Height : RollBack(to) \/ Wipe(to)
    <3>1. UNCHANGED cluster
      BY <2>7 DEF ClockTicks, RebuildStart, TickFails, vars, Apply, RollBack, Wipe, tables
    <3> QED
      BY <2>1, <3>1
  <2> QED
    BY <1>1, <2>2, <2>3, <2>4, <2>5, <2>6, <2>7 DEF Next, TickStep
<1> HIDE DEF Grows
<1>2. Types /\ Sorted /\ [Next]_vars => [Grows]_vars
  BY <1>1
<1>3. Spec => [][Grows]_vars
  BY <1>2, AlwaysTypes, AlwaysSorted, PTL DEF Spec, Safety
<1> QED
  BY <1>3 DEF NeverSplit, Grows
=============================================================================
