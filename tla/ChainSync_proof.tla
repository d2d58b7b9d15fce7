---------------------------- MODULE ChainSync_proof ----------------------------
(***************************************************************************)
(* The index and the daemon's chain, for chains, batches, windows and      *)
(* depths of any size, any number of reorganisations, and any number of    *)
(* crashes and ticks cut short.                                            *)
(*                                                                         *)
(* As long as the daemon has never reorganised, all three jobs may         *)
(* interleave as they like: what any of them stores or remembers is on the *)
(* daemon's chain (Straight), so that nobody ever starts a rollback.       *)
(*                                                                         *)
(* Across reorganisations a theorem needs to know who else is writing.     *)
(* The status of the cursor keeps TipFollower and the backfiller apart     *)
(* (TakesTurns), so that what vouches for a row outlives it (Vouched).     *)
(* With TipFollower alone, and no tick cut short, the tables are at every  *)
(* await those of one path from genesis (Followed).  Nothing keeps the     *)
(* sweep apart from the others: with it, Watermark and RowsLinked can      *)
(* break after a reorganisation.                                           *)
(***************************************************************************)
EXTENDS ChainSync, FiniteSetsExt, SequenceTheorems, FiniteSetTheorems, WellFoundedInduction, TLAPS

-----------------------------------------------------------------------------
(* Max of FiniteSetsExt chooses: that there is something to choose comes   *)
(* from the well-foundedness of the naturals.                              *)

(* A set of naturals with an element has a least one. *)
LEMMA LeastElement ==
  ASSUME NEW S \in SUBSET Nat, S # {}
  PROVE  \E x \in S : \A y \in S : x <= y
<1>1. PICK x \in S : \A y \in S : ~(<<y, x>> \in OpToRel(<, Nat))
  BY NatLessThanWellFounded, WFMin, Zenon
<1>2. \A y \in S : ~(y < x)
  BY <1>1, Zenon DEF OpToRel
<1> QED
  BY <1>2

(* Max is an element and an upper bound of a bounded set that has one. *)
LEMMA GreatestElement ==
  ASSUME NEW n \in Int, NEW m \in Int, NEW S \in SUBSET (m .. n), S # {}
  PROVE  Max(S) \in S /\ \A y \in S : y <= Max(S)
<1> DEFINE T == {k \in Nat : n - k \in S}
<1>1. T # {} /\ T \in SUBSET Nat
  <2>1. PICK s \in S : TRUE
    OBVIOUS
  <2>2. n - (n - s) \in S /\ n - s \in Nat
    OBVIOUS
  <2> QED
    BY <2>2
<1>2. PICK k \in T : \A j \in T : k <= j
  <2> HIDE DEF T
  <2> QED
    BY <1>1, LeastElement
<1>3. \A y \in S : n - k >= y
  <2> TAKE y \in S
  <2>1. n - (n - y) = y /\ n - y \in Nat
    OBVIOUS
  <2>2. n - y \in T
    BY <2>1
  <2> QED
    BY <2>2, <1>2
<1>4. n - k \in S
  BY <1>2
<1> QED
  BY <1>3, <1>4 DEF Max

LEMMA GreatestNatural ==
  ASSUME NEW n \in Nat, NEW S, S \subseteq 0 .. n, S # {}
  PROVE  Max(S) \in S /\ \A y \in S : y <= Max(S)
<1>1. S \in SUBSET (0 .. n) /\ 0 \in Int /\ n \in Int
  OBVIOUS
<1> QED
  BY <1>1, GreatestElement, Zenon

-----------------------------------------------------------------------------
LEMMA Parameters ==
  /\ Jobs \subseteq {"fill", "tip", "sweep"} /\ Fresh \in BOOLEAN
  /\ InitialTip \in Nat /\ SafeConfirmations \in Nat /\ MaxReorgDepth \in Nat /\ LagThreshold \in Nat
  /\ MinGain \in Nat /\ DaemonDepth \in Nat /\ MaxHeight \in Nat /\ MaxReorgs \in Nat
  /\ MaxFaults \in Nat /\ MaxRounds \in Nat
  /\ CatchupSpan \in Nat \ {0} /\ SweepWindow \in Nat \ {0} /\ InitialTip <= MaxHeight
  BY ChainAssumption DEF ChainAssumption

USE Parameters

(* What a job remembers. *)
Local == [seen : Cursors, height : -1 .. MaxHeight, hash : Hash \cup {NoHash}, goal : Heights,
          batch : Seq(Hash), stored : SUBSET Hash, probe : -1 .. MaxHeight]

(* There is a block to apply, and a height to compare; a run starts with   *)
(* nothing to apply.                                                       *)
Shaped(p, l) ==
  /\ p = "maxRow" => l.batch = << >>
  /\ p \in ApplySteps => l.batch # << >>
  /\ p = "stored" => l.probe >= 0
  /\ p \in {"stored", "deleteBlocks", "deleteRest", "moveCursor"} => l.height >= 0

Shape == \A j \in Jobs : Shaped(pc[j], at[j])

-----------------------------------------------------------------------------
(* A daemon that has never reorganised.                                    *)

(* A cursor that is there names a row. *)
Names(r, c) == c = NoCursor \/ (c.height \in Heights /\ r[c.height] = c.hash /\ c.hash # NoHash)

OnDaemon(d, h, b) == h <= Height(d) /\ b = OnChain(d, h)

RowsOnDaemon(d, r) ==
  \A h \in Heights : r[h] # NoHash =>
    OnDaemon(d, h, r[h]) /\ (h > 0 => r[h - 1] # NoHash)

(* Where a job thinks the index ends there is a row, and a cursor unless   *)
(* the job is about to write it; it applies the daemon's next blocks, and  *)
(* compares only the daemon's blocks.                                      *)
Place(r, c, p, n, b) ==
  /\ n = -1 => b = NoHash
  /\ n >= 0 => r[n] # NoHash /\ b \in {NoHash, r[n]}
  /\ p # "reconcile" /\ n >= 0 => c # NoCursor
  /\ p = "reconcile" => n >= 0 /\ b # NoHash
  /\ p = "readLive" => n >= 0
Written(r, p, n) == p \in {"readStatus", "advance"} => n + 1 \in Heights /\ r[n + 1] # NoHash
Ahead(d, n, B) == \A i \in 1 .. Len(B) : OnDaemon(d, n + i, B[i])
Found(d, R) == \A b \in R : OnDaemon(d, Height(b), b)

Sound(d, r, c, p, l) ==
  /\ p \notin HandleSteps
  /\ Names(r, l.seen)
  /\ Place(r, c, p, l.height, l.hash)
  /\ Written(r, p, l.height)
  /\ p \in {"markLive", "rewind"} => l.seen # NoCursor
  /\ Ahead(d, l.height, l.batch)
  /\ Found(d, l.stored)

Straight ==
  /\ RowsOnDaemon(daemon, rows) /\ Names(rows, cursor)
  /\ \A j \in Jobs : Sound(daemon, rows, cursor, pc[j], at[j])

-----------------------------------------------------------------------------
(* TipFollower and the backfiller take turns.                              *)

Exclusive == "sweep" \notin Jobs /\ (~Fresh \/ "fill" \notin Jobs)

Own(j) == IF j = "tip" THEN "live" ELSE "backfilling"

Turn(j, p, l, c) ==
  p # "idle" => /\ c.status = Own(j) /\ l.seen.height >= 0
                /\ p = "advance" => l.seen.status = Own(j)
                /\ p = "reconcile" => l.height >= 0

TakesTurns ==
  ~Fresh => cursor.height >= 0 /\ \A j \in Jobs : Turn(j, pc[j], at[j], cursor)

Alone == \A j, k \in Jobs : pc[j] # "idle" /\ pc[k] # "idle" => j = k

(* What vouches for a row: the other tables have its block already when it *)
(* is written, and lose it only once the row is gone.                      *)
RowsAtHeights == \A h \in Heights : rows[h] # NoHash => Height(rows[h]) = h

Voucher(x, r, p, l) ==
  /\ p = "writeBlocks" => Head(l.batch) \in x
  /\ p = "deleteRest" => \A h \in Heights : h > l.height => r[h] = NoHash

Vouched == Watermark /\ RowsAtHeights /\ \A j \in Jobs : Voucher(extras, rows, pc[j], at[j])

-----------------------------------------------------------------------------
(* TipFollower alone.                                                      *)

Path(T) == [h \in Heights |-> IF h <= Height(T) THEN OnChain(T, h) ELSE NoHash]
BlocksOf(T) == {OnChain(T, h) : h \in 0 .. Height(T)}

(* The chain of rows at each await, and the blocks the other tables have. *)
Top(c, p, l) ==
  CASE p \in {"readStatus", "advance"} -> Head(l.batch)
    [] p \in {"deleteRest", "moveCursor"} -> l.hash
    [] OTHER -> c.hash
Others(c, p, l) ==
  CASE p = "deleteRest" -> BlocksOf(c.hash)
    [] p = "writeBlocks" -> BlocksOf(c.hash) \cup {Head(l.batch)}
    [] OTHER -> BlocksOf(Top(c, p, l))

Walking == {"getTip", "rewind", "fetch", "check"} \cup ApplySteps
Cutting == {"deleteBlocks", "deleteRest", "moveCursor"}

Rising(n, B) == \A i \in 1 .. Len(B) : Height(B[i]) = n + i

(* What the tick remembers of the cursor and of the blocks to apply. *)
Aware(c, p, l) ==
  /\ p \in Walking => l.height = c.height /\ l.hash = c.hash
  /\ p \in {"getTip", "rewind", "probe", "stored", "giveUp"} => l.seen = c
  /\ Rising(l.height, l.batch)
  /\ p \in HandleSteps \ {"handle"} => l.batch = << >>
  /\ p \in ApplySteps => Parent(Head(l.batch)) = l.hash
  /\ p \in {"probe", "stored"} => l.probe <= c.height
  /\ p = "stored" => l.height = l.probe /\ l.hash # NoHash
  /\ p \in Cutting => l.height <= c.height /\ l.hash = OnChain(c.hash, l.height)

Following(c, r, x, p, l) ==
  /\ Height(c.hash) = c.height
  /\ r = Path(Top(c, p, l)) /\ x = Others(c, p, l) /\ Aware(c, p, l)

Followed == Following(cursor, rows, extras, pc["tip"], at["tip"])

-----------------------------------------------------------------------------
(* Hashes: paths from genesis.                                             *)

LEMMA HashIsSeq ==
  ASSUME NEW s \in Hash
  PROVE  /\ s \in Seq(Branch) /\ Len(s) \in 1 .. MaxHeight + 1 /\ Height(s) \in Heights
         /\ Len(s) = Height(s) + 1 /\ s # NoHash
<1>1. PICK h \in Heights : s \in [1 .. h + 1 -> Branch]
  BY DEF Hash
<1>2. h \in 0 .. MaxHeight
  BY DEF Heights
<1>3. s \in Seq(Branch) /\ Len(s) = h + 1
  BY <1>1, <1>2
<1> QED
  BY <1>2, <1>3 DEF Height, Heights, NoHash

LEMMA SeqIsHash ==
  ASSUME NEW s \in Seq(Branch), Len(s) \in 1 .. MaxHeight + 1
  PROVE  s \in Hash
<1>1. s \in [1 .. Len(s) -> Branch]
  BY LenProperties
<1>2. Len(s) - 1 \in Heights /\ (Len(s) - 1) + 1 = Len(s)
  BY DEF Heights
<1> QED
  BY <1>1, <1>2 DEF Hash

(* The block at height h of the chain of s. *)
LEMMA OnChainIsHash ==
  ASSUME NEW s \in Hash, NEW h \in 0 .. Height(s)
  PROVE  /\ OnChain(s, h) \in Hash /\ Height(OnChain(s, h)) = h /\ Len(OnChain(s, h)) = h + 1
         /\ OnChain(s, h) # NoHash
         /\ \A i \in 1 .. h + 1 : OnChain(s, h)[i] = s[i]
<1>1. s \in Seq(Branch) /\ Len(s) \in 1 .. MaxHeight + 1 /\ Len(s) = Height(s) + 1 /\ Height(s) \in Nat
  BY HashIsSeq DEF Heights
<1>2. h + 1 \in 1 .. Len(s) /\ h + 1 \in 1 .. MaxHeight + 1
  BY <1>1
<1>3. /\ SubSeq(s, 1, h + 1) \in Seq(Branch) /\ Len(SubSeq(s, 1, h + 1)) = h + 1
      /\ \A i \in 1 .. h + 1 : SubSeq(s, 1, h + 1)[i] = s[i]
  <2> DEFINE n == h + 1
  <2>1. n \in 1 .. Len(s)
    BY <1>2
  <2> HIDE DEF n
  <2>2. /\ SubSeq(s, 1, n) \in Seq(Branch) /\ Len(SubSeq(s, 1, n)) = n
        /\ \A i \in 1 .. n : SubSeq(s, 1, n)[i] = s[i]
    BY <1>1, <2>1
  <2> QED
    BY <2>2 DEF n
<1>4. OnChain(s, h) \in Hash
  BY <1>2, <1>3, SeqIsHash, Zenon DEF OnChain
<1>5. Height(OnChain(s, h)) = h /\ Len(OnChain(s, h)) = h + 1
  BY <1>3 DEF OnChain, Height
<1> QED
  BY <1>3, <1>4, <1>5, HashIsSeq, Zenon DEF OnChain

(* Two hashes of the same height with the same branches are one. *)
LEMMA SameHash ==
  ASSUME NEW s \in Hash, NEW t \in Hash, Len(s) = Len(t), \A i \in 1 .. Len(s) : s[i] = t[i]
  PROVE  s = t
<1>1. s \in Seq(Branch) /\ t \in Seq(Branch)
  BY HashIsSeq, Zenon
<1> QED
  BY <1>1, SeqEqual

LEMMA OnChainSelf ==
  ASSUME NEW s \in Hash
  PROVE  OnChain(s, Height(s)) = s
<1>1. Height(s) \in 0 .. Height(s) /\ Len(s) = Height(s) + 1
  BY HashIsSeq DEF Heights
<1>2. /\ OnChain(s, Height(s)) \in Hash /\ Len(OnChain(s, Height(s))) = Len(s)
      /\ \A i \in 1 .. Len(s) : OnChain(s, Height(s))[i] = s[i]
  BY <1>1, OnChainIsHash, Zenon
<1> QED
  BY <1>2, SameHash, Zenon

LEMMA OnChainTwice ==
  ASSUME NEW s \in Hash, NEW h \in 0 .. Height(s), NEW k \in 0 .. h
  PROVE  OnChain(OnChain(s, h), k) = OnChain(s, k)
<1>1. Height(s) \in Nat
  BY HashIsSeq DEF Heights
<1>2. k \in 0 .. Height(s) /\ h \in Nat /\ k \in Nat
  BY <1>1
<1>3. /\ OnChain(s, h) \in Hash /\ Height(OnChain(s, h)) = h
      /\ \A i \in 1 .. h + 1 : OnChain(s, h)[i] = s[i]
  BY OnChainIsHash, Zenon
<1>4. /\ OnChain(s, k) \in Hash /\ Len(OnChain(s, k)) = k + 1
      /\ \A i \in 1 .. k + 1 : OnChain(s, k)[i] = s[i]
  BY <1>2, OnChainIsHash, Zenon
<1>5. /\ OnChain(OnChain(s, h), k) \in Hash /\ Len(OnChain(OnChain(s, h), k)) = k + 1
      /\ \A i \in 1 .. k + 1 : OnChain(OnChain(s, h), k)[i] = OnChain(s, h)[i]
  BY <1>3, OnChainIsHash, Zenon
<1>6. \A i \in 1 .. k + 1 : i \in 1 .. h + 1
  BY <1>2
<1>7. \A i \in 1 .. k + 1 : OnChain(OnChain(s, h), k)[i] = OnChain(s, k)[i]
  BY <1>3, <1>4, <1>5, <1>6, Zenon
<1> QED
  BY <1>4, <1>5, <1>7, SameHash, Zenon

LEMMA ParentOnChain ==
  ASSUME NEW s \in Hash
  PROVE  /\ Height(s) = 0 => Parent(s) = NoHash
         /\ Height(s) > 0 => Parent(s) = OnChain(s, Height(s) - 1)
<1>1. s \in Seq(Branch) /\ Len(s) = Height(s) + 1 /\ Height(s) \in Nat
  BY HashIsSeq DEF Heights
<1>2. Parent(s) = SubSeq(s, 1, Len(s) - 1)
  BY DEF Parent, Front
<1>3. CASE Height(s) = 0
  <2>1. SubSeq(s, 1, 0) = << >>
    BY <1>1
  <2> QED
    BY <1>1, <1>2, <1>3, <2>1 DEF NoHash
<1>4. CASE Height(s) > 0
  <2>1. Len(s) - 1 = (Height(s) - 1) + 1
    BY <1>1
  <2> QED
    BY <1>2, <1>4, <2>1 DEF OnChain
<1> QED
  BY <1>1, <1>3, <1>4

(* The daemon's chain grows. *)
LEMMA Extended ==
  ASSUME NEW s \in Hash, Height(s) < MaxHeight
  PROVE  /\ Append(s, 0) \in Hash /\ Height(Append(s, 0)) = Height(s) + 1
         /\ \A h \in 0 .. Height(s) : OnChain(Append(s, 0), h) = OnChain(s, h)
<1>1. s \in Seq(Branch) /\ Len(s) = Height(s) + 1 /\ Height(s) \in Nat
  BY HashIsSeq DEF Heights
<1>2. /\ Append(s, 0) \in Seq(Branch) /\ Len(Append(s, 0)) = Len(s) + 1
      /\ \A i \in 1 .. Len(s) : Append(s, 0)[i] = s[i]
  BY <1>1 DEF Branch
<1>3. Append(s, 0) \in Hash
  <2>1. Len(Append(s, 0)) \in 1 .. MaxHeight + 1
    BY <1>1, <1>2
  <2> QED
    BY <1>2, <2>1, SeqIsHash, Zenon
<1>4. Height(Append(s, 0)) = Height(s) + 1
  BY <1>1, <1>2 DEF Height
<1>5. ASSUME NEW h \in 0 .. Height(s) PROVE OnChain(Append(s, 0), h) = OnChain(s, h)
  <2>1. h \in 0 .. Height(Append(s, 0)) /\ \A i \in 1 .. h + 1 : i \in 1 .. Len(s)
    BY <1>1, <1>4
  <2>2. /\ OnChain(s, h) \in Hash /\ Len(OnChain(s, h)) = h + 1
        /\ \A i \in 1 .. h + 1 : OnChain(s, h)[i] = s[i]
    BY OnChainIsHash, Zenon
  <2>3. /\ OnChain(Append(s, 0), h) \in Hash /\ Len(OnChain(Append(s, 0), h)) = h + 1
        /\ \A i \in 1 .. h + 1 : OnChain(Append(s, 0), h)[i] = Append(s, 0)[i]
    BY <1>3, <2>1, OnChainIsHash, Zenon
  <2>4. \A i \in 1 .. h + 1 : OnChain(Append(s, 0), h)[i] = OnChain(s, h)[i]
    BY <1>2, <2>1, <2>2, <2>3, Zenon
  <2> QED
    BY <2>2, <2>3, <2>4, SameHash, Zenon
<1> QED
  BY <1>3, <1>4, <1>5, Zenon

-----------------------------------------------------------------------------
(* What a step does to the locals of its job.                              *)

Fields(l, c, n, h, g, b, r, p) ==
  /\ l.seen = c /\ l.height = n /\ l.hash = h /\ l.goal = g
  /\ l.batch = b /\ l.stored = r /\ l.probe = p

LEMMA LocalUpdates ==
  ASSUME NEW l \in Local, NEW c \in Cursors, NEW n \in -1 .. MaxHeight, NEW h \in Hash \cup {NoHash},
         NEW g \in Heights, NEW b \in Seq(Hash), NEW r \in SUBSET Hash, NEW p \in -1 .. MaxHeight
  PROVE  /\ [l EXCEPT !.seen = c] \in Local
         /\ Fields([l EXCEPT !.seen = c], c, l.height, l.hash, l.goal, l.batch, l.stored, l.probe)
         /\ [l EXCEPT !.height = n, !.hash = h] \in Local
         /\ Fields([l EXCEPT !.height = n, !.hash = h], l.seen, n, h, l.goal, l.batch, l.stored, l.probe)
         /\ [l EXCEPT !.height = n, !.hash = h, !.batch = b] \in Local
         /\ Fields([l EXCEPT !.height = n, !.hash = h, !.batch = b], l.seen, n, h, l.goal, b, l.stored, l.probe)
         /\ [l EXCEPT !.seen = c, !.probe = p, !.batch = b] \in Local
         /\ Fields([l EXCEPT !.seen = c, !.probe = p, !.batch = b], c, l.height, l.hash, l.goal, b, l.stored, p)
         /\ [l EXCEPT !.seen = c, !.height = n, !.hash = h] \in Local
         /\ Fields([l EXCEPT !.seen = c, !.height = n, !.hash = h], c, n, h, l.goal, l.batch, l.stored, l.probe)
         /\ [l EXCEPT !.seen = c, !.height = n] \in Local
         /\ Fields([l EXCEPT !.seen = c, !.height = n], c, n, l.hash, l.goal, l.batch, l.stored, l.probe)
         /\ [l EXCEPT !.probe = p] \in Local
         /\ Fields([l EXCEPT !.probe = p], l.seen, l.height, l.hash, l.goal, l.batch, l.stored, p)
         /\ [l EXCEPT !.goal = g] \in Local
         /\ Fields([l EXCEPT !.goal = g], l.seen, l.height, l.hash, g, l.batch, l.stored, l.probe)
         /\ [l EXCEPT !.batch = b] \in Local
         /\ Fields([l EXCEPT !.batch = b], l.seen, l.height, l.hash, l.goal, b, l.stored, l.probe)
         /\ [l EXCEPT !.stored = r] \in Local
         /\ Fields([l EXCEPT !.stored = r], l.seen, l.height, l.hash, l.goal, l.batch, r, l.probe)
  BY DEF Local, Fields

(* The updates of one field, one at a time. *)
LEMMA GoalUpdate ==
  ASSUME NEW l \in Local, NEW g \in Heights
  PROVE  /\ [l EXCEPT !.goal = g] \in Local
         /\ Fields([l EXCEPT !.goal = g], l.seen, l.height, l.hash, g, l.batch, l.stored, l.probe)
  BY DEF Local, Fields

LEMMA BatchUpdate ==
  ASSUME NEW l \in Local, NEW b \in Seq(Hash)
  PROVE  /\ [l EXCEPT !.batch = b] \in Local
         /\ Fields([l EXCEPT !.batch = b], l.seen, l.height, l.hash, l.goal, b, l.stored, l.probe)
  BY DEF Local, Fields

LEMMA StoredUpdate ==
  ASSUME NEW l \in Local, NEW r \in SUBSET Hash
  PROVE  /\ [l EXCEPT !.stored = r] \in Local
         /\ Fields([l EXCEPT !.stored = r], l.seen, l.height, l.hash, l.goal, l.batch, r, l.probe)
  BY DEF Local, Fields

(* Some value of each type. *)
LEMMA Fillers ==
  /\ NoCursor \in Cursors /\ -1 \in -1 .. MaxHeight /\ NoHash \in Hash \cup {NoHash}
  /\ 0 \in Heights /\ << >> \in Seq(Hash) /\ {} \in SUBSET Hash
<1>1. NoCursor \in Cursors
  BY DEF NoCursor, Cursor, Cursors, Status
<1> QED
  BY <1>1 DEF Heights

LEMMA HeightsAreHeights == \A h \in Heights : h \in -1 .. MaxHeight /\ h \in Nat /\ h <= MaxHeight
  BY DEF Heights

(* The types of the locals alone. *)
LEMMA LocalTypes ==
  ASSUME NEW l \in Local
  PROVE  /\ l.seen \in Cursors /\ l.height \in -1 .. MaxHeight /\ l.hash \in Hash \cup {NoHash}
         /\ l.goal \in Heights /\ l.batch \in Seq(Hash) /\ l.stored \subseteq Hash
         /\ l.probe \in -1 .. MaxHeight
  BY DEF Local

LEMMA IdleIsLocal ==
  /\ NoCursor \in Cursors /\ Idle \in Local
  /\ Fields(Idle, NoCursor, -1, NoHash, 0, << >>, {}, 0)
<1>1. NoCursor \in Cursors
  BY DEF NoCursor, Cursor, Cursors, Status
<1>2. << >> \in Seq(Hash) /\ 0 \in Heights
  BY DEF Heights
<1>3. Fields(Idle, NoCursor, -1, NoHash, 0, << >>, {}, 0)
  BY DEF Fields, Idle
<1>4. Idle \in Local
  BY <1>1, <1>2 DEF Idle, Local
<1> QED
  BY <1>1, <1>3, <1>4, Zenon

JobTypes == pc \in [Jobs -> Steps] /\ at \in [Jobs -> Local]
SharedTypes ==
  /\ daemon \in Hash /\ rows \in [Heights -> Hash \cup {NoHash}] /\ extras \subseteq Hash /\ cursor \in Cursors
  /\ reorgs \in 0 .. MaxReorgs /\ faults \in 0 .. MaxFaults /\ rounds \in 0 .. MaxRounds

LEMMA Typed == TypeOK <=> SharedTypes /\ JobTypes
  BY Zenon DEF TypeOK, SharedTypes, JobTypes, Local

Moves(j, s, m) ==
  /\ s \in Steps /\ m \in Local
  /\ pc' = [pc EXCEPT ![j] = s] /\ at' = [at EXCEPT ![j] = m]

LEMMA MoveEffect ==
  ASSUME JobTypes, NEW j \in Jobs, NEW s, NEW m, Moves(j, s, m)
  PROVE  /\ JobTypes' /\ pc'[j] = s /\ at'[j] = m
         /\ \A k \in Jobs \ {j} : pc'[k] = pc[k] /\ at'[k] = at[k]
<1>1. /\ pc \in [Jobs -> Steps] /\ at \in [Jobs -> Local] /\ s \in Steps /\ m \in Local
      /\ pc' = [pc EXCEPT ![j] = s] /\ at' = [at EXCEPT ![j] = m]
  BY Zenon DEF JobTypes, Moves
<1>2. pc' \in [Jobs -> Steps] /\ pc'[j] = s /\ \A k \in Jobs \ {j} : pc'[k] = pc[k]
  BY <1>1
<1>3. at' \in [Jobs -> Local] /\ at'[j] = m /\ \A k \in Jobs \ {j} : at'[k] = at[k]
  BY <1>1
<1> QED
  BY <1>2, <1>3, Zenon DEF JobTypes

LEMMA GotoMoves ==
  ASSUME JobTypes, NEW j \in Jobs, NEW s \in Steps, Goto(j, s)
  PROVE  /\ at' = at => Moves(j, s, at[j])
         /\ \A m \in Local : Keep(j, m) => Moves(j, s, m)
         /\ at[j] \in Local
<1>1. at \in [Jobs -> Local] /\ at[j] \in Local /\ pc' = [pc EXCEPT ![j] = s]
  BY Zenon DEF JobTypes, Goto
<1>2. at = [at EXCEPT ![j] = at[j]]
  BY <1>1
<1> QED
  BY <1>1, <1>2, Zenon DEF Moves, Keep

LEMMA FinishMoves ==
  ASSUME JobTypes, NEW j \in Jobs, Finish(j)
  PROVE  Moves(j, "idle", Idle)
<1>1. "idle" \in Steps
  BY DEF Steps
<1> QED
  BY <1>1, GotoMoves, IdleIsLocal, Zenon DEF Finish

(* Cursors. *)
LEMMA CursorIs ==
  ASSUME NEW h \in -1 .. MaxHeight, NEW b \in Hash \cup {NoHash}, NEW t \in Status
  PROVE  /\ Cursor(h, b, t) \in Cursors
         /\ Cursor(h, b, t).height = h /\ Cursor(h, b, t).hash = b /\ Cursor(h, b, t).status = t
  BY DEF Cursor, Cursors

LEMMA CursorMarked ==
  ASSUME NEW c \in Cursors, NEW t \in Status
  PROVE  /\ [c EXCEPT !.status = t] \in Cursors /\ [c EXCEPT !.status = t].height = c.height
         /\ [c EXCEPT !.status = t].hash = c.hash /\ [c EXCEPT !.status = t].status = t
  BY DEF Cursors

LEMMA CursorParts ==
  /\ \A c \in Cursors : c.height \in -1 .. MaxHeight /\ c.hash \in Hash \cup {NoHash} /\ c.status \in Status
  /\ NoCursor.height = -1 /\ NoCursor.hash = NoHash /\ NoCursor.status = "backfilling"
<1>1. \A c \in Cursors : c.height \in -1 .. MaxHeight /\ c.hash \in Hash \cup {NoHash} /\ c.status \in Status
  BY DEF Cursors
<1>2. NoCursor.height = -1 /\ NoCursor.hash = NoHash /\ NoCursor.status = "backfilling"
  BY DEF NoCursor, Cursor
<1> QED
  BY <1>1, <1>2, Zenon

-----------------------------------------------------------------------------
(* BlockWriter.applyBlocks().                                              *)

ApplyTo(j) == IF j = "fill" THEN "next" ELSE "check"

LEMMA ApplyEffect ==
  ASSUME SharedTypes, JobTypes, Shape, NEW j \in Jobs, Apply(j)
  PROVE  LET l == at[j]  b == Head(l.batch) IN
         /\ l \in Local /\ b \in Hash /\ l.batch # << >> /\ pc[j] \in ApplySteps
         /\ UNCHANGED <<daemon, counters>>
         /\ \/ /\ pc[j] = "writeRest" /\ Moves(j, "writeBlocks", l)
               /\ extras' = extras \cup {b} /\ UNCHANGED <<rows, cursor>>
            \/ /\ pc[j] = "writeBlocks" /\ Moves(j, "readStatus", l) /\ UNCHANGED <<extras, cursor>>
               /\ rows' = [rows EXCEPT ![Height(b)] = IF @ = NoHash THEN b ELSE @]
            \/ /\ pc[j] = "readStatus" /\ UNCHANGED <<rows, extras, cursor>>
               /\ \E m : /\ Moves(j, "advance", m)
                         /\ Fields(m, cursor, l.height, l.hash, l.goal, l.batch, l.stored, l.probe)
            \/ /\ pc[j] = "advance" /\ UNCHANGED <<rows, extras>>
               /\ cursor' = Cursor(Height(b), b, l.seen.status)
               /\ \E m : /\ Moves(j, ApplyTo(j), m)
                         /\ Fields(m, l.seen, Height(b), b, l.goal, Tail(l.batch), l.stored, l.probe)
<1> DEFINE l == at[j]
           b == Head(l.batch)
<1>1. l \in Local /\ pc[j] \in ApplySteps
  BY DEF JobTypes, Apply, WriteRest, WriteBlocks, ReadStatus, Advance, At, ApplySteps
<1>2. l.batch # << >> /\ l.batch \in Seq(Hash)
  BY <1>1, LocalTypes, Zenon DEF Shape, Shaped
<1>3. b \in Hash /\ Tail(l.batch) \in Seq(Hash)
  BY <1>2
<1>4. "writeBlocks" \in Steps /\ "readStatus" \in Steps /\ "advance" \in Steps /\ ApplyTo(j) \in Steps
  BY DEF Steps, ApplySteps, ApplyTo
<1>5. UNCHANGED <<daemon, counters>>
  BY Zenon DEF Apply, WriteRest, WriteBlocks, ReadStatus, Advance
<1>6. CASE WriteRest(j)
  <2>1. Moves(j, "writeBlocks", l)
    BY <1>4, <1>6, GotoMoves, Zenon DEF WriteRest
  <2> QED
    BY <1>1, <1>2, <1>3, <1>5, <1>6, <2>1, Zenon DEF WriteRest, At
<1>7. CASE WriteBlocks(j)
  <2>1. Moves(j, "readStatus", l)
    BY <1>4, <1>7, GotoMoves, Zenon DEF WriteBlocks
  <2> QED
    BY <1>1, <1>2, <1>3, <1>5, <1>7, <2>1, Zenon DEF WriteBlocks, At
<1>8. CASE ReadStatus(j)
  <2> DEFINE m == [l EXCEPT !.seen = cursor]
  <2>1. m \in Local /\ Fields(m, cursor, l.height, l.hash, l.goal, l.batch, l.stored, l.probe)
    <3>1. cursor \in Cursors
      BY Zenon DEF SharedTypes
    <3> QED
      BY <1>1, <3>1, LocalUpdates, IdleIsLocal, Fillers, Zenon
  <2>2. Keep(j, m) /\ Goto(j, "advance") /\ pc[j] = "readStatus" /\ UNCHANGED <<tables, cursor>>
    BY <1>8, Zenon DEF ReadStatus, At
  <2> HIDE DEF m
  <2>3. Moves(j, "advance", m)
    BY <1>4, <2>1, <2>2, GotoMoves, Zenon
  <2> QED
    BY <1>1, <1>2, <1>3, <1>5, <2>1, <2>2, <2>3, Zenon DEF tables
<1>9. CASE Advance(j)
  <2> DEFINE m == [l EXCEPT !.height = Height(b), !.hash = b, !.batch = Tail(l.batch)]
  <2>0. Height(b) \in -1 .. MaxHeight
    <3>1. Height(b) \in Heights
      BY <1>3, HashIsSeq, Zenon
    <3> QED
      BY <3>1, HeightsAreHeights, Zenon
  <2>1. m \in Local /\ Fields(m, l.seen, Height(b), b, l.goal, Tail(l.batch), l.stored, l.probe)
    <3>1. b \in Hash \cup {NoHash}
      BY <1>3
    <3> HIDE DEF b
    <3> QED
      BY <1>1, <1>3, <2>0, <3>1, LocalUpdates, Fillers, Zenon
  <2>2. /\ Keep(j, m) /\ Goto(j, ApplyTo(j)) /\ pc[j] = "advance" /\ UNCHANGED tables
        /\ cursor' = Cursor(Height(b), b, l.seen.status)
    BY <1>9 DEF Advance, At, ApplyTo
  <2> HIDE DEF m
  <2>3. Moves(j, ApplyTo(j), m)
    BY <1>4, <2>1, <2>2, GotoMoves, Zenon
  <2> QED
    BY <1>1, <1>2, <1>3, <1>5, <2>1, <2>2, <2>3, Zenon DEF tables
<1> QED
  BY <1>6, <1>7, <1>8, <1>9, Zenon DEF Apply

-----------------------------------------------------------------------------
(* ChainReorgHandler.handle().                                             *)

LEMMA Named ==
  /\ {"handle", "probe", "stored", "giveUp", "deleteBlocks", "deleteRest", "moveCursor"} \subseteq Steps
  /\ {"idle", "getTip", "rewind", "fetch", "check", "query", "compare", "maxRow", "reconcile",
      "getTarget", "next", "readLive", "markLive", "writeRest"} \subseteq Steps
  BY DEF Steps, HandleSteps, ApplySteps

LEMMA ProbeEffect ==
  ASSUME SharedTypes, JobTypes, NEW j \in Jobs, Probe(j)
  PROVE  LET l == at[j] IN
         /\ pc[j] = "probe" /\ UNCHANGED <<daemon, rows, extras, cursor, counters>>
         /\ \/ Moves(j, "giveUp", l)
            \/ Moves(j, "idle", Idle)
            \/ /\ l.probe \in 0 .. Height(daemon)
               /\ \E m : /\ Moves(j, "stored", m)
                         /\ Fields(m, l.seen, l.probe, OnChain(daemon, l.probe), l.goal, l.batch, l.stored, l.probe)
<1> DEFINE l == at[j]
           h == l.probe
           m == [l EXCEPT !.height = h, !.hash = OnChain(daemon, h)]
<1>1. l \in Local /\ h \in -1 .. MaxHeight
  BY LocalTypes, Zenon DEF JobTypes
<1>2. pc[j] = "probe" /\ UNCHANGED <<daemon, rows, extras, cursor, counters>>
  BY Zenon DEF Probe, At, tables
<1>3. daemon \in Hash /\ Height(daemon) \in Heights
  BY HashIsSeq, Zenon DEF SharedTypes
<1>4. CASE h < 0 \/ at[j].seen.height - h > MaxReorgDepth
  <2>1. Goto(j, "giveUp") /\ at' = at
    BY <1>4, Zenon DEF Probe
  <2>2. Moves(j, "giveUp", l)
    BY <2>1, Named, GotoMoves, Zenon
  <2> QED
    BY <1>2, <2>2, Zenon
<1>5. CASE ~(h < 0 \/ at[j].seen.height - h > MaxReorgDepth) /\ h > Height(daemon)
  <2>1. Finish(j)
    BY <1>5, Zenon DEF Probe
  <2> QED
    BY <1>2, <2>1, FinishMoves, Zenon
<1>6. CASE ~(h < 0 \/ at[j].seen.height - h > MaxReorgDepth) /\ ~(h > Height(daemon))
  <2>1. Keep(j, m) /\ Goto(j, "stored")
    BY <1>6, Zenon DEF Probe
  <2>2. h \in 0 .. Height(daemon)
    <3>1. ~(h < 0) /\ ~(h > Height(daemon))
      BY <1>6, Zenon
    <3>2. Height(daemon) \in Nat
      BY <1>3, HeightsAreHeights, Zenon
    <3> HIDE DEF h
    <3> QED
      BY <1>1, <3>1, <3>2
  <2>3. OnChain(daemon, h) \in Hash \cup {NoHash}
    BY <1>3, <2>2, OnChainIsHash, Zenon
  <2>4. m \in Local /\ Fields(m, l.seen, h, OnChain(daemon, h), l.goal, l.batch, l.stored, l.probe)
    <3> HIDE DEF h
    <3> QED
      BY <1>1, <2>3, LocalUpdates, Fillers, Zenon
  <2> HIDE DEF m
  <2>5. Moves(j, "stored", m)
    BY <2>1, <2>4, Named, GotoMoves, Zenon
  <2> QED
    BY <1>2, <2>2, <2>4, <2>5, Zenon
<1> QED
  BY <1>4, <1>5, <1>6, Zenon

LEMMA StoredEffect ==
  ASSUME SharedTypes, JobTypes, Shape, NEW j \in Jobs, Stored(j)
  PROVE  LET l == at[j] IN
         /\ pc[j] = "stored" /\ UNCHANGED <<daemon, rows, extras, cursor, counters>>
         /\ l.probe \in Heights
         /\ \/ rows[l.probe] = l.hash /\ Moves(j, "deleteBlocks", l)
            \/ /\ rows[l.probe] # l.hash
               /\ \E m : /\ Moves(j, "probe", m)
                         /\ Fields(m, l.seen, l.height, l.hash, l.goal, l.batch, l.stored, l.probe - 1)
<1> DEFINE l == at[j]
           q == l.probe - 1
           m == [l EXCEPT !.probe = q]
<1>1. l \in Local /\ l.probe \in -1 .. MaxHeight
  BY LocalTypes, Zenon DEF JobTypes
<1>2. pc[j] = "stored" /\ UNCHANGED <<daemon, rows, extras, cursor, counters>>
  BY Zenon DEF Stored, At, tables
<1>3. l.probe >= 0
  BY <1>2, Zenon DEF Shape, Shaped
<1>4. l.probe \in Heights /\ q \in -1 .. MaxHeight
  <2> HIDE DEF l
  <2> QED
    BY <1>1, <1>3 DEF Heights
<1>5. CASE rows[l.probe] = l.hash
  <2>1. Goto(j, "deleteBlocks") /\ at' = at
    BY <1>5, Zenon DEF Stored
  <2>2. Moves(j, "deleteBlocks", l)
    BY <2>1, Named, GotoMoves, Zenon
  <2> QED
    BY <1>2, <1>4, <1>5, <2>2, Zenon
<1>6. CASE rows[l.probe] # l.hash
  <2>1. Keep(j, m) /\ Goto(j, "probe")
    BY <1>6, Zenon DEF Stored
  <2>2. m \in Local /\ Fields(m, l.seen, l.height, l.hash, l.goal, l.batch, l.stored, q)
    <3> HIDE DEF q
    <3> QED
      BY <1>1, <1>4, LocalUpdates, Fillers, Zenon
  <2> HIDE DEF m
  <2>3. Moves(j, "probe", m)
    BY <2>1, <2>2, Named, GotoMoves, Zenon
  <2> QED
    BY <1>2, <1>4, <1>6, <2>2, <2>3, Zenon
<1> QED
  BY <1>5, <1>6, Zenon

LEMMA HandleEffect ==
  ASSUME SharedTypes, JobTypes, NEW j \in Jobs, Handle(j)
  PROVE  LET l == at[j] IN
         /\ pc[j] = "handle" /\ UNCHANGED <<daemon, rows, extras, cursor, counters>>
         /\ \/ Moves(j, "idle", Idle)
            \/ /\ cursor # NoCursor
               /\ \E m : /\ Moves(j, "probe", m)
                         /\ Fields(m, cursor, l.height, l.hash, l.goal, << >>, l.stored, cursor.height)
<1> DEFINE l == at[j]
           m == [l EXCEPT !.seen = cursor, !.probe = cursor.height, !.batch = << >>]
<1>1. l \in Local /\ cursor \in Cursors /\ cursor.height \in -1 .. MaxHeight
  BY CursorParts, Zenon DEF JobTypes, SharedTypes
<1>2. pc[j] = "handle" /\ UNCHANGED <<daemon, rows, extras, cursor, counters>>
  BY Zenon DEF Handle, At, tables
<1>3. CASE cursor = NoCursor
  BY <1>2, <1>3, FinishMoves, Zenon DEF Handle
<1>4. CASE cursor # NoCursor
  <2>1. Keep(j, m) /\ Goto(j, "probe")
    BY <1>4, Zenon DEF Handle
  <2>2. m \in Local /\ Fields(m, cursor, l.height, l.hash, l.goal, << >>, l.stored, cursor.height)
    BY <1>1, LocalUpdates, Fillers, Zenon
  <2> HIDE DEF m
  <2>3. Moves(j, "probe", m)
    BY <2>1, <2>2, Named, GotoMoves, Zenon
  <2> QED
    BY <1>2, <1>4, <2>2, <2>3, Zenon
<1> QED
  BY <1>3, <1>4, Zenon

(* The steps that write. *)
LEMMA RollbackEffect ==
  ASSUME SharedTypes, JobTypes, Shape, NEW j \in Jobs,
         GiveUp(j) \/ DeleteBlocks(j) \/ DeleteRest(j) \/ MoveCursor(j)
  PROVE  LET l == at[j] IN
         /\ l \in Local /\ UNCHANGED <<daemon, counters>>
         /\ \/ /\ pc[j] = "giveUp" /\ Moves(j, "idle", Idle) /\ UNCHANGED <<rows, extras>>
               /\ cursor' = [l.seen EXCEPT !.status = "reorg"]
            \/ /\ pc[j] = "deleteBlocks" /\ l.height >= 0 /\ Moves(j, "deleteRest", l) /\ UNCHANGED <<extras, cursor>>
               /\ rows' = [h \in Heights |-> IF h > l.height THEN NoHash ELSE rows[h]]
            \/ /\ pc[j] = "deleteRest" /\ l.height >= 0 /\ Moves(j, "moveCursor", l) /\ UNCHANGED <<rows, cursor>>
               /\ extras' = {b \in extras : Height(b) <= l.height}
            \/ /\ pc[j] = "moveCursor" /\ l.height >= 0 /\ UNCHANGED <<rows, extras>>
               /\ cursor' = Cursor(l.height, l.hash, "live")
               /\ IF j = "tip" THEN Moves(j, "check", l) ELSE Moves(j, "idle", Idle)
<1> DEFINE l == at[j]
<1>1. l \in Local /\ UNCHANGED <<daemon, counters>>
  BY Zenon DEF JobTypes, GiveUp, DeleteBlocks, DeleteRest, MoveCursor
<1>2. ASSUME pc[j] \in {"deleteBlocks", "deleteRest", "moveCursor"}
      PROVE  l.height >= 0
  BY <1>2, Zenon DEF Shape, Shaped
<1>3. CASE GiveUp(j)
  BY <1>1, <1>3, FinishMoves, Zenon DEF GiveUp, At, tables
<1>4. CASE DeleteBlocks(j)
  <2>1. pc[j] = "deleteBlocks" /\ l.height >= 0
    BY <1>2, <1>4, Zenon DEF DeleteBlocks, At
  <2>2. Moves(j, "deleteRest", l)
    BY <1>4, Named, GotoMoves, Zenon DEF DeleteBlocks
  <2> QED
    BY <1>1, <1>4, <2>1, <2>2, Zenon DEF DeleteBlocks
<1>5. CASE DeleteRest(j)
  <2>1. pc[j] = "deleteRest" /\ l.height >= 0
    BY <1>2, <1>5, Zenon DEF DeleteRest, At
  <2>2. Moves(j, "moveCursor", l)
    BY <1>5, Named, GotoMoves, Zenon DEF DeleteRest
  <2> QED
    BY <1>1, <1>5, <2>1, <2>2, Zenon DEF DeleteRest
<1>6. CASE MoveCursor(j)
  <2>1. pc[j] = "moveCursor" /\ l.height >= 0
    BY <1>2, <1>6, Zenon DEF MoveCursor, At
  <2>2. UNCHANGED <<rows, extras>> /\ cursor' = Cursor(l.height, l.hash, "live")
    BY <1>6, Zenon DEF MoveCursor, tables
  <2>3. CASE j = "tip"
    <3>1. Goto(j, "check") /\ at' = at
      BY <1>6, <2>3, Zenon DEF MoveCursor
    <3>2. Moves(j, "check", l)
      BY <3>1, Named, GotoMoves, Zenon
    <3> QED
      BY <1>1, <2>1, <2>2, <2>3, <3>2, Zenon
  <2>4. CASE j # "tip"
    <3>1. Finish(j)
      BY <1>6, <2>4, Zenon DEF MoveCursor
    <3>2. Moves(j, "idle", Idle)
      BY <3>1, FinishMoves, Zenon
    <3> QED
      BY <1>1, <2>1, <2>2, <2>4, <3>2, Zenon
  <2> QED
    BY <2>3, <2>4, Zenon
<1> QED
  BY <1>3, <1>4, <1>5, <1>6, Zenon

-----------------------------------------------------------------------------
(* TipFollower.tick().                                                     *)

LEMMA TipStartEffect ==
  ASSUME SharedTypes, JobTypes, TipStart
  PROVE  /\ "tip" \in Jobs /\ pc["tip"] = "idle" /\ UNCHANGED <<daemon, rows, extras, cursor, counters>>
         /\ cursor = NoCursor \/ cursor.status = "live"
         /\ \E m : /\ Moves("tip", "getTip", m)
                   /\ Fields(m, cursor, cursor.height, cursor.hash, 0, << >>, {}, 0)
<1> DEFINE m == [Idle EXCEPT !.seen = cursor, !.height = cursor.height, !.hash = cursor.hash]
<1>1. cursor \in Cursors /\ cursor.height \in -1 .. MaxHeight /\ cursor.hash \in Hash \cup {NoHash}
  BY CursorParts, Zenon DEF SharedTypes
<1>2. /\ "tip" \in Jobs /\ pc["tip"] = "idle" /\ UNCHANGED <<daemon, rows, extras, cursor, counters>>
      /\ cursor = NoCursor \/ cursor.status = "live"
  BY Zenon DEF TipStart, At, tables
<1>3. Fields(m, cursor, cursor.height, cursor.hash, Idle.goal, Idle.batch, Idle.stored, Idle.probe) /\ m \in Local
  BY <1>1, LocalUpdates, IdleIsLocal, Fillers, Zenon
<1>4. Fields(m, cursor, cursor.height, cursor.hash, 0, << >>, {}, 0)
  BY <1>3, IdleIsLocal, Zenon DEF Fields
<1>5. Keep("tip", m) /\ Goto("tip", "getTip")
  BY Zenon DEF TipStart
<1> HIDE DEF m
<1>6. Moves("tip", "getTip", m)
  BY <1>2, <1>3, <1>5, Named, GotoMoves, Zenon
<1> QED
  BY <1>2, <1>4, <1>6, Zenon

LEMMA TipGetTipEffect ==
  ASSUME SharedTypes, JobTypes, TipGetTip
  PROVE  LET l == at["tip"] IN
         /\ "tip" \in Jobs /\ pc["tip"] = "getTip" /\ UNCHANGED <<daemon, rows, extras, cursor, counters>>
         /\ \/ Moves("tip", "idle", Idle)
            \/ l.seen # NoCursor /\ Moves("tip", "rewind", l)
            \/ /\ l.height < Height(daemon)
               /\ \E m : /\ Moves("tip", "fetch", m)
                         /\ Fields(m, l.seen, l.height, l.hash, Height(daemon), l.batch, l.stored, l.probe)
<1> DEFINE l == at["tip"]
           lag == Height(daemon) - l.height
           m == [l EXCEPT !.goal = Height(daemon)]
<1>1. "tip" \in Jobs /\ pc["tip"] = "getTip" /\ UNCHANGED <<daemon, rows, extras, cursor, counters>>
  BY Zenon DEF TipGetTip, At, tables
<1>2. l \in Local /\ l.height \in -1 .. MaxHeight /\ daemon \in Hash /\ Height(daemon) \in Heights
  BY <1>1, LocalTypes, HashIsSeq, Zenon DEF JobTypes, SharedTypes
<1>3. CASE lag <= 0
  BY <1>1, <1>3, FinishMoves, Zenon DEF TipGetTip
<1>4. CASE ~(lag <= 0) /\ lag > LagThreshold
  <2>1. Finish("tip") \/ (l.seen # NoCursor /\ Goto("tip", "rewind") /\ at' = at)
    BY <1>4, Zenon DEF TipGetTip
  <2>2. Moves("tip", "idle", Idle) \/ (l.seen # NoCursor /\ Moves("tip", "rewind", l))
    BY <1>1, <2>1, Named, GotoMoves, FinishMoves, Zenon
  <2> QED
    BY <1>1, <2>2, Zenon
<1>5. CASE ~(lag <= 0) /\ ~(lag > LagThreshold)
  <2>1. Keep("tip", m) /\ Goto("tip", "fetch")
    BY <1>5, Zenon DEF TipGetTip
  <2>2. m \in Local /\ Fields(m, l.seen, l.height, l.hash, Height(daemon), l.batch, l.stored, l.probe)
    BY <1>2, GoalUpdate, Zenon
  <2>3. l.height < Height(daemon)
    <3>1. Height(daemon) \in Nat
      BY <1>2, HeightsAreHeights, Zenon
    <3>2. ~(Height(daemon) - l.height <= 0)
      BY <1>5, Zenon
    <3> HIDE DEF l
    <3> QED
      BY <1>2, <3>1, <3>2
  <2> HIDE DEF m
  <2>4. Moves("tip", "fetch", m)
    BY <1>1, <2>1, <2>2, Named, GotoMoves, Zenon
  <2> QED
    BY <1>1, <2>2, <2>3, <2>4, Zenon
<1> QED
  BY <1>3, <1>4, <1>5, Zenon

LEMMA TipRewindEffect ==
  ASSUME JobTypes, TipRewind
  PROVE  /\ "tip" \in Jobs /\ pc["tip"] = "rewind" /\ Moves("tip", "idle", Idle)
         /\ cursor' = [at["tip"].seen EXCEPT !.status = "backfilling"]
         /\ UNCHANGED <<daemon, rows, extras, counters>>
<1>1. "tip" \in Jobs
  BY Zenon DEF TipRewind, At
<1> QED
  BY <1>1, FinishMoves, Zenon DEF TipRewind, At, tables

(* What getblocksbatch answers with. *)
LEMMA Snapshot ==
  ASSUME NEW k \in -1 .. MaxHeight, NEW g \in Nat, NEW s \in Hash
  PROVE  LET got == {h \in k + 1 .. k + 1 + CatchupSpan - 1 : h <= g /\ h <= Height(s)}
             B == [i \in 1 .. Cardinality(got) |-> OnChain(s, k + 1 + i - 1)]
         IN  got # {} => /\ B \in Seq(Hash) /\ B # << >>
                         /\ \A i \in 1 .. Len(B) : k + i \in 0 .. Height(s) /\ B[i] = OnChain(s, k + i)
<1> DEFINE got == {h \in k + 1 .. k + 1 + CatchupSpan - 1 : h <= g /\ h <= Height(s)}
           B == [i \in 1 .. Cardinality(got) |-> OnChain(s, k + 1 + i - 1)]
<1> SUFFICES ASSUME got # {}
             PROVE  /\ B \in Seq(Hash) /\ B # << >>
                    /\ \A i \in 1 .. Len(B) : k + i \in 0 .. Height(s) /\ B[i] = OnChain(s, k + i)
  OBVIOUS
<1> DEFINE least(a, b) == IF a <= b THEN a ELSE b
           e == least(k + CatchupSpan, least(g, Height(s)))
           n == e - k
<1>1. Height(s) \in Nat
  BY HashIsSeq, HeightsAreHeights, Zenon
<1>2. e \in Int /\ got = k + 1 .. e
  BY <1>1
<1>3. e >= k + 1
  BY <1>2
<1>4. Cardinality(got) = n
  <2> HIDE DEF e, got
  <2>1. k + 1 \in Int /\ e \in Int /\ ~(k + 1 > e) /\ e - (k + 1) + 1 = n
    BY <1>2, <1>3
  <2>2. Cardinality(k + 1 .. e) = IF k + 1 > e THEN 0 ELSE e - (k + 1) + 1
    BY <2>1, FS_Interval
  <2> QED
    BY <1>2, <2>1, <2>2, Zenon
<1>5. n \in Nat \ {0} /\ \A i \in 1 .. n : k + i \in 0 .. Height(s) /\ k + 1 + i - 1 = k + i
  BY <1>1, <1>3
<1> HIDE DEF n, got
<1>6. \A i \in 1 .. n : OnChain(s, k + i) \in Hash
  BY <1>5, OnChainIsHash, Zenon
<1>7. B \in [1 .. n -> Hash] /\ \A i \in 1 .. n : B[i] = OnChain(s, k + i)
  BY <1>4, <1>5, <1>6
<1> HIDE DEF B
<1>8. B \in Seq(Hash) /\ Len(B) = n
  <2>1. n \in Nat /\ B \in [1 .. n -> Hash]
    BY <1>5, <1>7, Zenon
  <2> QED
    BY <2>1
<1>9. B # << >>
  BY <1>5, <1>8
<1> QED
  BY <1>5, <1>7, <1>8, <1>9, Zenon

LEMMA TipFetchEffect ==
  ASSUME SharedTypes, JobTypes, TipFetch
  PROVE  LET l == at["tip"] IN
         /\ "tip" \in Jobs /\ pc["tip"] = "fetch" /\ UNCHANGED <<daemon, rows, extras, cursor, counters>>
         /\ \/ Moves("tip", "idle", Idle)
            \/ \E B \in Seq(Hash) :
                 /\ B # << >>
                 /\ \A i \in 1 .. Len(B) : l.height + i \in 0 .. Height(daemon) /\ B[i] = OnChain(daemon, l.height + i)
                 /\ \E m : /\ Moves("tip", "check", m)
                           /\ Fields(m, l.seen, l.height, l.hash, l.goal, B, l.stored, l.probe)
<1> DEFINE l == at["tip"]
           start == l.height + 1
           asked == start .. start + CatchupSpan - 1
           got == {h \in asked : h <= l.goal /\ h <= Height(daemon)}
           B == [i \in 1 .. Cardinality(got) |-> OnChain(daemon, start + i - 1)]
           m == [l EXCEPT !.batch = B]
<1>1. "tip" \in Jobs /\ pc["tip"] = "fetch" /\ UNCHANGED <<daemon, rows, extras, cursor, counters>>
  BY Zenon DEF TipFetch, At, tables
<1>2. l \in Local /\ l.height \in -1 .. MaxHeight /\ l.goal \in Heights /\ daemon \in Hash
  BY <1>1, LocalTypes, Zenon DEF JobTypes, SharedTypes
<1>3. CASE got = {}
  BY <1>1, <1>3, FinishMoves, Zenon DEF TipFetch
<1>4. CASE got # {}
  <2>1. Keep("tip", m) /\ Goto("tip", "check")
    BY <1>4, Zenon DEF TipFetch
  <2>2. l.goal \in Nat
    BY <1>2, HeightsAreHeights, Zenon
  <2>3. /\ B \in Seq(Hash) /\ B # << >>
        /\ \A i \in 1 .. Len(B) : l.height + i \in 0 .. Height(daemon) /\ B[i] = OnChain(daemon, l.height + i)
    BY <1>2, <1>4, <2>2, Snapshot, ZenonT(60)
  <2> HIDE DEF B
  <2>4. m \in Local /\ Fields(m, l.seen, l.height, l.hash, l.goal, B, l.stored, l.probe)
    BY <1>2, <2>3, BatchUpdate, Zenon
  <2> HIDE DEF m
  <2>5. Moves("tip", "check", m)
    BY <1>1, <2>1, <2>4, Named, GotoMoves, Zenon
  <2> QED
    BY <1>1, <2>3, <2>4, <2>5, Zenon
<1> QED
  BY <1>3, <1>4, Zenon

LEMMA TipCheckEffect ==
  ASSUME JobTypes, TipCheck
  PROVE  LET l == at["tip"] IN
         /\ "tip" \in Jobs /\ pc["tip"] = "check" /\ UNCHANGED <<daemon, rows, extras, cursor, counters>>
         /\ \/ l.batch = << >> /\ Moves("tip", "fetch", l)
            \/ Moves("tip", "idle", Idle)
            \/ /\ l.batch # << >> /\ l.hash # NoHash /\ Parent(Head(l.batch)) # l.hash
               /\ Moves("tip", "handle", l)
            \/ /\ l.batch # << >> /\ (l.hash = NoHash \/ Parent(Head(l.batch)) = l.hash)
               /\ Moves("tip", "writeRest", l)
<1> DEFINE l == at["tip"]
<1>1. "tip" \in Jobs /\ pc["tip"] = "check" /\ UNCHANGED <<daemon, rows, extras, cursor, counters>>
  BY Zenon DEF TipCheck, At, tables
<1>2. CASE l.batch = << >>
  <2>1. (Goto("tip", "fetch") /\ at' = at) \/ Finish("tip")
    BY <1>2, Zenon DEF TipCheck
  <2>2. Moves("tip", "fetch", l) \/ Moves("tip", "idle", Idle)
    BY <1>1, <2>1, Named, GotoMoves, FinishMoves, Zenon
  <2> QED
    BY <1>1, <1>2, <2>2, Zenon
<1>3. CASE l.batch # << >> /\ l.hash # NoHash /\ Parent(Head(l.batch)) # l.hash
  <2>1. Goto("tip", "handle") /\ at' = at
    BY <1>3, Zenon DEF TipCheck
  <2>2. Moves("tip", "handle", l)
    BY <1>1, <2>1, Named, GotoMoves, Zenon
  <2> QED
    BY <1>1, <1>3, <2>2, Zenon
<1>4. CASE l.batch # << >> /\ ~(l.hash # NoHash /\ Parent(Head(l.batch)) # l.hash)
  <2>1. Goto("tip", "writeRest") /\ at' = at
    BY <1>4, Zenon DEF TipCheck
  <2>2. Moves("tip", "writeRest", l)
    BY <1>1, <2>1, Named, GotoMoves, Zenon
  <2> QED
    BY <1>1, <1>4, <2>2, Zenon
<1> QED
  BY <1>2, <1>3, <1>4, Zenon

-----------------------------------------------------------------------------
(* ChainReorgHandler.safetySweep().                                        *)

LEMMA SweepStartEffect ==
  ASSUME SharedTypes, JobTypes, SweepStart
  PROVE  /\ "sweep" \in Jobs /\ pc["sweep"] = "idle" /\ UNCHANGED <<daemon, rows, extras, cursor, reorgs, faults>>
         /\ cursor # NoCursor /\ rounds' \in 0 .. MaxRounds
         /\ \E m : /\ Moves("sweep", "query", m)
                   /\ Fields(m, cursor, -1, NoHash, 0, << >>, {}, 0)
<1> DEFINE m == [Idle EXCEPT !.seen = cursor]
<1>1. cursor \in Cursors /\ rounds \in 0 .. MaxRounds
  BY Zenon DEF SharedTypes
<1>2. /\ "sweep" \in Jobs /\ pc["sweep"] = "idle" /\ UNCHANGED <<daemon, rows, extras, cursor, reorgs, faults>>
      /\ cursor # NoCursor /\ rounds < MaxRounds /\ rounds' = rounds + 1
  BY Zenon DEF SweepStart, At, tables
<1>3. m \in Local /\ Fields(m, cursor, Idle.height, Idle.hash, Idle.goal, Idle.batch, Idle.stored, Idle.probe)
  BY <1>1, LocalUpdates, IdleIsLocal, Fillers, Zenon
<1>4. Fields(m, cursor, -1, NoHash, 0, << >>, {}, 0)
  BY <1>3, IdleIsLocal, Zenon DEF Fields
<1>5. Keep("sweep", m) /\ Goto("sweep", "query")
  BY Zenon DEF SweepStart
<1>6. rounds' \in 0 .. MaxRounds
  BY <1>1, <1>2
<1> HIDE DEF m
<1>7. Moves("sweep", "query", m)
  BY <1>2, <1>3, <1>5, Named, GotoMoves, Zenon
<1> QED
  BY <1>2, <1>4, <1>6, <1>7, Zenon

LEMMA SweepQueryEffect ==
  ASSUME SharedTypes, JobTypes, SweepQuery
  PROVE  LET l == at["sweep"] IN
         /\ "sweep" \in Jobs /\ pc["sweep"] = "query" /\ UNCHANGED <<daemon, rows, extras, cursor, counters>>
         /\ \E R \in SUBSET Hash :
              /\ \A b \in R : \E h \in Heights : rows[h] # NoHash /\ b = rows[h]
              /\ \E m : /\ Moves("sweep", "compare", m)
                        /\ Fields(m, l.seen, l.height, l.hash, l.goal, l.batch, R, l.probe)
<1> DEFINE l == at["sweep"]
           found == {h \in Heights : rows[h] # NoHash /\ h >= at["sweep"].seen.height - SweepWindow}
           highest == {h \in found : Cardinality({k \in found : k > h}) < SweepWindow}
           R == {rows[h] : h \in highest}
           m == [l EXCEPT !.stored = R]
<1>1. "sweep" \in Jobs /\ pc["sweep"] = "query" /\ UNCHANGED <<daemon, rows, extras, cursor, counters>>
  BY Zenon DEF SweepQuery, At, tables
<1>2. l \in Local /\ rows \in [Heights -> Hash \cup {NoHash}]
  BY <1>1, Zenon DEF JobTypes, SharedTypes
<1>3. \A h \in highest : h \in Heights /\ rows[h] # NoHash
  BY Zenon
<1>4. Keep("sweep", m) /\ Goto("sweep", "compare")
  BY Zenon DEF SweepQuery
<1> HIDE DEF highest
<1>8. R \in SUBSET Hash
  BY <1>2, <1>3
<1>5. \A b \in R : \E h \in Heights : rows[h] # NoHash /\ b = rows[h]
  BY <1>2, <1>3
<1> HIDE DEF R
<1>6. m \in Local /\ Fields(m, l.seen, l.height, l.hash, l.goal, l.batch, R, l.probe)
  BY <1>2, <1>8, StoredUpdate, Fillers, Zenon
<1> HIDE DEF m
<1>7. Moves("sweep", "compare", m)
  BY <1>1, <1>4, <1>6, Named, GotoMoves, Zenon
<1> QED
  BY <1>1, <1>5, <1>8, <1>6, <1>7, Zenon

(* The highest of a set of hashes. *)
LEMMA HighestHash ==
  ASSUME NEW R \in SUBSET Hash, R # {}
  PROVE  (CHOOSE b \in R : \A c \in R : Len(c) <= Len(b)) \in R
<1> DEFINE S == {Len(b) : b \in R}
<1>1. \A b \in R : Len(b) \in 1 .. MaxHeight + 1
  BY HashIsSeq, Zenon
<1>2. S \in SUBSET (1 .. MaxHeight + 1) /\ S # {}
  BY <1>1
<1>3. 1 \in Int /\ MaxHeight + 1 \in Int
  OBVIOUS
<1>4. Max(S) \in S /\ \A y \in S : y <= Max(S)
  <2> HIDE DEF S
  <2> QED
    BY <1>2, <1>3, GreatestElement, Zenon
<1>5. PICK b \in R : Max(S) = Len(b)
  BY <1>4
<1>6. \A c \in R : Len(c) <= Len(b)
  BY <1>4, <1>5, Zenon
<1> QED
  BY <1>6, Zenon

LEMMA SweepCompareEffect ==
  ASSUME SharedTypes, JobTypes, SweepCompare
  PROVE  LET l == at["sweep"] IN
         /\ "sweep" \in Jobs /\ pc["sweep"] = "compare" /\ UNCHANGED <<daemon, rows, extras, cursor, counters>>
         /\ \/ Moves("sweep", "idle", Idle)
            \/ /\ \E b \in l.stored : b # OnChain(daemon, Height(b))
               /\ \E m : /\ Moves("sweep", "handle", m)
                         /\ Fields(m, l.seen, l.height, l.hash, l.goal, l.batch, {}, l.probe)
            \/ \E R \in SUBSET l.stored :
                 \E m : /\ Moves("sweep", "compare", m)
                        /\ Fields(m, l.seen, l.height, l.hash, l.goal, l.batch, R, l.probe)
<1> DEFINE l == at["sweep"]
           top == CHOOSE b \in l.stored : \A c \in l.stored : Len(c) <= Len(b)
           R == l.stored \ {top}
           clear == [l EXCEPT !.stored = {}]
           m == [l EXCEPT !.stored = R]
<1>1. "sweep" \in Jobs /\ pc["sweep"] = "compare" /\ UNCHANGED <<daemon, rows, extras, cursor, counters>>
  BY Zenon DEF SweepCompare, At, tables
<1>2. l \in Local /\ l.stored \in SUBSET Hash /\ pc \in [Jobs -> Steps]
  BY <1>1, LocalTypes, Zenon DEF JobTypes
<1>3. CASE l.stored = {} \/ Height(top) > Height(daemon)
  <2>1. Finish("sweep")
    BY <1>3, Zenon DEF SweepCompare
  <2> QED
    BY <1>1, <2>1, FinishMoves, Zenon
<1>4. CASE ~(l.stored = {} \/ Height(top) > Height(daemon)) /\ top # OnChain(daemon, Height(top))
  <2>1. Goto("sweep", "handle") /\ Keep("sweep", clear)
    BY <1>4, Zenon DEF SweepCompare
  <2>2. top \in l.stored
    BY <1>2, <1>4, HighestHash, Zenon
  <2>3. clear \in Local /\ Fields(clear, l.seen, l.height, l.hash, l.goal, l.batch, {}, l.probe)
    BY <1>2, StoredUpdate, Fillers, Zenon
  <2> HIDE DEF clear, top
  <2>4. Moves("sweep", "handle", clear)
    BY <1>1, <2>1, <2>3, Named, GotoMoves, Zenon
  <2> QED
    BY <1>1, <1>4, <2>2, <2>3, <2>4, Zenon
<1>5. CASE ~(l.stored = {} \/ Height(top) > Height(daemon)) /\ ~(top # OnChain(daemon, Height(top)))
  <2>1. pc' = pc /\ Keep("sweep", m)
    BY <1>5, Zenon DEF SweepCompare
  <2> HIDE DEF top
  <2>2. R \in SUBSET Hash /\ R \in SUBSET l.stored
    BY <1>2
  <2> HIDE DEF R
  <2>3. m \in Local /\ Fields(m, l.seen, l.height, l.hash, l.goal, l.batch, R, l.probe)
    BY <1>2, <2>2, StoredUpdate, Fillers, Zenon
  <2>4. Goto("sweep", "compare")
    BY <1>1, <1>2, <2>1 DEF Goto
  <2> HIDE DEF m
  <2>5. Moves("sweep", "compare", m)
    BY <1>1, <2>1, <2>3, <2>4, Named, GotoMoves, Zenon
  <2> QED
    BY <1>1, <2>2, <2>3, <2>5, Zenon
<1> QED
  BY <1>3, <1>4, <1>5, Zenon

-----------------------------------------------------------------------------
(* HistoricalBackfiller.run().                                             *)

(* SELECT MAX(height). *)
LEMMA MaxRowIs ==
  ASSUME NEW r \in [Heights -> Hash \cup {NoHash}], rows = r
  PROVE  /\ MaxRow \in -1 .. MaxHeight
         /\ MaxRow # -1 => MaxRow \in Heights /\ rows[MaxRow] # NoHash
         /\ \A h \in Heights : rows[h] # NoHash => MaxRow # -1 /\ h <= MaxRow
<1> DEFINE there == {h \in Heights : rows[h] # NoHash}
           top == CHOOSE h \in there : \A k \in there : k <= h
<1>1. MaxRow = IF there = {} THEN -1 ELSE top
  BY Zenon DEF MaxRow
<1>2. there \in SUBSET (0 .. MaxHeight) /\ 0 \in Int /\ MaxHeight \in Int
  BY DEF Heights
<1>3. CASE there = {}
  <2>1. MaxRow = -1
    BY <1>1, <1>3, Zenon
  <2>2. -1 \in -1 .. MaxHeight
    OBVIOUS
  <2> QED
    BY <1>3, <2>1, <2>2, Zenon
<1>4. CASE there # {}
  <2>1. Max(there) \in there /\ \A y \in there : y <= Max(there)
    <3> HIDE DEF there
    <3> QED
      BY <1>2, <1>4, GreatestElement, Zenon
  <2>2. top \in there /\ \A k \in there : k <= top
    <3> HIDE DEF there
    <3> QED
      BY <2>1, Zenon
  <2>3. MaxRow = top
    BY <1>1, <1>4, Zenon
  <2> HIDE DEF top
  <2>4. top \in -1 .. MaxHeight /\ top # -1
    BY <1>2, <2>2
  <2> QED
    BY <2>2, <2>3, <2>4, Zenon
<1> QED
  BY <1>3, <1>4, Zenon

LEMMA FillStartEffect ==
  ASSUME SharedTypes, JobTypes, FillStart
  PROVE  /\ "fill" \in Jobs /\ pc["fill"] = "idle" /\ UNCHANGED <<daemon, rows, extras, cursor, counters>>
         /\ cursor.status = "backfilling"
         /\ \E m : /\ Moves("fill", "maxRow", m)
                   /\ Fields(m, cursor, cursor.height, NoHash, 0, << >>, {}, 0)
<1> DEFINE m == [Idle EXCEPT !.seen = cursor, !.height = cursor.height]
<1>1. cursor \in Cursors /\ cursor.height \in -1 .. MaxHeight
  BY CursorParts, Zenon DEF SharedTypes
<1>2. /\ "fill" \in Jobs /\ pc["fill"] = "idle" /\ UNCHANGED <<daemon, rows, extras, cursor, counters>>
      /\ cursor.status = "backfilling"
  BY Zenon DEF FillStart, At, tables
<1>3. Fields(m, cursor, cursor.height, Idle.hash, Idle.goal, Idle.batch, Idle.stored, Idle.probe) /\ m \in Local
  BY <1>1, LocalUpdates, IdleIsLocal, Fillers, Zenon
<1>4. Fields(m, cursor, cursor.height, NoHash, 0, << >>, {}, 0)
  BY <1>3, IdleIsLocal, Zenon DEF Fields
<1>5. Keep("fill", m) /\ Goto("fill", "maxRow")
  BY Zenon DEF FillStart
<1> HIDE DEF m
<1>6. Moves("fill", "maxRow", m)
  BY <1>2, <1>3, <1>5, Named, GotoMoves, Zenon
<1> QED
  BY <1>2, <1>4, <1>6, Zenon

LEMMA FillMaxRowEffect ==
  ASSUME SharedTypes, JobTypes, FillMaxRow
  PROVE  LET l == at["fill"] IN
         /\ "fill" \in Jobs /\ pc["fill"] = "maxRow" /\ UNCHANGED <<daemon, rows, extras, cursor, counters>>
         /\ \/ ~(MaxRow > l.height) /\ Moves("fill", "getTarget", l)
            \/ /\ MaxRow \in Heights /\ MaxRow > l.height /\ rows[MaxRow] # NoHash
               /\ \E m : /\ Moves("fill", "reconcile", m)
                         /\ Fields(m, l.seen, MaxRow, rows[MaxRow], l.goal, l.batch, l.stored, l.probe)
<1> DEFINE l == at["fill"]
           m == [l EXCEPT !.height = MaxRow, !.hash = rows[MaxRow]]
<1>1. "fill" \in Jobs /\ pc["fill"] = "maxRow" /\ UNCHANGED <<daemon, rows, extras, cursor, counters>>
  BY Zenon DEF FillMaxRow, At, tables
<1>2. l \in Local /\ l.height \in -1 .. MaxHeight /\ rows \in [Heights -> Hash \cup {NoHash}]
  BY <1>1, LocalTypes, Zenon DEF JobTypes, SharedTypes
<1>3. MaxRow \in -1 .. MaxHeight /\ (MaxRow # -1 => MaxRow \in Heights /\ rows[MaxRow] # NoHash)
  BY <1>2, MaxRowIs, Zenon
<1>4. CASE MaxRow > l.height
  <2>1. Keep("fill", m) /\ Goto("fill", "reconcile")
    BY <1>4, Zenon DEF FillMaxRow
  <2>2. MaxRow # -1
    BY <1>2, <1>3, <1>4
  <2>3. rows[MaxRow] \in Hash \cup {NoHash}
    BY <1>2, <1>3, <2>2, Zenon
  <2>4. m \in Local /\ Fields(m, l.seen, MaxRow, rows[MaxRow], l.goal, l.batch, l.stored, l.probe)
    BY <1>2, <1>3, <2>3, LocalUpdates, Fillers, Zenon
  <2> HIDE DEF m
  <2>5. Moves("fill", "reconcile", m)
    BY <1>1, <2>1, <2>4, Named, GotoMoves, Zenon
  <2> QED
    BY <1>1, <1>3, <1>4, <2>2, <2>4, <2>5, Zenon
<1>5. CASE ~(MaxRow > l.height)
  <2>1. Goto("fill", "getTarget") /\ at' = at
    BY <1>5, Zenon DEF FillMaxRow
  <2>2. Moves("fill", "getTarget", l)
    BY <1>1, <2>1, Named, GotoMoves, Zenon
  <2> QED
    BY <1>1, <1>5, <2>2, Zenon
<1> QED
  BY <1>4, <1>5, Zenon

LEMMA FillReconcileEffect ==
  ASSUME JobTypes, FillReconcile
  PROVE  /\ "fill" \in Jobs /\ pc["fill"] = "reconcile" /\ Moves("fill", "getTarget", at["fill"])
         /\ cursor' = Cursor(at["fill"].height, at["fill"].hash, "backfilling")
         /\ UNCHANGED <<daemon, rows, extras, counters>>
<1>1. "fill" \in Jobs
  BY Zenon DEF FillReconcile, At
<1>2. Moves("fill", "getTarget", at["fill"])
  BY <1>1, Named, GotoMoves, Zenon DEF FillReconcile
<1> QED
  BY <1>1, <1>2, Zenon DEF FillReconcile, At, tables

LEMMA FillGetTargetEffect ==
  ASSUME SharedTypes, JobTypes, FillGetTarget
  PROVE  LET l == at["fill"] IN
         /\ "fill" \in Jobs /\ pc["fill"] = "getTarget" /\ UNCHANGED <<daemon, rows, extras, cursor, counters>>
         /\ \E g \in Heights :
              \E m : /\ Moves("fill", "next", m)
                     /\ Fields(m, l.seen, l.height, l.hash, g, l.batch, l.stored, l.probe)
<1> DEFINE l == at["fill"]
           g == IF Height(daemon) > SafeConfirmations THEN Height(daemon) - SafeConfirmations ELSE 0
           m == [l EXCEPT !.goal = g]
<1>1. "fill" \in Jobs /\ pc["fill"] = "getTarget" /\ UNCHANGED <<daemon, rows, extras, cursor, counters>>
  BY Zenon DEF FillGetTarget, At, tables
<1>2. l \in Local /\ Height(daemon) \in Heights
  BY <1>1, HashIsSeq, Zenon DEF JobTypes, SharedTypes
<1>3. g \in Heights
  BY <1>2 DEF Heights
<1>4. Keep("fill", m) /\ Goto("fill", "next")
  BY Zenon DEF FillGetTarget
<1> HIDE DEF g
<1>5. m \in Local /\ Fields(m, l.seen, l.height, l.hash, g, l.batch, l.stored, l.probe)
  BY <1>2, <1>3, LocalUpdates, Fillers, Zenon
<1> HIDE DEF m
<1>6. Moves("fill", "next", m)
  BY <1>1, <1>4, <1>5, Named, GotoMoves, Zenon
<1> QED
  BY <1>1, <1>3, <1>5, <1>6, Zenon

LEMMA FillNextEffect ==
  ASSUME SharedTypes, JobTypes, FillNext
  PROVE  LET l == at["fill"]  h == l.height + 1 IN
         /\ "fill" \in Jobs /\ pc["fill"] = "next" /\ UNCHANGED <<daemon, rows, extras, cursor, counters>>
         /\ \/ (h > l.goal \/ h > Height(daemon)) /\ Moves("fill", "readLive", l)
            \/ /\ h \in 0 .. Height(daemon)
               /\ \E m : /\ Moves("fill", "writeRest", m)
                         /\ Fields(m, l.seen, l.height, l.hash, l.goal, <<OnChain(daemon, h)>>, l.stored, l.probe)
<1> DEFINE l == at["fill"]
           h == l.height + 1
           B == <<OnChain(daemon, h)>>
           m == [l EXCEPT !.batch = B]
<1>1. "fill" \in Jobs /\ pc["fill"] = "next" /\ UNCHANGED <<daemon, rows, extras, cursor, counters>>
  BY Zenon DEF FillNext, At, tables
<1>2. l \in Local /\ l.height \in -1 .. MaxHeight /\ daemon \in Hash /\ Height(daemon) \in Heights
  BY <1>1, LocalTypes, HashIsSeq, Zenon DEF JobTypes, SharedTypes
<1>3. CASE h > l.goal \/ h > Height(daemon)
  <2>1. Goto("fill", "readLive") /\ at' = at
    BY <1>3, Zenon DEF FillNext
  <2>2. Moves("fill", "readLive", l)
    BY <1>1, <2>1, Named, GotoMoves, Zenon
  <2> QED
    BY <1>1, <1>3, <2>2, Zenon
<1>4. CASE ~(h > l.goal \/ h > Height(daemon))
  <2>1. Keep("fill", m) /\ Goto("fill", "writeRest")
    BY <1>4, Zenon DEF FillNext
  <2>2. h \in 0 .. Height(daemon)
    <3>1. ~(h > Height(daemon)) /\ Height(daemon) \in Nat
      BY <1>2, <1>4, HeightsAreHeights, Zenon
    <3> HIDE DEF l
    <3> QED
      BY <1>2, <3>1
  <2>3. OnChain(daemon, h) \in Hash
    BY <1>2, <2>2, OnChainIsHash, Zenon
  <2>4. B \in Seq(Hash)
    <3> HIDE DEF h
    <3> QED
      BY <2>3
  <2> HIDE DEF B
  <2>5. m \in Local /\ Fields(m, l.seen, l.height, l.hash, l.goal, B, l.stored, l.probe)
    BY <1>2, <2>4, BatchUpdate, Zenon
  <2> HIDE DEF m
  <2>6. Moves("fill", "writeRest", m)
    BY <1>1, <2>1, <2>5, Named, GotoMoves, Zenon
  <2> QED
    BY <1>1, <2>2, <2>5, <2>6, Zenon DEF B
<1> QED
  BY <1>3, <1>4, Zenon

LEMMA FillReadLiveEffect ==
  ASSUME SharedTypes, JobTypes, FillReadLive
  PROVE  LET l == at["fill"] IN
         /\ "fill" \in Jobs /\ pc["fill"] = "readLive" /\ UNCHANGED <<daemon, rows, extras, cursor, counters>>
         /\ \E m : /\ Moves("fill", "markLive", m)
                   /\ Fields(m, cursor, l.height, l.hash, l.goal, l.batch, l.stored, l.probe)
<1> DEFINE l == at["fill"]
           m == [l EXCEPT !.seen = cursor]
<1>1. "fill" \in Jobs /\ pc["fill"] = "readLive" /\ UNCHANGED <<daemon, rows, extras, cursor, counters>>
  BY Zenon DEF FillReadLive, At, tables
<1>2. l \in Local /\ cursor \in Cursors
  BY <1>1, Zenon DEF JobTypes, SharedTypes
<1>3. Keep("fill", m) /\ Goto("fill", "markLive")
  BY Zenon DEF FillReadLive
<1>4. m \in Local /\ Fields(m, cursor, l.height, l.hash, l.goal, l.batch, l.stored, l.probe)
  BY <1>2, LocalUpdates, Fillers, Zenon
<1> HIDE DEF m
<1>5. Moves("fill", "markLive", m)
  BY <1>1, <1>3, <1>4, Named, GotoMoves, Zenon
<1> QED
  BY <1>1, <1>4, <1>5, Zenon

LEMMA FillMarkLiveEffect ==
  ASSUME JobTypes, FillMarkLive
  PROVE  LET seen == at["fill"].seen IN
         /\ "fill" \in Jobs /\ pc["fill"] = "markLive" /\ Moves("fill", "idle", Idle)
         /\ cursor' = Cursor(IF seen = NoCursor THEN 0 ELSE seen.height, seen.hash, "live")
         /\ UNCHANGED <<daemon, rows, extras, counters>>
<1>1. "fill" \in Jobs
  BY Zenon DEF FillMarkLive, At
<1>2. Moves("fill", "idle", Idle)
  BY <1>1, FinishMoves, Zenon DEF FillMarkLive
<1> QED
  BY <1>1, <1>2, Zenon DEF FillMarkLive, At, tables

-----------------------------------------------------------------------------
(* Types, and the shape of the locals.                                     *)

LEMMA ShapeMoves ==
  ASSUME JobTypes, Shape, NEW j \in Jobs, NEW s, NEW m, Moves(j, s, m), Shaped(s, m)
  PROVE  JobTypes' /\ Shape'
<1>1. /\ JobTypes' /\ pc'[j] = s /\ at'[j] = m
      /\ \A k \in Jobs \ {j} : pc'[k] = pc[k] /\ at'[k] = at[k]
  BY MoveEffect, Zenon
<1>2. ASSUME NEW k \in Jobs PROVE Shaped(pc'[k], at'[k])
  <2>1. CASE k = j
    BY <1>1, <2>1, Zenon
  <2>2. CASE k # j
    <3>1. Shaped(pc[k], at[k])
      BY Zenon DEF Shape
    <3> QED
      BY <1>1, <2>2, <3>1, Zenon
  <2> QED
    BY <2>1, <2>2, Zenon
<1> QED
  BY <1>1, <1>2, Zenon DEF Shape

(* A step that asks for no more than its job's locals already promise. *)
LEMMA PlainShape ==
  ASSUME NEW s, NEW m, s \notin ApplySteps, s \notin {"stored", "deleteBlocks", "deleteRest", "moveCursor"},
         s # "maxRow"
  PROVE  Shaped(s, m)
  BY Zenon DEF Shaped

LEMMA ApplyShape ==
  ASSUME NEW s \in ApplySteps, NEW m, m.batch # << >>
  PROVE  Shaped(s, m)
  BY DEF Shaped, ApplySteps

LEMMA ForkShape ==
  ASSUME NEW s \in {"stored", "deleteBlocks", "deleteRest", "moveCursor"}, NEW m, m.height >= 0,
         s = "stored" => m.probe >= 0
  PROVE  Shaped(s, m)
  BY DEF Shaped, ApplySteps

LEMMA PlainSteps ==
  \A s \in {"idle", "handle", "probe", "giveUp", "getTip", "rewind", "fetch", "check", "query", "compare",
            "reconcile", "getTarget", "next", "readLive", "markLive"} :
     s \notin ApplySteps /\ s \notin {"stored", "deleteBlocks", "deleteRest", "moveCursor"} /\ s # "maxRow"
  BY DEF ApplySteps

LEMMA ApplyTyped ==
  ASSUME SharedTypes, JobTypes, Shape, NEW j \in Jobs, Apply(j)
  PROVE  SharedTypes' /\ JobTypes' /\ Shape'
<1> DEFINE l == at[j]
           b == Head(l.batch)
<1>1. /\ l \in Local /\ b \in Hash /\ l.batch # << >> /\ pc[j] \in ApplySteps
      /\ UNCHANGED <<daemon, counters>>
  BY ApplyEffect, Zenon
<1>2. Height(b) \in Heights /\ Height(b) \in -1 .. MaxHeight
  BY <1>1, HashIsSeq, HeightsAreHeights, Zenon
<1>3. l.seen.status \in Status
  BY <1>1, LocalTypes, CursorParts, Zenon
<1>4. {"writeBlocks", "readStatus", "advance"} \subseteq ApplySteps
  BY DEF ApplySteps
<1>5. /\ daemon \in Hash /\ rows \in [Heights -> Hash \cup {NoHash}] /\ extras \subseteq Hash /\ cursor \in Cursors
      /\ reorgs \in 0 .. MaxReorgs /\ faults \in 0 .. MaxFaults /\ rounds \in 0 .. MaxRounds
  BY Zenon DEF SharedTypes
<1>6. CASE /\ pc[j] = "writeRest" /\ Moves(j, "writeBlocks", l)
           /\ extras' = extras \cup {b} /\ UNCHANGED <<rows, cursor>>
  <2> HIDE DEF b, l
  <2>1. extras' \subseteq Hash
    BY <1>1, <1>5, <1>6
  <2>2. JobTypes' /\ Shape'
    BY <1>1, <1>4, <1>6, ShapeMoves, ApplyShape, Zenon
  <2> QED
    BY <1>1, <1>5, <1>6, <2>1, <2>2, Zenon DEF SharedTypes, counters
<1>7. CASE /\ pc[j] = "writeBlocks" /\ Moves(j, "readStatus", l) /\ UNCHANGED <<extras, cursor>>
           /\ rows' = [rows EXCEPT ![Height(b)] = IF @ = NoHash THEN b ELSE @]
  <2> HIDE DEF b, l
  <2>1. rows' \in [Heights -> Hash \cup {NoHash}]
    BY <1>1, <1>2, <1>5, <1>7
  <2>2. JobTypes' /\ Shape'
    BY <1>1, <1>4, <1>7, ShapeMoves, ApplyShape, Zenon
  <2> QED
    BY <1>1, <1>5, <1>7, <2>1, <2>2, Zenon DEF SharedTypes, counters
<1>8. CASE /\ pc[j] = "readStatus" /\ UNCHANGED <<rows, extras, cursor>>
           /\ \E m : /\ Moves(j, "advance", m)
                     /\ Fields(m, cursor, l.height, l.hash, l.goal, l.batch, l.stored, l.probe)
  <2>1. PICK m : /\ Moves(j, "advance", m)
                 /\ Fields(m, cursor, l.height, l.hash, l.goal, l.batch, l.stored, l.probe)
    BY <1>8, Zenon
  <2>2. m.batch # << >>
    BY <1>1, <2>1, Zenon DEF Fields
  <2>3. JobTypes' /\ Shape'
    BY <1>4, <2>1, <2>2, ShapeMoves, ApplyShape, Zenon
  <2> QED
    BY <1>1, <1>5, <1>8, <2>3, Zenon DEF SharedTypes, counters
<1>9. CASE /\ pc[j] = "advance" /\ UNCHANGED <<rows, extras>>
           /\ cursor' = Cursor(Height(b), b, l.seen.status)
           /\ \E m : /\ Moves(j, ApplyTo(j), m)
                     /\ Fields(m, l.seen, Height(b), b, l.goal, Tail(l.batch), l.stored, l.probe)
  <2>1. PICK m : Moves(j, ApplyTo(j), m)
    BY <1>9, Zenon
  <2>2. Shaped(ApplyTo(j), m)
    BY PlainShape, PlainSteps, Zenon DEF ApplyTo
  <2>3. JobTypes' /\ Shape'
    BY <2>1, <2>2, ShapeMoves, Zenon
  <2>4. b \in Hash \cup {NoHash}
    BY <1>1, Zenon
  <2> HIDE DEF b, l
  <2>5. cursor' \in Cursors
    BY <2>4, <1>2, <1>3, <1>9, CursorIs, Zenon
  <2> QED
    BY <1>1, <1>5, <1>9, <2>3, <2>5, Zenon DEF SharedTypes, counters
<1> QED
  BY <1>6, <1>7, <1>8, <1>9, ApplyEffect, Zenon

LEMMA HandleTyped ==
  ASSUME SharedTypes, JobTypes, Shape, NEW j \in Jobs, HandleReorg(j)
  PROVE  SharedTypes' /\ JobTypes' /\ Shape'
<1> DEFINE l == at[j]
<1>1. l \in Local /\ Shaped(pc[j], l) /\ l.height \in -1 .. MaxHeight /\ l.hash \in Hash \cup {NoHash} /\ l.seen \in Cursors
  BY LocalTypes, Zenon DEF JobTypes, Shape
<1>2. /\ daemon \in Hash /\ rows \in [Heights -> Hash \cup {NoHash}] /\ extras \subseteq Hash /\ cursor \in Cursors
      /\ reorgs \in 0 .. MaxReorgs /\ faults \in 0 .. MaxFaults /\ rounds \in 0 .. MaxRounds
  BY Zenon DEF SharedTypes
<1>3. \A m : Shaped("idle", m) /\ Shaped("probe", m) /\ Shaped("giveUp", m) /\ Shaped("check", m)
  BY PlainShape, PlainSteps, Zenon
<1>4. "live" \in Status /\ "reorg" \in Status
  BY DEF Status
<1>5. CASE Handle(j)
  <2>1. JobTypes' /\ Shape'
    BY <1>3, <1>5, HandleEffect, ShapeMoves, Zenon
  <2> QED
    BY <1>2, <1>5, <2>1, HandleEffect, Zenon DEF SharedTypes, counters
<1>6. CASE Probe(j)
  <2>1. /\ UNCHANGED <<daemon, rows, extras, cursor, counters>>
        /\ \/ Moves(j, "giveUp", l)
           \/ Moves(j, "idle", Idle)
           \/ /\ l.probe \in 0 .. Height(daemon)
              /\ \E m : /\ Moves(j, "stored", m)
                        /\ Fields(m, l.seen, l.probe, OnChain(daemon, l.probe), l.goal, l.batch, l.stored, l.probe)
    BY <1>6, ProbeEffect, Zenon
  <2>2. JobTypes' /\ Shape'
    <3>1. CASE Moves(j, "giveUp", l) \/ Moves(j, "idle", Idle)
      BY <1>3, <3>1, ShapeMoves, Zenon
    <3>2. ASSUME l.probe \in 0 .. Height(daemon), NEW m, Moves(j, "stored", m),
                 Fields(m, l.seen, l.probe, OnChain(daemon, l.probe), l.goal, l.batch, l.stored, l.probe)
          PROVE  JobTypes' /\ Shape'
      <4>1. l.probe >= 0
        <5>1. Height(daemon) \in Nat
          BY <1>2, HashIsSeq, HeightsAreHeights, Zenon
        <5> QED
          BY <3>2, <5>1
      <4>2. m.height >= 0 /\ m.probe >= 0
        BY <3>2, <4>1, Zenon DEF Fields
      <4>3. Shaped("stored", m)
        BY <4>2, ForkShape, Zenon
      <4> QED
        BY <3>2, <4>3, ShapeMoves, Zenon
    <3> QED
      BY <2>1, <3>1, <3>2, Zenon
  <2> QED
    BY <1>2, <2>1, <2>2, Zenon DEF SharedTypes, counters
<1>7. CASE Stored(j)
  <2>1. /\ pc[j] = "stored" /\ UNCHANGED <<daemon, rows, extras, cursor, counters>>
        /\ Moves(j, "deleteBlocks", l) \/ \E m : Moves(j, "probe", m)
    BY <1>7, StoredEffect, Zenon
  <2>2. l.height >= 0
    BY <1>1, <2>1, Zenon DEF Shaped
  <2>3. "deleteBlocks" # "stored"
    OBVIOUS
  <2>4. Shaped("deleteBlocks", l)
    BY <2>2, <2>3, ForkShape, Zenon
  <2>5. JobTypes' /\ Shape'
    BY <1>3, <2>1, <2>4, ShapeMoves, Zenon
  <2> QED
    BY <1>2, <2>1, <2>5, Zenon DEF SharedTypes, counters
<1>8. CASE GiveUp(j) \/ DeleteBlocks(j) \/ DeleteRest(j) \/ MoveCursor(j)
  <2>1. /\ UNCHANGED <<daemon, counters>>
        /\ \/ /\ pc[j] = "giveUp" /\ Moves(j, "idle", Idle) /\ UNCHANGED <<rows, extras>>
              /\ cursor' = [l.seen EXCEPT !.status = "reorg"]
           \/ /\ pc[j] = "deleteBlocks" /\ l.height >= 0 /\ Moves(j, "deleteRest", l) /\ UNCHANGED <<extras, cursor>>
              /\ rows' = [h \in Heights |-> IF h > l.height THEN NoHash ELSE rows[h]]
           \/ /\ pc[j] = "deleteRest" /\ l.height >= 0 /\ Moves(j, "moveCursor", l) /\ UNCHANGED <<rows, cursor>>
              /\ extras' = {b \in extras : Height(b) <= l.height}
           \/ /\ pc[j] = "moveCursor" /\ l.height >= 0 /\ UNCHANGED <<rows, extras>>
              /\ cursor' = Cursor(l.height, l.hash, "live")
              /\ IF j = "tip" THEN Moves(j, "check", l) ELSE Moves(j, "idle", Idle)
    BY <1>8, RollbackEffect, Zenon
  <2>2. CASE /\ pc[j] = "giveUp" /\ Moves(j, "idle", Idle) /\ UNCHANGED <<rows, extras>>
             /\ cursor' = [l.seen EXCEPT !.status = "reorg"]
    <3>1. cursor' \in Cursors
      BY <1>1, <1>4, <2>2, CursorMarked, Zenon
    <3>2. JobTypes' /\ Shape'
      BY <1>3, <2>2, ShapeMoves, Zenon
    <3> QED
      BY <1>2, <2>1, <2>2, <3>1, <3>2, Zenon DEF SharedTypes, counters
  <2>3. CASE /\ pc[j] = "deleteBlocks" /\ l.height >= 0 /\ Moves(j, "deleteRest", l) /\ UNCHANGED <<extras, cursor>>
             /\ rows' = [h \in Heights |-> IF h > l.height THEN NoHash ELSE rows[h]]
    <3>1. rows' \in [Heights -> Hash \cup {NoHash}]
      BY <1>2, <2>3
    <3>2. "deleteRest" # "stored"
      OBVIOUS
    <3>3. Shaped("deleteRest", l)
      BY <2>3, <3>2, ForkShape, Zenon
    <3>4. JobTypes' /\ Shape'
      BY <2>3, <3>3, ShapeMoves, Zenon
    <3> QED
      BY <1>2, <2>1, <2>3, <3>1, <3>4, Zenon DEF SharedTypes, counters
  <2>4. CASE /\ pc[j] = "deleteRest" /\ l.height >= 0 /\ Moves(j, "moveCursor", l) /\ UNCHANGED <<rows, cursor>>
             /\ extras' = {b \in extras : Height(b) <= l.height}
    <3>1. extras' \subseteq Hash
      BY <1>2, <2>4
    <3>2. "moveCursor" # "stored"
      OBVIOUS
    <3>3. Shaped("moveCursor", l)
      BY <2>4, <3>2, ForkShape, Zenon
    <3>4. JobTypes' /\ Shape'
      BY <2>4, <3>3, ShapeMoves, Zenon
    <3> QED
      BY <1>2, <2>1, <2>4, <3>1, <3>4, Zenon DEF SharedTypes, counters
  <2>5. CASE /\ pc[j] = "moveCursor" /\ l.height >= 0 /\ UNCHANGED <<rows, extras>>
             /\ cursor' = Cursor(l.height, l.hash, "live")
             /\ IF j = "tip" THEN Moves(j, "check", l) ELSE Moves(j, "idle", Idle)
    <3>1. cursor' \in Cursors
      BY <1>1, <1>4, <2>5, CursorIs, ZenonT(60)
    <3>2. JobTypes' /\ Shape'
      BY <1>3, <2>5, ShapeMoves, Zenon
    <3> QED
      BY <1>2, <2>1, <2>5, <3>1, <3>2, Zenon DEF SharedTypes, counters
  <2> QED
    BY <2>1, <2>2, <2>3, <2>4, <2>5, Zenon
<1> QED
  BY <1>5, <1>6, <1>7, <1>8, Zenon DEF HandleReorg

LEMMA TipTyped ==
  ASSUME SharedTypes, JobTypes, Shape, TipFollower
  PROVE  SharedTypes' /\ JobTypes' /\ Shape'
<1> DEFINE l == at["tip"]
<1>1. /\ daemon \in Hash /\ rows \in [Heights -> Hash \cup {NoHash}] /\ extras \subseteq Hash /\ cursor \in Cursors
      /\ reorgs \in 0 .. MaxReorgs /\ faults \in 0 .. MaxFaults /\ rounds \in 0 .. MaxRounds
  BY Zenon DEF SharedTypes
<1>2. \A m : /\ Shaped("idle", m) /\ Shaped("getTip", m) /\ Shaped("rewind", m) /\ Shaped("fetch", m)
             /\ Shaped("check", m) /\ Shaped("handle", m)
  BY PlainShape, PlainSteps, Zenon
<1>3. CASE TipStart
  <2>1. JobTypes' /\ Shape'
    BY <1>2, <1>3, TipStartEffect, ShapeMoves, Zenon
  <2> QED
    BY <1>1, <1>3, <2>1, TipStartEffect, Zenon DEF SharedTypes, counters
<1>4. CASE TipGetTip
  <2>1. JobTypes' /\ Shape'
    BY <1>2, <1>4, TipGetTipEffect, ShapeMoves, Zenon
  <2> QED
    BY <1>1, <1>4, <2>1, TipGetTipEffect, Zenon DEF SharedTypes, counters
<1>5. CASE TipRewind
  <2>1. JobTypes' /\ Shape'
    BY <1>2, <1>5, TipRewindEffect, ShapeMoves, Zenon
  <2>2. l.seen \in Cursors /\ "backfilling" \in Status
    <3>1. "tip" \in Jobs /\ l \in Local
      BY <1>5, TipRewindEffect, Zenon DEF JobTypes
    <3> QED
      BY <3>1, LocalTypes DEF Status
  <2>3. cursor' \in Cursors
    <3>1. [l.seen EXCEPT !.status = "backfilling"] \in Cursors
      BY <2>2, CursorMarked, Zenon
    <3> QED
      BY <1>5, <3>1, TipRewindEffect, Zenon
  <2> QED
    BY <1>1, <1>5, <2>1, <2>3, TipRewindEffect, Zenon DEF SharedTypes, counters
<1>6. CASE TipFetch
  <2>1. JobTypes' /\ Shape'
    BY <1>2, <1>6, TipFetchEffect, ShapeMoves, Zenon
  <2> QED
    BY <1>1, <1>6, <2>1, TipFetchEffect, Zenon DEF SharedTypes, counters
<1>7. CASE TipCheck
  <2>1. "writeRest" \in ApplySteps
    BY DEF ApplySteps
  <2>2. l.batch # << >> => Shaped("writeRest", l)
    BY <2>1, ApplyShape, Zenon
  <2>3. JobTypes' /\ Shape'
    BY <1>2, <1>7, <2>2, TipCheckEffect, ShapeMoves, Zenon
  <2> QED
    BY <1>1, <1>7, <2>3, TipCheckEffect, Zenon DEF SharedTypes, counters
<1> QED
  BY <1>3, <1>4, <1>5, <1>6, <1>7, Zenon DEF TipFollower

LEMMA SweepTyped ==
  ASSUME SharedTypes, JobTypes, Shape, SafetySweep
  PROVE  SharedTypes' /\ JobTypes' /\ Shape'
<1>1. /\ daemon \in Hash /\ rows \in [Heights -> Hash \cup {NoHash}] /\ extras \subseteq Hash /\ cursor \in Cursors
      /\ reorgs \in 0 .. MaxReorgs /\ faults \in 0 .. MaxFaults /\ rounds \in 0 .. MaxRounds
  BY Zenon DEF SharedTypes
<1>2. \A m : Shaped("idle", m) /\ Shaped("query", m) /\ Shaped("compare", m) /\ Shaped("handle", m)
  BY PlainShape, PlainSteps, Zenon
<1>3. CASE SweepStart
  <2>1. JobTypes' /\ Shape'
    BY <1>2, <1>3, SweepStartEffect, ShapeMoves, Zenon
  <2> QED
    BY <1>1, <1>3, <2>1, SweepStartEffect, Zenon DEF SharedTypes
<1>4. CASE SweepQuery
  <2>1. JobTypes' /\ Shape'
    BY <1>2, <1>4, SweepQueryEffect, ShapeMoves, Zenon
  <2> QED
    BY <1>1, <1>4, <2>1, SweepQueryEffect, Zenon DEF SharedTypes, counters
<1>5. CASE SweepCompare
  <2>1. JobTypes' /\ Shape'
    BY <1>2, <1>5, SweepCompareEffect, ShapeMoves, Zenon
  <2> QED
    BY <1>1, <1>5, <2>1, SweepCompareEffect, Zenon DEF SharedTypes, counters
<1> QED
  BY <1>3, <1>4, <1>5, Zenon DEF SafetySweep

LEMMA FillTyped ==
  ASSUME SharedTypes, JobTypes, Shape, Backfiller
  PROVE  SharedTypes' /\ JobTypes' /\ Shape'
<1> DEFINE l == at["fill"]
<1>1. /\ daemon \in Hash /\ rows \in [Heights -> Hash \cup {NoHash}] /\ extras \subseteq Hash /\ cursor \in Cursors
      /\ reorgs \in 0 .. MaxReorgs /\ faults \in 0 .. MaxFaults /\ rounds \in 0 .. MaxRounds
  BY Zenon DEF SharedTypes
<1>2. \A m : /\ Shaped("idle", m) /\ Shaped("reconcile", m) /\ Shaped("getTarget", m)
             /\ Shaped("next", m) /\ Shaped("readLive", m) /\ Shaped("markLive", m)
  BY PlainShape, PlainSteps, Zenon
<1>3. ASSUME "fill" \in Jobs
      PROVE  l.seen \in Cursors /\ l.height \in -1 .. MaxHeight /\ l.hash \in Hash \cup {NoHash}
  BY <1>3, LocalTypes, Zenon DEF JobTypes
<1>4. "backfilling" \in Status /\ "live" \in Status
  BY DEF Status
<1>5. CASE FillStart
  <2>1. PICK m : /\ Moves("fill", "maxRow", m)
                 /\ Fields(m, cursor, cursor.height, NoHash, 0, << >>, {}, 0)
    BY <1>5, FillStartEffect, Zenon
  <2>2. Shaped("maxRow", m)
    <3>1. m.batch = << >>
      BY <2>1, Zenon DEF Fields
    <3> QED
      BY <3>1 DEF Shaped, ApplySteps
  <2>3. JobTypes' /\ Shape'
    BY <1>5, <2>1, <2>2, FillStartEffect, ShapeMoves, Zenon
  <2> QED
    BY <1>1, <1>5, <2>3, FillStartEffect, Zenon DEF SharedTypes, counters
<1>6. CASE FillMaxRow
  <2>1. JobTypes' /\ Shape'
    BY <1>2, <1>6, FillMaxRowEffect, ShapeMoves, Zenon
  <2> QED
    BY <1>1, <1>6, <2>1, FillMaxRowEffect, Zenon DEF SharedTypes, counters
<1>7. CASE FillReconcile
  <2>1. JobTypes' /\ Shape'
    BY <1>2, <1>7, FillReconcileEffect, ShapeMoves, Zenon
  <2>2. cursor' \in Cursors
    <3>1. "fill" \in Jobs /\ cursor' = Cursor(l.height, l.hash, "backfilling")
      BY <1>7, FillReconcileEffect, Zenon
    <3>2. Cursor(l.height, l.hash, "backfilling") \in Cursors
      BY <1>3, <1>4, <3>1, CursorIs, ZenonT(60)
    <3> QED
      BY <3>1, <3>2, Zenon
  <2> QED
    BY <1>1, <1>7, <2>1, <2>2, FillReconcileEffect, Zenon DEF SharedTypes, counters
<1>8. CASE FillGetTarget
  <2>1. JobTypes' /\ Shape'
    BY <1>2, <1>8, FillGetTargetEffect, ShapeMoves, Zenon
  <2> QED
    BY <1>1, <1>8, <2>1, FillGetTargetEffect, Zenon DEF SharedTypes, counters
<1>9. CASE FillNext
  <2> DEFINE B == <<OnChain(daemon, l.height + 1)>>
  <2>1. /\ "fill" \in Jobs /\ UNCHANGED <<daemon, rows, extras, cursor, counters>>
        /\ \/ Moves("fill", "readLive", l)
           \/ \E m : /\ Moves("fill", "writeRest", m)
                     /\ Fields(m, l.seen, l.height, l.hash, l.goal, B, l.stored, l.probe)
    BY <1>9, FillNextEffect, Zenon
  <2>2. B # << >> /\ "writeRest" \in ApplySteps
    BY DEF ApplySteps
  <2> HIDE DEF B
  <2>3. \A m : Fields(m, l.seen, l.height, l.hash, l.goal, B, l.stored, l.probe) => Shaped("writeRest", m)
    BY <2>2, ApplyShape, Zenon DEF Fields
  <2>4. JobTypes' /\ Shape'
    BY <1>2, <2>1, <2>3, ShapeMoves, Zenon
  <2> QED
    BY <1>1, <2>1, <2>4, Zenon DEF SharedTypes, counters
<1>10. CASE FillReadLive
  <2>1. JobTypes' /\ Shape'
    BY <1>2, <1>10, FillReadLiveEffect, ShapeMoves, Zenon
  <2> QED
    BY <1>1, <1>10, <2>1, FillReadLiveEffect, Zenon DEF SharedTypes, counters
<1>11. CASE FillMarkLive
  <2>1. JobTypes' /\ Shape'
    BY <1>2, <1>11, FillMarkLiveEffect, ShapeMoves, Zenon
  <2>2. cursor' \in Cursors
    <3> DEFINE n == IF l.seen = NoCursor THEN 0 ELSE l.seen.height
    <3>1. "fill" \in Jobs /\ cursor' = Cursor(n, l.seen.hash, "live")
      BY <1>11, FillMarkLiveEffect, Zenon
    <3>2. l.seen.height \in -1 .. MaxHeight /\ l.seen.hash \in Hash \cup {NoHash}
      BY <1>3, <3>1, CursorParts, Zenon
    <3>3. 0 \in -1 .. MaxHeight
      OBVIOUS
    <3>4. n \in -1 .. MaxHeight
      BY <3>2, <3>3, Zenon
    <3> HIDE DEF n
    <3>5. Cursor(n, l.seen.hash, "live") \in Cursors
      <4> HIDE DEF l
      <4> QED
        BY <1>4, <3>2, <3>4 DEF Cursor, Cursors
    <3> QED
      BY <3>1, <3>5, Zenon
  <2> QED
    BY <1>1, <1>11, <2>1, <2>2, FillMarkLiveEffect, Zenon DEF SharedTypes, counters
<1> QED
  BY <1>5, <1>6, <1>7, <1>8, <1>9, <1>10, <1>11, Zenon DEF Backfiller

(* The daemon moves on, or to another branch. *)
LEMMA DaemonTyped ==
  ASSUME SharedTypes, JobTypes, Shape, DaemonExtends \/ DaemonReorgs
  PROVE  SharedTypes' /\ JobTypes' /\ Shape'
<1>1. /\ daemon \in Hash /\ rows \in [Heights -> Hash \cup {NoHash}] /\ extras \subseteq Hash /\ cursor \in Cursors
      /\ reorgs \in 0 .. MaxReorgs /\ faults \in 0 .. MaxFaults /\ rounds \in 0 .. MaxRounds
  BY Zenon DEF SharedTypes
<1>2. JobTypes' /\ Shape'
  <2>1. UNCHANGED <<pc, at>>
    BY Zenon DEF DaemonExtends, DaemonReorgs
  <2> QED
    BY <2>1, Zenon DEF JobTypes, Shape, Shaped
<1>3. CASE DaemonExtends
  BY <1>1, <1>2, <1>3, Extended, Zenon DEF DaemonExtends, SharedTypes, counters, tables
<1>4. CASE DaemonReorgs
  <2>1. PICK fork \in 0 .. Height(daemon) - 1 :
          \E tip \in Heights :
            /\ tip >= Height(daemon) + MinGain
            /\ daemon' = [i \in 1 .. tip + 1 |->
                 IF i <= fork + 1 THEN daemon[i] ELSE IF i = fork + 2 THEN 1 - daemon[i] ELSE 0]
    BY <1>4, Zenon DEF DaemonReorgs
  <2>2. PICK tip \in Heights :
            /\ tip >= Height(daemon) + MinGain
            /\ daemon' = [i \in 1 .. tip + 1 |->
                 IF i <= fork + 1 THEN daemon[i] ELSE IF i = fork + 2 THEN 1 - daemon[i] ELSE 0]
    BY <2>1, Zenon
  <2>3. daemon \in Seq(Branch) /\ Len(daemon) = Height(daemon) + 1 /\ Height(daemon) \in Nat
    BY <1>1, HashIsSeq, HeightsAreHeights, Zenon
  <2>4. \A i \in 1 .. fork + 2 : i \in 1 .. Len(daemon)
    BY <2>3
  <2>5. \A i \in 1 .. Len(daemon) : daemon[i] \in Branch
    BY <2>3, ElementOfSeq
  <2>6. ASSUME NEW i \in 1 .. tip + 1
        PROVE  (IF i <= fork + 1 THEN daemon[i] ELSE IF i = fork + 2 THEN 1 - daemon[i] ELSE 0) \in Branch
    <3>1. CASE i <= fork + 1
      <4>1. i \in 1 .. fork + 2
        BY <2>3, <3>1 DEF Heights
      <4> QED
        BY <2>4, <2>5, <3>1, <4>1, Zenon
    <3>2. CASE ~(i <= fork + 1) /\ i = fork + 2
      <4>1. i \in 1 .. fork + 2
        BY <2>3, <3>2 DEF Heights
      <4>2. daemon[i] \in Branch
        BY <2>4, <2>5, <4>1, Zenon
      <4> QED
        BY <3>2, <4>2 DEF Branch
    <3>3. CASE ~(i <= fork + 1) /\ i # fork + 2
      BY <3>3 DEF Branch
    <3> QED
      BY <3>1, <3>2, <3>3, Zenon
  <2>7. daemon' \in [1 .. tip + 1 -> Branch]
    BY <2>2, <2>6, Zenon
  <2>8. daemon' \in Hash
    BY <2>7, Zenon DEF Hash
  <2>9. reorgs' \in 0 .. MaxReorgs
    <3>1. reorgs < MaxReorgs /\ reorgs' = reorgs + 1
      BY <1>4, Zenon DEF DaemonReorgs
    <3> QED
      BY <1>1, <3>1
  <2> QED
    BY <1>1, <1>2, <1>4, <2>8, <2>9, Zenon DEF DaemonReorgs, SharedTypes, tables
<1> QED
  BY <1>3, <1>4, Zenon

(* A tick is cut short. *)
LEMMA FaultTyped ==
  ASSUME SharedTypes, JobTypes, Shape, Crash \/ \E j \in Jobs : Throws(j)
  PROVE  SharedTypes' /\ JobTypes' /\ Shape'
<1>1. /\ daemon \in Hash /\ rows \in [Heights -> Hash \cup {NoHash}] /\ extras \subseteq Hash /\ cursor \in Cursors
      /\ reorgs \in 0 .. MaxReorgs /\ faults \in 0 .. MaxFaults /\ rounds \in 0 .. MaxRounds
  BY Zenon DEF SharedTypes
<1>2. Shaped("idle", Idle)
  BY PlainShape, PlainSteps, Zenon
<1>3. ASSUME faults < MaxFaults, faults' = faults + 1 PROVE faults' \in 0 .. MaxFaults
  BY <1>1, <1>3
<1>4. CASE Crash
  <2>1. pc' = [j \in Jobs |-> "idle"] /\ at' = [j \in Jobs |-> Idle]
    BY <1>4, Zenon DEF Crash
  <2>2. \A j \in Jobs : pc'[j] = "idle" /\ at'[j] = Idle
    BY <2>1, Zenon
  <2>3. pc' \in [Jobs -> Steps] /\ at' \in [Jobs -> Local]
    BY <2>1, Named, IdleIsLocal, Zenon
  <2> QED
    BY <1>1, <1>2, <1>3, <1>4, <2>2, <2>3, Zenon DEF Crash, SharedTypes, JobTypes, Shape, tables
<1>5. CASE \E j \in Jobs : Throws(j)
  <2>1. PICK j \in Jobs : Throws(j)
    BY <1>5
  <2>2. JobTypes' /\ Shape'
    BY <1>2, <2>1, FinishMoves, ShapeMoves, Zenon DEF Throws
  <2> QED
    BY <1>1, <1>3, <2>1, <2>2, Zenon DEF Throws, SharedTypes, tables
<1> QED
  BY <1>4, <1>5, Zenon

LEMMA StepTyped ==
  ASSUME SharedTypes, JobTypes, Shape, [Next]_vars
  PROVE  SharedTypes' /\ JobTypes' /\ Shape'
<1>1. CASE UNCHANGED vars
  BY <1>1, Zenon DEF vars, SharedTypes, JobTypes, Shape, Shaped
<1>2. CASE Next
  BY <1>2, TipTyped, SweepTyped, FillTyped, ApplyTyped, HandleTyped, DaemonTyped, FaultTyped, Zenon
     DEF Next, Work
<1> QED
  BY <1>1, <1>2, Zenon

LEMMA InitTyped ==
  ASSUME Init
  PROVE  SharedTypes /\ JobTypes /\ Shape
<1>1. daemon \in Hash /\ Height(daemon) = InitialTip
  <2>1. daemon = [i \in 1 .. InitialTip + 1 |-> 0]
    BY Zenon DEF Init
  <2>2. InitialTip \in Heights /\ 0 \in Branch
    BY DEF Heights, Branch
  <2>3. daemon \in [1 .. InitialTip + 1 -> Branch]
    BY <2>1, <2>2
  <2>4. Len(daemon) = InitialTip + 1
    BY <2>3
  <2>5. daemon \in Hash
    BY <2>2, <2>3, Zenon DEF Hash
  <2> QED
    BY <2>4, <2>5 DEF Height
<1>2. pc \in [Jobs -> Steps] /\ at \in [Jobs -> Local] /\ \A j \in Jobs : pc[j] = "idle" /\ at[j] = Idle
  <2>1. pc = [j \in Jobs |-> "idle"] /\ at = [j \in Jobs |-> Idle]
    BY Zenon DEF Init
  <2> QED
    BY <2>1, Named, IdleIsLocal, Zenon
<1>3. Shape
  BY <1>2, PlainShape, PlainSteps, ZenonT(60) DEF Shape
<1>4. reorgs \in 0 .. MaxReorgs /\ faults \in 0 .. MaxFaults /\ rounds \in 0 .. MaxRounds
  <2>1. reorgs = 0 /\ faults = 0 /\ rounds = 0
    BY Zenon DEF Init
  <2> QED
    BY <2>1
<1>5. rows \in [Heights -> Hash \cup {NoHash}] /\ extras \subseteq Hash /\ cursor \in Cursors
  <2>1. \A h \in 0 .. InitialTip : OnChain(daemon, h) \in Hash
    BY <1>1, OnChainIsHash, Zenon
  <2>2. CASE Fresh
    <3>1. rows = [h \in Heights |-> NoHash] /\ extras = {} /\ cursor = NoCursor
      BY <2>2, Zenon DEF Init
    <3> QED
      BY <3>1, Fillers
  <2>3. CASE ~Fresh
    <3>1. /\ rows = [h \in Heights |-> IF h <= InitialTip THEN OnChain(daemon, h) ELSE NoHash]
          /\ extras = {OnChain(daemon, h) : h \in 0 .. InitialTip}
          /\ cursor = Cursor(InitialTip, daemon, "live")
      BY <2>3, Zenon DEF Init
    <3>2. \A h \in Heights : h <= InitialTip => h \in 0 .. InitialTip
      BY DEF Heights
    <3>3. rows \in [Heights -> Hash \cup {NoHash}]
      BY <2>1, <3>1, <3>2
    <3>4. extras \subseteq Hash
      BY <2>1, <3>1
    <3>5. InitialTip \in -1 .. MaxHeight /\ daemon \in Hash \cup {NoHash} /\ "live" \in Status
      BY <1>1 DEF Status
    <3>6. cursor \in Cursors
      BY <3>1, <3>5, CursorIs, Zenon
    <3> QED
      BY <3>3, <3>4, <3>6, Zenon
  <2> QED
    BY <2>2, <2>3, Zenon
<1> QED
  BY <1>1, <1>2, <1>3, <1>4, <1>5, Zenon DEF SharedTypes, JobTypes

-----------------------------------------------------------------------------
(* A daemon that has never reorganised.                                    *)

(* Rows are only added, the chain only extended, a cursor never removed.   *)
Grow(d, r, c, e, q, k) ==
  /\ \A h \in Heights : r[h] # NoHash => q[h] = r[h]
  /\ Height(d) <= Height(e) /\ \A h \in 0 .. Height(d) : OnChain(e, h) = OnChain(d, h)
  /\ c # NoCursor => k # NoCursor

LEMMA KeptNames ==
  ASSUME NEW d, NEW r, NEW c, NEW e, NEW q, NEW k, Grow(d, r, c, e, q, k), NEW x, Names(r, x)
  PROVE  Names(q, x)
  BY Zenon DEF Grow, Names

LEMMA KeptOn ==
  ASSUME NEW d \in Hash, NEW r, NEW c, NEW e \in Hash, NEW q, NEW k, Grow(d, r, c, e, q, k),
         NEW h \in Nat, NEW b, OnDaemon(d, h, b)
  PROVE  OnDaemon(e, h, b)
<1>1. Height(d) \in Nat /\ Height(e) \in Nat
  BY HashIsSeq, HeightsAreHeights, Zenon
<1>2. h <= Height(d) /\ b = OnChain(d, h) /\ Height(d) <= Height(e)
  BY Zenon DEF OnDaemon, Grow
<1>3. h \in 0 .. Height(d) /\ h <= Height(e)
  BY <1>1, <1>2
<1> QED
  BY <1>2, <1>3, Zenon DEF OnDaemon, Grow

LEMMA KeptSound ==
  ASSUME NEW d \in Hash, NEW r, NEW c, NEW e \in Hash, NEW q, NEW k, Grow(d, r, c, e, q, k),
         NEW p, NEW l \in Local, Sound(d, r, c, p, l)
  PROVE  Sound(e, q, k, p, l)
<1>1. /\ l.height \in -1 .. MaxHeight /\ l.batch \in Seq(Hash) /\ l.stored \subseteq Hash
  BY LocalTypes, Zenon
<1>2. Names(q, l.seen)
  BY KeptNames, Zenon DEF Sound
<1>3. Place(q, k, p, l.height, l.hash)
  <2>1. Place(r, c, p, l.height, l.hash)
    BY Zenon DEF Sound
  <2>2. l.height >= 0 => l.height \in Heights
    BY <1>1 DEF Heights
  <2> QED
    BY <2>1, <2>2, Zenon DEF Place, Grow
<1>4. Written(q, p, l.height)
  BY Zenon DEF Sound, Written, Grow
<1>5. Ahead(e, l.height, l.batch)
  <2>1. \A i \in 1 .. Len(l.batch) : l.height + i \in Nat
    BY <1>1
  <2> QED
    BY <2>1, KeptOn, Zenon DEF Sound, Ahead
<1>6. Found(e, l.stored)
  <2>1. \A b \in l.stored : Height(b) \in Nat
    BY <1>1, HashIsSeq, HeightsAreHeights, Zenon
  <2> QED
    BY <2>1, KeptOn, Zenon DEF Sound, Found
<1> QED
  BY <1>2, <1>3, <1>4, <1>5, <1>6, Zenon DEF Sound

LEMMA StraightMoves ==
  ASSUME SharedTypes, JobTypes, SharedTypes', Straight, NEW j \in Jobs, NEW s, NEW m, Moves(j, s, m),
         Grow(daemon, rows, cursor, daemon', rows', cursor'),
         RowsOnDaemon(daemon', rows'), Names(rows', cursor'),
         Sound(daemon', rows', cursor', s, m)
  PROVE  Straight'
<1>1. /\ pc'[j] = s /\ at'[j] = m
      /\ \A k \in Jobs \ {j} : pc'[k] = pc[k] /\ at'[k] = at[k]
  BY MoveEffect, Zenon
<1>2. daemon \in Hash /\ daemon' \in Hash
  BY Zenon DEF SharedTypes
<1>3. ASSUME NEW k \in Jobs PROVE Sound(daemon', rows', cursor', pc'[k], at'[k])
  <2>1. CASE k = j
    BY <1>1, <2>1, Zenon
  <2>2. CASE k # j
    <3>1. Sound(daemon, rows, cursor, pc[k], at[k]) /\ at[k] \in Local
      BY Zenon DEF Straight, JobTypes
    <3>2. Sound(daemon', rows', cursor', pc[k], at[k])
      BY <1>2, <3>1, KeptSound, Zenon
    <3> QED
      BY <1>1, <2>2, <3>2, Zenon
  <2> QED
    BY <2>1, <2>2, Zenon
<1> QED
  BY <1>3, Zenon DEF Straight

LEMMA SameGrow ==
  ASSUME SharedTypes
  PROVE  Grow(daemon, rows, cursor, daemon, rows, cursor)
<1>1. Height(daemon) \in Nat
  BY HashIsSeq, HeightsAreHeights, Zenon DEF SharedTypes
<1>2. Height(daemon) <= Height(daemon)
  BY <1>1
<1> QED
  BY <1>2, Zenon DEF Grow

(* Only the locals of a job change. *)
LEMMA QuietMoves ==
  ASSUME SharedTypes, JobTypes, SharedTypes', Straight, NEW j \in Jobs, NEW s, NEW m, Moves(j, s, m),
         UNCHANGED <<daemon, rows, cursor>>, Sound(daemon, rows, cursor, s, m)
  PROVE  Straight'
<1>1. daemon' = daemon /\ rows' = rows /\ cursor' = cursor
  BY Zenon
<1>2. /\ Grow(daemon, rows, cursor, daemon', rows', cursor')
      /\ RowsOnDaemon(daemon', rows') /\ Names(rows', cursor')
      /\ Sound(daemon', rows', cursor', s, m)
  BY <1>1, SameGrow, Zenon DEF Straight
<1> QED
  BY <1>2, StraightMoves, Zenon

LEMMA IdleSound ==
  ASSUME NEW d, NEW r, NEW c
  PROVE  Sound(d, r, c, "idle", Idle)
<1>1. /\ Idle.seen = NoCursor /\ Idle.height = -1 /\ Idle.hash = NoHash /\ Idle.batch = << >> /\ Idle.stored = {}
  BY IdleIsLocal, Zenon DEF Fields
<1>2. "idle" \notin HandleSteps /\ ~(-1 >= 0)
  BY DEF HandleSteps
<1>3. Place(r, c, "idle", -1, NoHash)
  BY <1>2 DEF Place
<1>4. Ahead(d, -1, << >>) /\ Found(d, {}) /\ Written(r, "idle", -1) /\ Names(r, NoCursor)
  BY DEF Ahead, Found, Written, Names
<1> QED
  BY <1>1, <1>2, <1>3, <1>4, Zenon DEF Sound

(* A block and the block below it on the daemon's chain. *)
LEMMA NextOnChain ==
  ASSUME NEW d \in Hash, NEW h \in Nat, h + 1 <= Height(d)
  PROVE  Parent(OnChain(d, h + 1)) = OnChain(d, h)
<1>1. Height(d) \in Nat
  BY HashIsSeq, HeightsAreHeights, Zenon
<1>2. h + 1 \in 0 .. Height(d) /\ h \in 0 .. h + 1 /\ h + 1 > 0 /\ (h + 1) - 1 = h
  BY <1>1
<1>3. OnChain(d, h + 1) \in Hash /\ Height(OnChain(d, h + 1)) = h + 1
  BY <1>2, OnChainIsHash, Zenon
<1>4. Parent(OnChain(d, h + 1)) = OnChain(OnChain(d, h + 1), h)
  BY <1>2, <1>3, ParentOnChain, Zenon
<1> QED
  BY <1>2, <1>4, OnChainTwice, Zenon

(* The block a job is about to apply is the daemon's next. *)
LEMMA NextBlock ==
  ASSUME NEW d \in Hash, NEW n \in -1 .. MaxHeight, NEW B \in Seq(Hash), B # << >>, Ahead(d, n, B)
  PROVE  /\ Head(B) = OnChain(d, n + 1) /\ n + 1 \in 0 .. Height(d) /\ n + 1 \in Heights
         /\ Height(Head(B)) = n + 1 /\ Head(B) \in Hash
         /\ Ahead(d, n + 1, Tail(B)) /\ Tail(B) \in Seq(Hash)
<1>1. 1 \in 1 .. Len(B) /\ Head(B) = B[1] /\ Tail(B) \in Seq(Hash) /\ Len(Tail(B)) = Len(B) - 1
  OBVIOUS
<1>2. Height(d) \in Nat /\ Height(d) <= MaxHeight
  BY HashIsSeq, HeightsAreHeights, Zenon
<1>3. n + 1 <= Height(d) /\ Head(B) = OnChain(d, n + 1)
  BY <1>1, Zenon DEF Ahead, OnDaemon
<1>4. n + 1 \in 0 .. Height(d) /\ n + 1 \in Heights
  BY <1>2, <1>3 DEF Heights
<1>5. Height(Head(B)) = n + 1 /\ Head(B) \in Hash
  BY <1>3, <1>4, OnChainIsHash, Zenon
<1>6. ASSUME NEW i \in 1 .. Len(Tail(B)) PROVE OnDaemon(d, n + 1 + i, Tail(B)[i])
  <2>1. i + 1 \in 1 .. Len(B) /\ Tail(B)[i] = B[i + 1] /\ n + (i + 1) = n + 1 + i
    BY <1>1
  <2> QED
    BY <2>1, Zenon DEF Ahead
<1> QED
  BY <1>1, <1>3, <1>4, <1>5, <1>6, Zenon DEF Ahead

LEMMA ApplyStraight ==
  ASSUME SharedTypes, JobTypes, Shape, SharedTypes', Straight, NEW j \in Jobs, Apply(j)
  PROVE  Straight'
<1> DEFINE l == at[j]
           b == Head(l.batch)
<1>1. /\ l \in Local /\ l.batch # << >> /\ pc[j] \in ApplySteps /\ daemon' = daemon
  BY ApplyEffect, Zenon
<1>2. /\ l.height \in -1 .. MaxHeight /\ l.batch \in Seq(Hash) /\ daemon \in Hash
      /\ rows \in [Heights -> Hash \cup {NoHash}]
  BY <1>1, LocalTypes, Zenon DEF SharedTypes
<1>3. Sound(daemon, rows, cursor, pc[j], l) /\ RowsOnDaemon(daemon, rows) /\ Names(rows, cursor)
  BY Zenon DEF Straight
<1>4. Names(rows, l.seen) /\ Place(rows, cursor, pc[j], l.height, l.hash) /\ Written(rows, pc[j], l.height)
      /\ Ahead(daemon, l.height, l.batch) /\ Found(daemon, l.stored)
  BY <1>3, Zenon DEF Sound
<1>5. /\ b = OnChain(daemon, l.height + 1) /\ l.height + 1 \in 0 .. Height(daemon) /\ l.height + 1 \in Heights
      /\ Height(b) = l.height + 1 /\ b \in Hash
      /\ Ahead(daemon, l.height + 1, Tail(l.batch))
  BY <1>1, <1>2, <1>4, NextBlock, Zenon
<1>6. \A s \in ApplySteps \cup {"next", "check"} :
        s \notin HandleSteps /\ s \notin {"markLive", "rewind"} /\ s # "reconcile" /\ s # "readLive"
  BY DEF ApplySteps, HandleSteps
<1>7. b # NoHash /\ l.height + 1 >= 0 /\ l.height + 1 # -1
  BY <1>2, <1>5, HashIsSeq
<1>8. OnDaemon(daemon, l.height + 1, b)
  <2>1. Height(daemon) \in Nat
    BY <1>2, HashIsSeq, HeightsAreHeights, Zenon
  <2>2. l.height + 1 <= Height(daemon)
    <3> HIDE DEF l
    <3> QED
      BY <1>2, <1>5, <2>1
  <2> QED
    BY <1>5, <2>2, Zenon DEF OnDaemon
<1>9. CASE /\ pc[j] = "writeRest" /\ Moves(j, "writeBlocks", l)
           /\ extras' = extras \cup {b} /\ UNCHANGED <<rows, cursor>>
  <2>1. "writeBlocks" \in ApplySteps /\ "writeBlocks" \notin {"readStatus", "advance"}
    BY DEF ApplySteps
  <2>2. Place(rows, cursor, "writeBlocks", l.height, l.hash) /\ Written(rows, "writeBlocks", l.height)
    BY <1>4, <1>6, <1>9, <2>1, Zenon DEF Place, Written
  <2>3. Sound(daemon, rows, cursor, "writeBlocks", l)
    BY <1>4, <1>6, <2>1, <2>2, Zenon DEF Sound
  <2> QED
    BY <1>1, <1>9, <2>3, QuietMoves, Zenon
<1>10. CASE /\ pc[j] = "writeBlocks" /\ Moves(j, "readStatus", l) /\ UNCHANGED <<extras, cursor>>
            /\ rows' = [rows EXCEPT ![Height(b)] = IF @ = NoHash THEN b ELSE @]
  <2> DEFINE n == l.height + 1
  <2>1. n \in Heights /\ Height(b) = n
    BY <1>5
  <2>2. /\ \A h \in Heights : h # n => rows'[h] = rows[h]
        /\ rows'[n] = (IF rows[n] = NoHash THEN b ELSE rows[n])
    <3> HIDE DEF n, b, l
    <3> QED
      BY <1>2, <1>10, <2>1
  <2>3. \A h \in Heights : rows[h] # NoHash => rows'[h] = rows[h]
    BY <2>2, Zenon
  <2>4. rows'[n] # NoHash /\ OnDaemon(daemon, n, rows'[n])
    BY <1>3, <1>7, <1>8, <2>1, <2>2, Zenon DEF RowsOnDaemon
  <2>5. cursor' = cursor /\ Grow(daemon, rows, cursor, daemon', rows', cursor')
    <3>1. Grow(daemon, rows, cursor, daemon, rows, cursor)
      BY SameGrow
    <3> QED
      BY <1>1, <1>10, <2>3, <3>1, Zenon DEF Grow
  <2>6. ASSUME NEW h \in Heights, rows'[h] # NoHash
        PROVE  OnDaemon(daemon', h, rows'[h]) /\ (h > 0 => rows'[h - 1] # NoHash)
    <3>1. h > 0 => h - 1 \in Heights
      BY DEF Heights
    <3>2. CASE h = n
      <4>1. h > 0 => h - 1 = l.height /\ l.height >= 0
        <5> HIDE DEF l
        <5> QED
          BY <1>2, <3>2
      <4>2. h > 0 => rows[h - 1] # NoHash
        BY <1>4, <4>1, Zenon DEF Place
      <4> QED
        BY <1>1, <2>3, <2>4, <3>1, <3>2, <4>2, Zenon
    <3>3. CASE h # n
      <4>1. OnDaemon(daemon, h, rows[h]) /\ (h > 0 => rows[h - 1] # NoHash)
        BY <1>3, <2>2, <2>6, <3>3, Zenon DEF RowsOnDaemon
      <4> QED
        BY <1>1, <2>2, <2>3, <3>1, <3>3, <4>1, Zenon
    <3> QED
      BY <3>2, <3>3, Zenon
  <2>7. Names(rows', cursor')
    BY <1>3, <2>5, KeptNames, Zenon
  <2>8. "readStatus" \in ApplySteps
    BY DEF ApplySteps
  <2>9. Sound(daemon', rows', cursor', pc[j], l)
    BY <1>1, <1>2, <1>3, <2>5, KeptSound, Zenon DEF SharedTypes
  <2>10. Place(rows', cursor', "readStatus", l.height, l.hash)
    BY <1>6, <1>10, <2>8, <2>9, Zenon DEF Sound, Place
  <2>11. Written(rows', "readStatus", l.height)
    BY <2>1, <2>4, Zenon DEF Written
  <2>12. Sound(daemon', rows', cursor', "readStatus", l)
    BY <1>6, <2>8, <2>9, <2>10, <2>11, Zenon DEF Sound
  <2>13. RowsOnDaemon(daemon', rows')
    BY <2>6, Zenon DEF RowsOnDaemon
  <2> QED
    BY <1>10, <2>5, <2>7, <2>12, <2>13, StraightMoves, Zenon
<1>11. CASE /\ pc[j] = "readStatus" /\ UNCHANGED <<rows, extras, cursor>>
            /\ \E m : /\ Moves(j, "advance", m)
                      /\ Fields(m, cursor, l.height, l.hash, l.goal, l.batch, l.stored, l.probe)
  <2>1. PICK m : /\ Moves(j, "advance", m)
                 /\ Fields(m, cursor, l.height, l.hash, l.goal, l.batch, l.stored, l.probe)
    BY <1>11, Zenon
  <2>2. "advance" \in ApplySteps
    BY DEF ApplySteps
  <2>3. Place(rows, cursor, "advance", l.height, l.hash) /\ Written(rows, "advance", l.height)
    BY <1>4, <1>6, <1>11, <2>2, Zenon DEF Place, Written
  <2>4. Sound(daemon, rows, cursor, "advance", m)
    BY <1>3, <1>4, <1>6, <2>1, <2>2, <2>3, Zenon DEF Sound, Fields
  <2> QED
    BY <1>1, <1>11, <2>1, <2>4, QuietMoves, Zenon
<1>12. CASE /\ pc[j] = "advance" /\ UNCHANGED <<rows, extras>>
            /\ cursor' = Cursor(Height(b), b, l.seen.status)
            /\ \E m : /\ Moves(j, ApplyTo(j), m)
                      /\ Fields(m, l.seen, Height(b), b, l.goal, Tail(l.batch), l.stored, l.probe)
  <2> DEFINE n == l.height + 1
             s == ApplyTo(j)
  <2>1. PICK m : /\ Moves(j, s, m)
                 /\ Fields(m, l.seen, Height(b), b, l.goal, Tail(l.batch), l.stored, l.probe)
    BY <1>12, Zenon
  <2>2. s \in {"next", "check"} /\ s \in ApplySteps \cup {"next", "check"} /\ s \notin {"readStatus", "advance"}
    BY DEF ApplyTo
  <2> HIDE DEF s
  <2>3. n \in Heights /\ Height(b) = n /\ n >= 0 /\ n # -1
    BY <1>5, <1>7
  <2>4. rows[n] # NoHash /\ rows[n] = b
    <3>1. rows[n] # NoHash
      BY <1>4, <1>12, Zenon DEF Written
    <3>2. OnDaemon(daemon, n, rows[n])
      BY <1>3, <2>3, <3>1, Zenon DEF RowsOnDaemon
    <3> QED
      BY <1>5, <3>1, <3>2, Zenon DEF OnDaemon
  <2>5. cursor'.height = n /\ cursor'.hash = b
    BY <1>12, <2>3 DEF Cursor
  <2>6. Names(rows', cursor') /\ cursor' # NoCursor
    <3>1. NoCursor.height = -1
      BY CursorParts, Zenon
    <3> QED
      BY <1>7, <1>12, <2>3, <2>4, <2>5, <3>1, Zenon DEF Names
  <2>7. Grow(daemon, rows, cursor, daemon', rows', cursor')
    <3>1. Grow(daemon, rows, cursor, daemon, rows, cursor)
      BY SameGrow
    <3> QED
      BY <1>1, <1>12, <2>6, <3>1, Zenon DEF Grow
  <2>8. Place(rows', cursor', s, n, b) /\ Written(rows', s, n)
    BY <1>6, <1>12, <2>2, <2>3, <2>4, <2>6, Zenon DEF Place, Written
  <2>9. Sound(daemon', rows', cursor', s, m)
    BY <1>1, <1>4, <1>5, <1>6, <1>12, <2>1, <2>2, <2>3, <2>8, Zenon DEF Sound, Fields
  <2>10. RowsOnDaemon(daemon', rows')
    BY <1>1, <1>3, <1>12, Zenon
  <2> QED
    BY <2>1, <2>6, <2>7, <2>9, <2>10, StraightMoves, Zenon
<1> QED
  BY <1>9, <1>10, <1>11, <1>12, ApplyEffect, Zenon

LEMMA HandleStraight ==
  ASSUME Straight, NEW j \in Jobs, HandleReorg(j)
  PROVE  FALSE
<1>1. pc[j] \in HandleSteps
  BY DEF HandleReorg, Handle, Probe, Stored, GiveUp, DeleteBlocks, DeleteRest, MoveCursor, At, HandleSteps
<1> QED
  BY <1>1, Zenon DEF Straight, Sound

(* What a cursor says of the place it is at. *)
LEMMA CursorPlace ==
  ASSUME SharedTypes, Names(rows, cursor), NEW p, p # "reconcile", p # "readLive"
  PROVE  /\ Place(rows, cursor, p, cursor.height, cursor.hash)
         /\ Place(rows, cursor, p, cursor.height, NoHash)
<1>1. CASE cursor = NoCursor
  <2>1. cursor.height = -1 /\ cursor.hash = NoHash /\ ~(-1 >= 0)
    BY <1>1, CursorParts
  <2> QED
    BY <2>1, Zenon DEF Place
<1>2. CASE cursor # NoCursor
  <2>1. cursor.height \in Heights /\ rows[cursor.height] = cursor.hash /\ cursor.hash # NoHash
    BY <1>2, Zenon DEF Names
  <2>2. cursor.height # -1
    BY <2>1 DEF Heights
  <2> QED
    BY <1>2, <2>1, <2>2, Zenon DEF Place
<1> QED
  BY <1>1, <1>2, Zenon

LEMMA TipStraight ==
  ASSUME SharedTypes, JobTypes, Shape, SharedTypes', Straight, TipFollower
  PROVE  Straight'
<1> DEFINE l == at["tip"]
           p == pc["tip"]
<1>1. "tip" \in Jobs
  BY Zenon DEF TipFollower, TipStart, TipGetTip, TipRewind, TipFetch, TipCheck, At
<1>2. /\ l \in Local /\ l.height \in -1 .. MaxHeight /\ l.batch \in Seq(Hash) /\ daemon \in Hash
      /\ rows \in [Heights -> Hash \cup {NoHash}]
  BY <1>1, LocalTypes, Zenon DEF SharedTypes, JobTypes
<1>3. Sound(daemon, rows, cursor, p, l) /\ RowsOnDaemon(daemon, rows) /\ Names(rows, cursor)
  BY <1>1, Zenon DEF Straight
<1>4. Names(rows, l.seen) /\ Place(rows, cursor, p, l.height, l.hash) /\ Written(rows, p, l.height)
      /\ Ahead(daemon, l.height, l.batch) /\ Found(daemon, l.stored)
  BY <1>3, Zenon DEF Sound
<1>5. \A s \in {"getTip", "rewind", "fetch", "check", "writeRest"} :
        s \notin HandleSteps /\ s # "markLive" /\ s # "reconcile" /\ s # "readLive" /\ s \notin {"readStatus", "advance"}
  BY DEF HandleSteps
<1>6. \A s \in {"getTip", "rewind", "fetch", "check", "writeRest"} :
        /\ p \in {"getTip", "fetch", "check"} => Place(rows, cursor, s, l.height, l.hash)
        /\ \A n : Written(rows, s, n)
  <2>1. "getTip" # "reconcile" /\ "fetch" # "reconcile" /\ "check" # "reconcile"
    OBVIOUS
  <2>2. p \in {"getTip", "fetch", "check"} => p # "reconcile"
    BY <2>1, Zenon
  <2> QED
    BY <1>4, <1>5, <2>2, Zenon DEF Place, Written
<1>7. \A s \in {"getTip", "fetch", "check", "writeRest"} : s # "rewind"
  OBVIOUS
<1>8. CASE TipStart
  <2>1. PICK m : /\ Moves("tip", "getTip", m)
                 /\ Fields(m, cursor, cursor.height, cursor.hash, 0, << >>, {}, 0)
    BY <1>8, TipStartEffect, Zenon
  <2>2. Ahead(daemon, cursor.height, << >>) /\ Found(daemon, {})
    BY DEF Ahead, Found
  <2>3. Place(rows, cursor, "getTip", cursor.height, cursor.hash)
    BY <1>3, <1>5, CursorPlace, Zenon
  <2>4. Sound(daemon, rows, cursor, "getTip", m)
    BY <1>3, <1>5, <1>6, <1>7, <2>1, <2>2, <2>3, Zenon DEF Sound, Fields
  <2> QED
    BY <1>1, <1>8, <2>1, <2>4, TipStartEffect, QuietMoves, Zenon
<1>9. CASE TipGetTip
  <2>1. /\ p = "getTip" /\ UNCHANGED <<daemon, rows, cursor>>
        /\ \/ Moves("tip", "idle", Idle)
           \/ l.seen # NoCursor /\ Moves("tip", "rewind", l)
           \/ \E m : /\ Moves("tip", "fetch", m)
                     /\ Fields(m, l.seen, l.height, l.hash, Height(daemon), l.batch, l.stored, l.probe)
    BY <1>9, TipGetTipEffect, Zenon
  <2>2. ASSUME Moves("tip", "idle", Idle)
        PROVE  Straight'
    BY <1>1, <2>1, <2>2, IdleSound, QuietMoves, Zenon
  <2>3. ASSUME l.seen # NoCursor, Moves("tip", "rewind", l)
        PROVE  Straight'
    <3>1. Sound(daemon, rows, cursor, "rewind", l)
      BY <1>4, <1>5, <1>6, <2>1, <2>3, Zenon DEF Sound
    <3> QED
      BY <1>1, <2>1, <2>3, <3>1, QuietMoves, Zenon
  <2>4. ASSUME NEW m, Moves("tip", "fetch", m),
               Fields(m, l.seen, l.height, l.hash, Height(daemon), l.batch, l.stored, l.probe)
        PROVE  Straight'
    <3>1. Sound(daemon, rows, cursor, "fetch", m)
      BY <1>4, <1>5, <1>6, <1>7, <2>1, <2>4, Zenon DEF Sound, Fields
    <3> QED
      BY <1>1, <2>1, <2>4, <3>1, QuietMoves, Zenon
  <2> QED
    BY <2>1, <2>2, <2>3, <2>4, Zenon
<1>10. CASE TipRewind
  <2>1. /\ p = "rewind" /\ Moves("tip", "idle", Idle) /\ UNCHANGED <<daemon, rows>>
        /\ cursor' = [l.seen EXCEPT !.status = "backfilling"]
    BY <1>10, TipRewindEffect, Zenon
  <2>2. l.seen \in Cursors /\ "backfilling" \in Status
    BY <1>2, LocalTypes DEF Status
  <2>3. cursor'.height = l.seen.height /\ cursor'.hash = l.seen.hash
    BY <2>1, <2>2, CursorMarked, Zenon
  <2>4. l.seen # NoCursor
    BY <1>3, <2>1, Zenon DEF Sound
  <2>5. /\ l.seen.height \in Heights /\ rows[l.seen.height] = l.seen.hash /\ l.seen.hash # NoHash
    BY <1>4, <2>4, Zenon DEF Names
  <2>6. cursor' # NoCursor
    <3>1. NoCursor.hash = NoHash
      BY CursorParts, Zenon
    <3> QED
      BY <2>3, <2>5, <3>1, Zenon
  <2>7. Names(rows', cursor')
    BY <2>1, <2>3, <2>5, Zenon DEF Names
  <2>8. Grow(daemon, rows, cursor, daemon', rows', cursor')
    <3>1. Grow(daemon, rows, cursor, daemon, rows, cursor)
      BY SameGrow
    <3> QED
      BY <2>1, <2>6, <3>1, Zenon DEF Grow
  <2>9. RowsOnDaemon(daemon', rows')
    BY <1>3, <2>1, Zenon
  <2> QED
    BY <1>1, <2>1, <2>7, <2>8, <2>9, IdleSound, StraightMoves, Zenon
<1>11. CASE TipFetch
  <2>1. /\ p = "fetch" /\ UNCHANGED <<daemon, rows, cursor>>
        /\ \/ Moves("tip", "idle", Idle)
           \/ \E B \in Seq(Hash) :
                 /\ \A i \in 1 .. Len(B) : l.height + i \in 0 .. Height(daemon) /\ B[i] = OnChain(daemon, l.height + i)
                 /\ \E m : /\ Moves("tip", "check", m)
                           /\ Fields(m, l.seen, l.height, l.hash, l.goal, B, l.stored, l.probe)
    BY <1>11, TipFetchEffect, Zenon
  <2>2. ASSUME Moves("tip", "idle", Idle)
        PROVE  Straight'
    BY <1>1, <2>1, <2>2, IdleSound, QuietMoves, Zenon
  <2>3. ASSUME NEW B \in Seq(Hash),
               \A i \in 1 .. Len(B) : l.height + i \in 0 .. Height(daemon) /\ B[i] = OnChain(daemon, l.height + i),
               NEW m, Moves("tip", "check", m),
               Fields(m, l.seen, l.height, l.hash, l.goal, B, l.stored, l.probe)
        PROVE  Straight'
    <3>1. Height(daemon) \in Nat
      BY <1>2, HashIsSeq, HeightsAreHeights, Zenon
    <3>2. \A k \in 0 .. Height(daemon) : k <= Height(daemon)
      BY <3>1
    <3>3. Ahead(daemon, l.height, B)
      BY <2>3, <3>2, Zenon DEF Ahead, OnDaemon
    <3>4. Sound(daemon, rows, cursor, "check", m)
      BY <1>4, <1>5, <1>6, <1>7, <2>1, <2>3, <3>3, Zenon DEF Sound, Fields
    <3> QED
      BY <1>1, <2>1, <2>3, <3>4, QuietMoves, Zenon
  <2> QED
    BY <2>1, <2>2, <2>3, Zenon
<1>12. CASE TipCheck
  <2>1. /\ p = "check" /\ UNCHANGED <<daemon, rows, cursor>>
        /\ \/ Moves("tip", "fetch", l)
           \/ Moves("tip", "idle", Idle)
           \/ l.batch # << >> /\ l.hash # NoHash /\ Parent(Head(l.batch)) # l.hash
           \/ Moves("tip", "writeRest", l)
    BY <1>12, TipCheckEffect, Zenon
  <2>2. Sound(daemon, rows, cursor, "fetch", l) /\ Sound(daemon, rows, cursor, "writeRest", l)
    BY <1>4, <1>5, <1>6, <1>7, <2>1, Zenon DEF Sound
  <2>3. ASSUME l.batch # << >>, l.hash # NoHash PROVE Parent(Head(l.batch)) = l.hash
    <3>1. Head(l.batch) = OnChain(daemon, l.height + 1) /\ l.height + 1 \in 0 .. Height(daemon)
      BY <1>2, <1>4, <2>3, NextBlock, Zenon
    <3>2. l.height # -1
      BY <1>4, <2>3, Zenon DEF Place
    <3>3. Height(daemon) \in Nat
      BY <1>2, HashIsSeq, HeightsAreHeights, Zenon
    <3>4. l.height \in Nat /\ l.height >= 0 /\ l.height + 1 <= Height(daemon) /\ l.height \in Heights
      <4> HIDE DEF l
      <4> QED
        BY <1>2, <3>1, <3>2, <3>3 DEF Heights
    <3>5. l.hash = rows[l.height] /\ rows[l.height] # NoHash
      BY <1>4, <2>3, <3>4, Zenon DEF Place
    <3>6. l.hash = OnChain(daemon, l.height)
      BY <1>3, <3>4, <3>5, Zenon DEF RowsOnDaemon, OnDaemon
    <3> QED
      BY <1>2, <3>1, <3>4, <3>6, NextOnChain, Zenon
  <2>4. CASE Moves("tip", "fetch", l)
    BY <1>1, <2>1, <2>2, <2>4, QuietMoves, Zenon
  <2>5. CASE Moves("tip", "idle", Idle)
    BY <1>1, <2>1, <2>5, IdleSound, QuietMoves, Zenon
  <2>6. CASE Moves("tip", "writeRest", l)
    BY <1>1, <2>1, <2>2, <2>6, QuietMoves, Zenon
  <2> QED
    BY <2>1, <2>3, <2>4, <2>5, <2>6, Zenon
<1> QED
  BY <1>8, <1>9, <1>10, <1>11, <1>12, Zenon DEF TipFollower

LEMMA SweepStraight ==
  ASSUME SharedTypes, JobTypes, Shape, SharedTypes', Straight, SafetySweep
  PROVE  Straight'
<1> DEFINE l == at["sweep"]
           p == pc["sweep"]
<1>1. "sweep" \in Jobs
  BY Zenon DEF SafetySweep, SweepStart, SweepQuery, SweepCompare, At
<1>2. /\ l \in Local /\ l.height \in -1 .. MaxHeight /\ daemon \in Hash /\ l.stored \subseteq Hash
      /\ rows \in [Heights -> Hash \cup {NoHash}]
  BY <1>1, LocalTypes, Zenon DEF SharedTypes, JobTypes
<1>3. Sound(daemon, rows, cursor, p, l) /\ RowsOnDaemon(daemon, rows) /\ Names(rows, cursor)
  BY <1>1, Zenon DEF Straight
<1>4. Names(rows, l.seen) /\ Place(rows, cursor, p, l.height, l.hash) /\ Written(rows, p, l.height)
      /\ Ahead(daemon, l.height, l.batch) /\ Found(daemon, l.stored)
  BY <1>3, Zenon DEF Sound
<1>5. \A s \in {"query", "compare"} :
        s \notin HandleSteps /\ s \notin {"markLive", "rewind"} /\ s # "reconcile" /\ s # "readLive"
          /\ s \notin {"readStatus", "advance"}
  BY DEF HandleSteps
<1>6. \A s \in {"query", "compare"} :
        /\ p \in {"query", "compare"} => Place(rows, cursor, s, l.height, l.hash)
        /\ \A n : Written(rows, s, n)
  BY <1>4, <1>5, Zenon DEF Place, Written
<1>7. CASE SweepStart
  <2>1. PICK m : /\ Moves("sweep", "query", m)
                 /\ Fields(m, cursor, -1, NoHash, 0, << >>, {}, 0)
    BY <1>7, SweepStartEffect, Zenon
  <2>2. Ahead(daemon, -1, << >>) /\ Found(daemon, {}) /\ ~(-1 >= 0)
    BY DEF Ahead, Found
  <2>3. Place(rows, cursor, "query", -1, NoHash)
    BY <1>5, <2>2, Zenon DEF Place
  <2>4. Sound(daemon, rows, cursor, "query", m)
    BY <1>3, <1>5, <1>6, <2>1, <2>2, <2>3, Zenon DEF Sound, Fields
  <2> QED
    BY <1>1, <1>7, <2>1, <2>4, SweepStartEffect, QuietMoves, Zenon
<1>8. CASE SweepQuery
  <2>1. PICK R \in SUBSET Hash :
            /\ \A b \in R : \E h \in Heights : rows[h] # NoHash /\ b = rows[h]
            /\ \E m : /\ Moves("sweep", "compare", m)
                      /\ Fields(m, l.seen, l.height, l.hash, l.goal, l.batch, R, l.probe)
    BY <1>8, SweepQueryEffect, Zenon
  <2>2. PICK m : /\ Moves("sweep", "compare", m)
                 /\ Fields(m, l.seen, l.height, l.hash, l.goal, l.batch, R, l.probe)
    BY <2>1, Zenon
  <2>3. p = "query" /\ UNCHANGED <<daemon, rows, cursor>>
    BY <1>8, SweepQueryEffect, Zenon
  <2>4. ASSUME NEW b \in R PROVE OnDaemon(daemon, Height(b), b)
    <3>1. PICK h \in Heights : rows[h] # NoHash /\ b = rows[h]
      BY <2>1, Zenon
    <3>2. h <= Height(daemon) /\ b = OnChain(daemon, h)
      BY <1>3, <3>1, Zenon DEF RowsOnDaemon, OnDaemon
    <3>3. Height(daemon) \in Nat
      BY <1>2, HashIsSeq, HeightsAreHeights, Zenon
    <3>4. h \in 0 .. Height(daemon)
      BY <3>2, <3>3 DEF Heights
    <3>5. Height(b) = h
      BY <1>2, <3>2, <3>4, OnChainIsHash, Zenon
    <3> QED
      BY <3>2, <3>5, Zenon DEF OnDaemon
  <2>5. Sound(daemon, rows, cursor, "compare", m)
    BY <1>4, <1>5, <1>6, <2>2, <2>3, <2>4, Zenon DEF Sound, Fields, Found
  <2> QED
    BY <1>1, <2>2, <2>3, <2>5, QuietMoves, Zenon
<1>9. CASE SweepCompare
  <2>1. /\ p = "compare" /\ UNCHANGED <<daemon, rows, cursor>>
        /\ \/ Moves("sweep", "idle", Idle)
           \/ \E b \in l.stored : b # OnChain(daemon, Height(b))
           \/ \E R \in SUBSET l.stored :
                 \E m : /\ Moves("sweep", "compare", m)
                        /\ Fields(m, l.seen, l.height, l.hash, l.goal, l.batch, R, l.probe)
    BY <1>9, SweepCompareEffect, Zenon
  <2>2. ~(\E b \in l.stored : b # OnChain(daemon, Height(b)))
    BY <1>4, Zenon DEF Found, OnDaemon
  <2>3. CASE Moves("sweep", "idle", Idle)
    BY <1>1, <2>1, <2>3, IdleSound, QuietMoves, Zenon
  <2>4. ASSUME NEW R \in SUBSET l.stored, NEW m, Moves("sweep", "compare", m),
               Fields(m, l.seen, l.height, l.hash, l.goal, l.batch, R, l.probe)
        PROVE  Straight'
    <3>1. Found(daemon, R)
      BY <1>4, Zenon DEF Found
    <3>2. Sound(daemon, rows, cursor, "compare", m)
      BY <1>4, <1>5, <1>6, <2>1, <2>4, <3>1, Zenon DEF Sound, Fields
    <3> QED
      BY <1>1, <2>1, <2>4, <3>2, QuietMoves, Zenon
  <2> QED
    BY <2>1, <2>2, <2>3, <2>4, Zenon
<1> QED
  BY <1>7, <1>8, <1>9, Zenon DEF SafetySweep

LEMMA FillStraight ==
  ASSUME SharedTypes, JobTypes, Shape, SharedTypes', Straight, Backfiller
  PROVE  Straight'
<1> DEFINE l == at["fill"]
           p == pc["fill"]
<1>1. "fill" \in Jobs
  BY Zenon DEF Backfiller, FillStart, FillMaxRow, FillReconcile, FillGetTarget, FillNext, FillReadLive,
               FillMarkLive, At
<1>2. /\ l \in Local /\ l.height \in -1 .. MaxHeight /\ daemon \in Hash /\ l.goal \in Heights
      /\ rows \in [Heights -> Hash \cup {NoHash}] /\ l.hash \in Hash \cup {NoHash} /\ l.seen \in Cursors
  BY <1>1, LocalTypes, Zenon DEF SharedTypes, JobTypes
<1>3. Sound(daemon, rows, cursor, p, l) /\ RowsOnDaemon(daemon, rows) /\ Names(rows, cursor)
  BY <1>1, Zenon DEF Straight
<1>4. Names(rows, l.seen) /\ Place(rows, cursor, p, l.height, l.hash) /\ Written(rows, p, l.height)
      /\ Ahead(daemon, l.height, l.batch) /\ Found(daemon, l.stored)
  BY <1>3, Zenon DEF Sound
<1>5. \A s \in {"maxRow", "reconcile", "getTarget", "next", "writeRest", "readLive", "markLive"} :
        s \notin HandleSteps /\ s # "rewind" /\ s \notin {"readStatus", "advance"}
  BY DEF HandleSteps
<1>6. \A s \in {"maxRow", "getTarget", "next", "writeRest", "readLive"} : s # "markLive" /\ s # "reconcile"
  OBVIOUS
<1>7. \A s \in {"maxRow", "reconcile", "getTarget", "next", "writeRest", "readLive", "markLive"} :
        \A n : Written(rows, s, n)
  BY <1>5, Zenon DEF Written
<1>8. "markLive" # "reconcile" /\ \A s \in {"maxRow", "getTarget", "next", "writeRest", "markLive"} : s # "readLive"
  OBVIOUS
<1>9. \A s \in {"getTarget", "next", "writeRest", "markLive"} :
        p \in {"maxRow", "getTarget", "next", "readLive"} => Place(rows, cursor, s, l.height, l.hash)
  <2>1. \A s \in {"maxRow", "getTarget", "next", "readLive"} : s # "reconcile"
    BY <1>6, Zenon
  <2> QED
    BY <1>4, <1>6, <1>8, <2>1, Zenon DEF Place
<1>10. Height(daemon) \in Nat
  BY <1>2, HashIsSeq, HeightsAreHeights, Zenon
<1>11. CASE FillStart
  <2>1. PICK m : /\ Moves("fill", "maxRow", m)
                 /\ Fields(m, cursor, cursor.height, NoHash, 0, << >>, {}, 0)
    BY <1>11, FillStartEffect, Zenon
  <2>2. Ahead(daemon, cursor.height, << >>) /\ Found(daemon, {})
    BY DEF Ahead, Found
  <2>3. Place(rows, cursor, "maxRow", cursor.height, NoHash)
    BY <1>3, <1>6, <1>8, CursorPlace, Zenon
  <2>4. Sound(daemon, rows, cursor, "maxRow", m)
    BY <1>3, <1>5, <1>6, <1>7, <2>1, <2>2, <2>3, Zenon DEF Sound, Fields
  <2> QED
    BY <1>1, <1>11, <2>1, <2>4, FillStartEffect, QuietMoves, Zenon
<1>12. CASE FillMaxRow
  <2>1. /\ p = "maxRow" /\ UNCHANGED <<daemon, rows, cursor>>
        /\ \/ Moves("fill", "getTarget", l)
           \/ /\ MaxRow \in Heights /\ MaxRow > l.height /\ rows[MaxRow] # NoHash
              /\ \E m : /\ Moves("fill", "reconcile", m)
                        /\ Fields(m, l.seen, MaxRow, rows[MaxRow], l.goal, l.batch, l.stored, l.probe)
    BY <1>12, FillMaxRowEffect, Zenon
  <2>2. CASE Moves("fill", "getTarget", l)
    <3>1. Sound(daemon, rows, cursor, "getTarget", l)
      BY <1>4, <1>5, <1>6, <1>7, <1>9, <2>1, Zenon DEF Sound
    <3> QED
      BY <1>1, <2>1, <2>2, <3>1, QuietMoves, Zenon
  <2>3. l.batch = << >>
    BY <1>1, <2>1, Zenon DEF Shape, Shaped
  <2>4. ASSUME MaxRow \in Heights, rows[MaxRow] # NoHash,
               NEW m, Moves("fill", "reconcile", m),
               Fields(m, l.seen, MaxRow, rows[MaxRow], l.goal, l.batch, l.stored, l.probe)
        PROVE  Straight'
    <3>1. MaxRow # -1 /\ MaxRow >= 0
      BY <2>4 DEF Heights
    <3>2. "reconcile" # "readLive" /\ "reconcile" # "markLive"
      OBVIOUS
    <3>3. Place(rows, cursor, "reconcile", MaxRow, rows[MaxRow])
      BY <2>4, <3>1, <3>2, Zenon DEF Place
    <3>4. Ahead(daemon, MaxRow, << >>)
      BY DEF Ahead
    <3>5. Sound(daemon, rows, cursor, "reconcile", m)
      BY <1>4, <1>5, <1>7, <2>3, <2>4, <3>2, <3>3, <3>4, Zenon DEF Sound, Fields
    <3> QED
      BY <1>1, <2>1, <2>4, <3>5, QuietMoves, Zenon
  <2> QED
    BY <2>1, <2>2, <2>4, Zenon
<1>13. CASE FillReconcile
  <2>1. /\ p = "reconcile" /\ Moves("fill", "getTarget", l) /\ UNCHANGED <<daemon, rows>>
        /\ cursor' = Cursor(l.height, l.hash, "backfilling")
    BY <1>13, FillReconcileEffect, Zenon
  <2>2. l.height >= 0 /\ l.hash # NoHash /\ rows[l.height] = l.hash
    BY <1>4, <2>1, Zenon DEF Place
  <2>3. l.height \in Heights
    <3> HIDE DEF l
    <3> QED
      BY <1>2, <2>2 DEF Heights
  <2>4. cursor'.height = l.height /\ cursor'.hash = l.hash
    BY <2>1 DEF Cursor
  <2>5. cursor' # NoCursor
    <3>1. NoCursor.hash = NoHash
      BY CursorParts, Zenon
    <3> QED
      BY <2>2, <2>4, <3>1, Zenon
  <2>6. Names(rows', cursor') /\ RowsOnDaemon(daemon', rows')
    BY <1>3, <2>1, <2>2, <2>3, <2>4, Zenon DEF Names
  <2>7. Grow(daemon, rows, cursor, daemon', rows', cursor')
    <3>1. Grow(daemon, rows, cursor, daemon, rows, cursor)
      BY SameGrow
    <3> QED
      BY <2>1, <2>5, <3>1, Zenon DEF Grow
  <2>8. Place(rows', cursor', "getTarget", l.height, l.hash)
    BY <1>4, <1>6, <1>8, <2>1, <2>5, Zenon DEF Place
  <2>9. Sound(daemon', rows', cursor', "getTarget", l)
    BY <1>4, <1>5, <1>6, <1>7, <2>1, <2>8, Zenon DEF Sound
  <2> QED
    BY <1>1, <2>1, <2>6, <2>7, <2>9, StraightMoves, Zenon
<1>14. CASE FillGetTarget
  <2>1. p = "getTarget" /\ UNCHANGED <<daemon, rows, cursor>>
    BY <1>14, FillGetTargetEffect, Zenon
  <2>2. PICK g, m : /\ Moves("fill", "next", m)
                    /\ Fields(m, l.seen, l.height, l.hash, g, l.batch, l.stored, l.probe)
    BY <1>14, FillGetTargetEffect, Zenon
  <2>3. Sound(daemon, rows, cursor, "next", m)
    BY <1>4, <1>5, <1>6, <1>7, <1>9, <2>1, <2>2, Zenon DEF Sound, Fields
  <2> QED
    BY <1>1, <2>1, <2>2, <2>3, QuietMoves, Zenon
<1>15. CASE FillNext
  <2> DEFINE h == l.height + 1
             B == <<OnChain(daemon, h)>>
  <2>1. /\ p = "next" /\ UNCHANGED <<daemon, rows, cursor>>
        /\ \/ (h > l.goal \/ h > Height(daemon)) /\ Moves("fill", "readLive", l)
           \/ /\ h \in 0 .. Height(daemon)
              /\ \E m : /\ Moves("fill", "writeRest", m)
                        /\ Fields(m, l.seen, l.height, l.hash, l.goal, B, l.stored, l.probe)
    BY <1>15, FillNextEffect, Zenon
  <2>2. ASSUME h > l.goal \/ h > Height(daemon), Moves("fill", "readLive", l)
        PROVE  Straight'
    <3>1. l.height >= 0
      <4>1. l.goal \in Nat
        BY <1>2, HeightsAreHeights, Zenon
      <4>2. l.height + 1 > l.goal \/ l.height + 1 > Height(daemon)
        BY <2>2, Zenon
      <4> HIDE DEF l
      <4> QED
        BY <1>2, <1>10, <4>1, <4>2
    <3>2. "next" # "reconcile"
      OBVIOUS
    <3>3. Place(rows, cursor, "readLive", l.height, l.hash)
      BY <1>4, <1>6, <2>1, <3>1, <3>2, Zenon DEF Place
    <3>4. Sound(daemon, rows, cursor, "readLive", l)
      BY <1>4, <1>5, <1>6, <1>7, <2>1, <3>3, Zenon DEF Sound
    <3> QED
      BY <1>1, <2>1, <2>2, <3>4, QuietMoves, Zenon
  <2>3. ASSUME h \in 0 .. Height(daemon), NEW m, Moves("fill", "writeRest", m),
               Fields(m, l.seen, l.height, l.hash, l.goal, B, l.stored, l.probe)
        PROVE  Straight'
    <3>1. h <= Height(daemon)
      BY <1>10, <2>3
    <3>2. Ahead(daemon, l.height, B)
      <4>1. \A i \in 1 .. Len(B) : i = 1 /\ B[i] = OnChain(daemon, h)
        <5> HIDE DEF h
        <5> QED
          OBVIOUS
      <4> HIDE DEF B
      <4> QED
        BY <3>1, <4>1, Zenon DEF Ahead, OnDaemon
    <3> HIDE DEF B
    <3>3. Sound(daemon, rows, cursor, "writeRest", m)
      BY <1>4, <1>5, <1>6, <1>7, <1>9, <2>1, <2>3, <3>2, Zenon DEF Sound, Fields
    <3> QED
      BY <1>1, <2>1, <2>3, <3>3, QuietMoves, Zenon
  <2> QED
    BY <2>1, <2>2, <2>3, Zenon
<1>16. CASE FillReadLive
  <2>1. p = "readLive" /\ UNCHANGED <<daemon, rows, cursor>>
    BY <1>16, FillReadLiveEffect, Zenon
  <2>2. PICK m : /\ Moves("fill", "markLive", m)
                 /\ Fields(m, cursor, l.height, l.hash, l.goal, l.batch, l.stored, l.probe)
    BY <1>16, FillReadLiveEffect, Zenon
  <2>3. cursor # NoCursor
    <3>1. p # "reconcile"
      BY <1>6, <2>1, Zenon
    <3> QED
      BY <1>4, <2>1, <3>1, Zenon DEF Place
  <2>4. Sound(daemon, rows, cursor, "markLive", m)
    BY <1>3, <1>4, <1>5, <1>7, <1>9, <2>1, <2>2, <2>3, Zenon DEF Sound, Fields
  <2> QED
    BY <1>1, <2>1, <2>2, <2>4, QuietMoves, Zenon
<1>17. CASE FillMarkLive
  <2>1. /\ p = "markLive" /\ Moves("fill", "idle", Idle) /\ UNCHANGED <<daemon, rows>>
        /\ cursor' = Cursor(IF l.seen = NoCursor THEN 0 ELSE l.seen.height, l.seen.hash, "live")
    BY <1>17, FillMarkLiveEffect, Zenon
  <2>2. l.seen # NoCursor
    BY <1>3, <2>1, Zenon DEF Sound
  <2>3. cursor' = Cursor(l.seen.height, l.seen.hash, "live")
    BY <2>1, <2>2, Zenon
  <2>4. /\ l.seen.height \in Heights /\ rows[l.seen.height] = l.seen.hash /\ l.seen.hash # NoHash
    BY <1>4, <2>2, Zenon DEF Names
  <2>5. cursor'.height = l.seen.height /\ cursor'.hash = l.seen.hash
    BY <2>3 DEF Cursor
  <2>6. cursor' # NoCursor
    <3>1. NoCursor.hash = NoHash
      BY CursorParts, Zenon
    <3> QED
      BY <2>4, <2>5, <3>1, Zenon
  <2>7. Names(rows', cursor') /\ RowsOnDaemon(daemon', rows')
    BY <1>3, <2>1, <2>4, <2>5, Zenon DEF Names
  <2>8. Grow(daemon, rows, cursor, daemon', rows', cursor')
    <3>1. Grow(daemon, rows, cursor, daemon, rows, cursor)
      BY SameGrow
    <3> QED
      BY <2>1, <2>6, <3>1, Zenon DEF Grow
  <2> QED
    BY <1>1, <2>1, <2>7, <2>8, IdleSound, StraightMoves, Zenon
<1> QED
  BY <1>11, <1>12, <1>13, <1>14, <1>15, <1>16, <1>17, Zenon DEF Backfiller

LEMMA DaemonStraight ==
  ASSUME SharedTypes, JobTypes, SharedTypes', Straight, DaemonExtends
  PROVE  Straight'
<1>1. daemon \in Hash /\ daemon' \in Hash
  BY Zenon DEF SharedTypes
<1>2. Height(daemon) < MaxHeight /\ daemon' = Append(daemon, 0) /\ UNCHANGED <<rows, cursor, pc, at>>
  BY Zenon DEF DaemonExtends, tables
<1>3. Height(daemon') = Height(daemon) + 1 /\ \A h \in 0 .. Height(daemon) : OnChain(daemon', h) = OnChain(daemon, h)
  BY <1>1, <1>2, Extended, Zenon
<1>4. Height(daemon) <= Height(daemon')
  <2>1. Height(daemon) \in Nat
    BY <1>1, HashIsSeq, HeightsAreHeights, Zenon
  <2> QED
    BY <1>3, <2>1
<1>5. Grow(daemon, rows, cursor, daemon', rows', cursor')
  BY <1>2, <1>3, <1>4, Zenon DEF Grow
<1>6. RowsOnDaemon(daemon', rows')
  <2>1. \A h \in Heights : h \in Nat
    BY DEF Heights
  <2>2. \A h \in Heights : rows[h] # NoHash => OnDaemon(daemon', h, rows[h])
    BY <1>1, <1>5, <2>1, KeptOn, Zenon DEF Straight, RowsOnDaemon
  <2> QED
    BY <1>2, <2>2, Zenon DEF Straight, RowsOnDaemon
<1>7. \A j \in Jobs : Sound(daemon', rows', cursor', pc'[j], at'[j])
  <2>1. \A j \in Jobs : at[j] \in Local
    BY Zenon DEF JobTypes
  <2>2. \A j \in Jobs : Sound(daemon', rows', cursor', pc[j], at[j])
    BY <1>1, <1>5, <2>1, KeptSound, Zenon DEF Straight
  <2> QED
    BY <1>2, <2>2, Zenon
<1> QED
  BY <1>2, <1>6, <1>7, Zenon DEF Straight

LEMMA FaultStraight ==
  ASSUME SharedTypes, JobTypes, SharedTypes', Straight, Crash \/ \E j \in Jobs : Throws(j)
  PROVE  Straight'
<1>1. UNCHANGED <<daemon, rows, cursor>>
  BY Zenon DEF Crash, Throws, tables
<1>2. CASE Crash
  <2>1. \A j \in Jobs : pc'[j] = "idle" /\ at'[j] = Idle
    BY <1>2, Zenon DEF Crash
  <2> QED
    BY <1>1, <2>1, IdleSound, Zenon DEF Straight
<1>3. CASE \E j \in Jobs : Throws(j)
  <2>1. PICK j \in Jobs : Throws(j)
    BY <1>3
  <2>2. Moves(j, "idle", Idle)
    BY <2>1, FinishMoves, Zenon DEF Throws
  <2> QED
    BY <1>1, <2>2, IdleSound, QuietMoves, Zenon
<1> QED
  BY <1>2, <1>3, Zenon

LEMMA WorkCounts ==
  ASSUME Work
  PROVE  reorgs' = reorgs /\ faults' = faults
<1>1. ASSUME NEW j \in Jobs, Apply(j) \/ HandleReorg(j) PROVE reorgs' = reorgs /\ faults' = faults
  BY <1>1, Zenon DEF Apply, WriteRest, WriteBlocks, ReadStatus, Advance, HandleReorg, Handle, Probe, Stored,
     GiveUp, DeleteBlocks, DeleteRest, MoveCursor, counters
<1>2. ASSUME TipFollower PROVE reorgs' = reorgs /\ faults' = faults
  BY <1>2, Zenon DEF TipFollower, TipStart, TipGetTip, TipRewind, TipFetch, TipCheck, counters
<1>3. ASSUME SafetySweep PROVE reorgs' = reorgs /\ faults' = faults
  BY <1>3, Zenon DEF SafetySweep, SweepStart, SweepQuery, SweepCompare, counters
<1>4. ASSUME Backfiller PROVE reorgs' = reorgs /\ faults' = faults
  BY <1>4, Zenon DEF Backfiller, FillStart, FillMaxRow, FillReconcile, FillGetTarget, FillNext, FillReadLive,
     FillMarkLive, counters
<1> QED
  BY <1>1, <1>2, <1>3, <1>4, Zenon DEF Work

LEMMA StepStraight ==
  ASSUME SharedTypes, JobTypes, Shape, SharedTypes', reorgs = 0 => Straight, [Next]_vars
  PROVE  reorgs' = 0 => Straight'
<1>1. CASE UNCHANGED vars
  BY <1>1, Zenon DEF vars, Straight
<1>2. CASE DaemonReorgs
  <2>1. reorgs \in 0 .. MaxReorgs /\ reorgs' = reorgs + 1
    BY <1>2, Zenon DEF DaemonReorgs, SharedTypes
  <2> QED
    BY <2>1
<1>3. CASE Work
  <2>1. reorgs' = reorgs
    BY <1>3, WorkCounts, Zenon
  <2> QED
    BY <1>3, <2>1, ApplyStraight, HandleStraight, TipStraight, SweepStraight, FillStraight, Zenon DEF Work
<1>4. CASE DaemonExtends
  BY <1>4, DaemonStraight, Zenon DEF DaemonExtends, counters
<1>5. CASE Crash \/ \E j \in Jobs : Throws(j)
  BY <1>5, FaultStraight, Zenon DEF Crash, Throws
<1> QED
  BY <1>1, <1>2, <1>3, <1>4, <1>5, Zenon DEF Next

LEMMA InitStraight ==
  ASSUME Init
  PROVE  Straight
<1>1. \A j \in Jobs : Sound(daemon, rows, cursor, pc[j], at[j])
  <2>1. \A j \in Jobs : pc[j] = "idle" /\ at[j] = Idle
    BY Zenon DEF Init
  <2> QED
    BY <2>1, IdleSound, Zenon
<1>2. CASE Fresh
  <2>1. rows = [h \in Heights |-> NoHash] /\ cursor = NoCursor
    BY <1>2, Zenon DEF Init
  <2> QED
    BY <1>1, <2>1, Zenon DEF Straight, RowsOnDaemon, Names
<1>3. CASE ~Fresh
  <2>1. /\ rows = [h \in Heights |-> IF h <= InitialTip THEN OnChain(daemon, h) ELSE NoHash]
        /\ cursor = Cursor(InitialTip, daemon, "live")
    BY <1>3, Zenon DEF Init
  <2>2. daemon \in Hash /\ Height(daemon) = InitialTip
    <3>1. daemon \in Hash
      BY InitTyped, Zenon DEF SharedTypes
    <3>2. daemon = [i \in 1 .. InitialTip + 1 |-> 0]
      BY Zenon DEF Init
    <3>3. Len(daemon) = InitialTip + 1
      BY <3>2
    <3> QED
      BY <3>1, <3>3 DEF Height
  <2>3. \A h \in Heights : h <= InitialTip => h \in 0 .. Height(daemon)
    BY <2>2 DEF Heights
  <2>4. \A h \in Heights : /\ h <= InitialTip => rows[h] = OnChain(daemon, h)
                           /\ ~(h <= InitialTip) => rows[h] = NoHash
    BY <2>1, Zenon
  <2>5. \A h \in Heights : h <= InitialTip => rows[h] # NoHash
    <3>1. \A h \in 0 .. Height(daemon) : OnChain(daemon, h) # NoHash
      BY <2>2, OnChainIsHash, Zenon
    <3> QED
      BY <2>3, <2>4, <3>1, Zenon
  <2>6. \A h \in Heights : h > 0 /\ h <= InitialTip => h - 1 \in Heights /\ h - 1 <= InitialTip
    BY DEF Heights
  <2>7. RowsOnDaemon(daemon, rows)
    BY <2>2, <2>4, <2>5, <2>6, Zenon DEF RowsOnDaemon, OnDaemon
  <2>8. cursor.height = InitialTip /\ cursor.hash = daemon
    BY <2>1 DEF Cursor
  <2>9. InitialTip \in Heights /\ InitialTip <= InitialTip
    BY DEF Heights
  <2>10. rows[InitialTip] = daemon /\ daemon # NoHash
    BY <2>2, <2>4, <2>9, OnChainSelf, HashIsSeq, Zenon
  <2>11. Names(rows, cursor)
    BY <2>8, <2>9, <2>10, Zenon DEF Names
  <2> QED
    BY <1>1, <2>7, <2>11, Zenon DEF Straight
<1> QED
  BY <1>2, <1>3, Zenon

-----------------------------------------------------------------------------
(* What holds at every await.                                              *)

LEMMA Inductive == Safety => [](SharedTypes /\ JobTypes /\ Shape /\ (reorgs = 0 => Straight))
<1>1. Init => SharedTypes /\ JobTypes /\ Shape /\ (reorgs = 0 => Straight)
  BY InitTyped, InitStraight
<1>2. SharedTypes /\ JobTypes /\ Shape /\ (reorgs = 0 => Straight) /\ [Next]_vars
        => (SharedTypes /\ JobTypes /\ Shape /\ (reorgs = 0 => Straight))'
  BY StepTyped, StepStraight
<1> QED
  BY <1>1, <1>2, PTL DEF Safety

(* Whatever the three jobs, the daemon and the failures do, every variable *)
(* keeps its type: heights stay within the daemon's, batches hold hashes,  *)
(* and no await finds a job without the locals it is about to use.         *)
THEOREM SyncTypes == Safety => []TypeOK
<1>1. SharedTypes /\ JobTypes => TypeOK
  BY Typed
<1> QED
  BY <1>1, Inductive, PTL

(* CursorWithinData: as long as the daemon has not reorganised, the cursor *)
(* in Redis never points above the rows of `blocks`, with the backfiller,  *)
(* TipFollower and the sweep interleaving at every await, and through any  *)
(* number of crashes and ticks cut short.                                  *)
THEOREM CursorNeverAhead == Safety => []CursorWithinData
<1>1. ASSUME SharedTypes, JobTypes, reorgs = 0 => Straight PROVE CursorWithinData
  <2>1. rows \in [Heights -> Hash \cup {NoHash}] /\ cursor \in Cursors
    BY <1>1, Zenon DEF SharedTypes
  <2>2. MaxRow \in -1 .. MaxHeight /\ \A h \in Heights : rows[h] # NoHash => MaxRow # -1 /\ h <= MaxRow
    BY <2>1, MaxRowIs, Zenon
  <2>3. ASSUME reorgs = 0 PROVE cursor.height <= MaxRow
    <3>1. Names(rows, cursor)
      BY <1>1, <2>3, Zenon DEF Straight
    <3>2. CASE cursor = NoCursor
      <4>1. cursor.height = -1
        BY <3>2, CursorParts, Zenon
      <4> QED
        BY <2>2, <4>1
    <3>3. CASE cursor # NoCursor
      BY <2>2, <3>1, <3>3, Zenon DEF Names
    <3> QED
      BY <3>2, <3>3, Zenon
  <2> QED
    BY <2>3 DEF CursorWithinData
<1> QED
  BY <1>1, Inductive, PTL

(* RowsLinked until the daemon reorganises: no interleaving of the three   *)
(* jobs leaves two neighbouring rows that are not parent and child, though *)
(* only one of them compares a block with its predecessor.                 *)
THEOREM LinkedUntilReorg == Safety => [](reorgs = 0 => RowsLinked)
<1>1. ASSUME SharedTypes, reorgs = 0 => Straight PROVE reorgs = 0 => RowsLinked
  <2>1. daemon \in Hash /\ Height(daemon) \in Nat
    BY <1>1, HashIsSeq, HeightsAreHeights, Zenon DEF SharedTypes
  <2>2. ASSUME reorgs = 0, NEW h \in Heights \ {0}, rows[h] # NoHash, rows[h - 1] # NoHash
        PROVE  Parent(rows[h]) = rows[h - 1]
    <3>1. h - 1 \in Heights /\ h - 1 \in Nat /\ (h - 1) + 1 = h /\ h \in Heights
      BY <2>2 DEF Heights
    <3>2. OnDaemon(daemon, h, rows[h]) /\ OnDaemon(daemon, h - 1, rows[h - 1])
      BY <1>1, <2>2, <3>1, Zenon DEF Straight, RowsOnDaemon
    <3>3. rows[h] = OnChain(daemon, h) /\ rows[h - 1] = OnChain(daemon, h - 1) /\ h <= Height(daemon)
      BY <3>2, Zenon DEF OnDaemon
    <3>4. Parent(OnChain(daemon, (h - 1) + 1)) = OnChain(daemon, h - 1)
      BY <2>1, <3>1, <3>3, NextOnChain
    <3> QED
      BY <3>1, <3>3, <3>4, Zenon
  <2> QED
    BY <2>2, Zenon DEF RowsLinked
<1> QED
  BY <1>1, Inductive, PTL

-----------------------------------------------------------------------------
(* TipFollower and the backfiller take turns.                              *)

LEMMA TwoJobs ==
  ASSUME Exclusive, NEW j \in Jobs, NEW k \in Jobs
  PROVE  /\ j # "sweep" /\ j \in {"tip", "fill"}
         /\ j # k => Own(j) # Own(k) /\ ~Fresh
  BY Zenon DEF Exclusive, Own

(* The status of the cursor keeps the other job out. *)
LEMMA TurnsAlone ==
  ASSUME Exclusive, TakesTurns
  PROVE  Alone
<1>1. ASSUME NEW j \in Jobs, NEW k \in Jobs, pc[j] # "idle", pc[k] # "idle", j # k
      PROVE  FALSE
  <2>1. Own(j) # Own(k) /\ ~Fresh
    BY <1>1, TwoJobs, Zenon
  <2> QED
    BY <1>1, <2>1, Zenon DEF TakesTurns, Turn
<1> QED
  BY <1>1, Zenon DEF Alone

LEMMA TurnMoves ==
  ASSUME Exclusive, JobTypes, TakesTurns, NEW j \in Jobs, NEW s, NEW m, Moves(j, s, m),
         ~Fresh => /\ cursor' = cursor \/ pc[j] # "idle"
                   /\ cursor'.height >= 0 /\ Turn(j, s, m, cursor')
  PROVE  TakesTurns'
<1>1. /\ pc'[j] = s /\ at'[j] = m
      /\ \A k \in Jobs \ {j} : pc'[k] = pc[k] /\ at'[k] = at[k]
  BY MoveEffect, Zenon
<1>2. ASSUME ~Fresh, NEW k \in Jobs PROVE Turn(k, pc'[k], at'[k], cursor')
  <2>1. CASE k = j
    BY <1>1, <1>2, <2>1, Zenon
  <2>2. CASE k # j /\ cursor' = cursor
    BY <1>1, <1>2, <2>2, Zenon DEF TakesTurns
  <2>3. CASE k # j /\ pc[j] # "idle"
    <3>1. pc[k] = "idle"
      BY <2>3, TurnsAlone, Zenon DEF Alone
    <3> QED
      BY <1>1, <2>3, <3>1, Zenon DEF Turn
  <2> QED
    BY <1>2, <2>1, <2>2, <2>3, Zenon
<1> QED
  BY <1>2, Zenon DEF TakesTurns

LEMMA TurnIdle == \A j, l, c : Turn(j, "idle", l, c)
  BY DEF Turn

(* A step that leaves the cursor alone, and the cursor it last read. *)
LEMMA TurnStays ==
  ASSUME TakesTurns, NEW j \in Jobs, pc[j] # "idle", NEW s, s # "reconcile", s # "advance",
         NEW m, m.seen = at[j].seen, ~Fresh
  PROVE  cursor.height >= 0 /\ Turn(j, s, m, cursor)
  BY Zenon DEF TakesTurns, Turn

LEMMA ApplyTurn ==
  ASSUME Exclusive, SharedTypes, JobTypes, Shape, TakesTurns, NEW j \in Jobs, Apply(j)
  PROVE  TakesTurns'
<1> DEFINE l == at[j]
           b == Head(l.batch)
<1>1. l \in Local /\ b \in Hash /\ pc[j] \in ApplySteps
  BY ApplyEffect, Zenon
<1>2. pc[j] # "idle"
  BY <1>1 DEF ApplySteps
<1>3. ~Fresh => cursor.height >= 0 /\ Turn(j, pc[j], l, cursor)
  BY Zenon DEF TakesTurns
<1>4. CASE pc[j] = "writeRest" /\ Moves(j, "writeBlocks", l) /\ UNCHANGED <<rows, cursor>>
  <2>1. "writeBlocks" # "reconcile" /\ "writeBlocks" # "advance"
    OBVIOUS
  <2> QED
    BY <1>2, <1>4, <2>1, TurnStays, TurnMoves, Zenon
<1>5. CASE pc[j] = "writeBlocks" /\ Moves(j, "readStatus", l) /\ UNCHANGED <<extras, cursor>>
  <2>1. "readStatus" # "reconcile" /\ "readStatus" # "advance"
    OBVIOUS
  <2> QED
    BY <1>2, <1>5, <2>1, TurnStays, TurnMoves, Zenon
<1>6. CASE /\ pc[j] = "readStatus" /\ UNCHANGED <<rows, extras, cursor>>
           /\ \E m : /\ Moves(j, "advance", m)
                     /\ Fields(m, cursor, l.height, l.hash, l.goal, l.batch, l.stored, l.probe)
  <2>1. PICK m : /\ Moves(j, "advance", m)
                 /\ Fields(m, cursor, l.height, l.hash, l.goal, l.batch, l.stored, l.probe)
    BY <1>6, Zenon
  <2>2. m.seen = cursor /\ cursor' = cursor /\ "advance" # "reconcile"
    BY <1>6, <2>1, Zenon DEF Fields
  <2>3. ~Fresh => Turn(j, "advance", m, cursor)
    BY <1>2, <1>3, <2>2, Zenon DEF Turn
  <2> QED
    BY <1>3, <2>1, <2>2, <2>3, TurnMoves, Zenon
<1>7. CASE /\ pc[j] = "advance" /\ UNCHANGED <<rows, extras>>
           /\ cursor' = Cursor(Height(b), b, l.seen.status)
           /\ \E m : /\ Moves(j, ApplyTo(j), m)
                     /\ Fields(m, l.seen, Height(b), b, l.goal, Tail(l.batch), l.stored, l.probe)
  <2>1. PICK m : /\ Moves(j, ApplyTo(j), m)
                 /\ Fields(m, l.seen, Height(b), b, l.goal, Tail(l.batch), l.stored, l.probe)
    BY <1>7, Zenon
  <2>2. ApplyTo(j) # "advance" /\ ApplyTo(j) # "reconcile"
    BY DEF ApplyTo
  <2>3. cursor'.height = Height(b) /\ cursor'.status = l.seen.status
    BY <1>7 DEF Cursor
  <2>4. Height(b) >= 0
    <3>1. Height(b) \in Nat
      BY <1>1, HashIsSeq, HeightsAreHeights, Zenon
    <3> QED
      BY <3>1
  <2>5. m.seen = l.seen
    BY <2>1, Zenon DEF Fields
  <2>6. ~Fresh => cursor'.height >= 0 /\ Turn(j, ApplyTo(j), m, cursor')
    BY <1>2, <1>3, <1>7, <2>2, <2>3, <2>4, <2>5, Zenon DEF Turn
  <2> QED
    BY <1>2, <2>1, <2>6, TurnMoves, Zenon
<1> QED
  BY <1>4, <1>5, <1>6, <1>7, ApplyEffect, Zenon

LEMMA HandleTurn ==
  ASSUME Exclusive, SharedTypes, JobTypes, Shape, TakesTurns, NEW j \in Jobs, HandleReorg(j)
  PROVE  TakesTurns'
<1> DEFINE l == at[j]
<1>1. pc[j] \in HandleSteps
  BY DEF HandleReorg, Handle, Probe, Stored, GiveUp, DeleteBlocks, DeleteRest, MoveCursor, At, HandleSteps
<1>2. pc[j] # "idle"
  BY <1>1 DEF HandleSteps
<1>3. ~Fresh => cursor.height >= 0 /\ Turn(j, pc[j], l, cursor)
  BY Zenon DEF TakesTurns
<1>4. \A s \in {"probe", "stored", "giveUp", "deleteBlocks", "deleteRest", "moveCursor", "check"} :
        s # "advance" /\ s # "reconcile"
  OBVIOUS
<1>5. CASE Handle(j)
  <2>1. /\ cursor' = cursor
        /\ \/ Moves(j, "idle", Idle)
           \/ \E m : /\ Moves(j, "probe", m)
                     /\ Fields(m, cursor, l.height, l.hash, l.goal, << >>, l.stored, cursor.height)
    BY <1>5, HandleEffect, Zenon
  <2>2. ASSUME NEW m, Moves(j, "probe", m), Fields(m, cursor, l.height, l.hash, l.goal, << >>, l.stored, cursor.height)
        PROVE  TakesTurns'
    <3>1. ~Fresh => Turn(j, "probe", m, cursor)
      BY <1>2, <1>3, <1>4, <2>2, Zenon DEF Turn, Fields
    <3> QED
      BY <1>3, <2>1, <2>2, <3>1, TurnMoves, Zenon
  <2>3. ASSUME Moves(j, "idle", Idle) PROVE TakesTurns'
    BY <1>3, <2>1, <2>3, TurnIdle, TurnMoves, Zenon
  <2> QED
    BY <2>1, <2>2, <2>3, Zenon
<1>6. CASE Probe(j)
  <2>1. /\ cursor' = cursor
        /\ \/ Moves(j, "giveUp", l)
           \/ Moves(j, "idle", Idle)
           \/ \E m : /\ Moves(j, "stored", m)
                     /\ Fields(m, l.seen, l.probe, OnChain(daemon, l.probe), l.goal, l.batch, l.stored, l.probe)
    BY <1>6, ProbeEffect, Zenon
  <2>2. ASSUME NEW m, Moves(j, "stored", m),
               Fields(m, l.seen, l.probe, OnChain(daemon, l.probe), l.goal, l.batch, l.stored, l.probe)
        PROVE  TakesTurns'
    <3>1. ~Fresh => Turn(j, "stored", m, cursor)
      BY <1>2, <1>3, <1>4, <2>2, Zenon DEF Turn, Fields
    <3> QED
      BY <1>3, <2>1, <2>2, <3>1, TurnMoves, Zenon
  <2>3. ASSUME Moves(j, "idle", Idle) PROVE TakesTurns'
    BY <1>3, <2>1, <2>3, TurnIdle, TurnMoves, Zenon
  <2>4. ASSUME Moves(j, "giveUp", l) PROVE TakesTurns'
    <3>1. ~Fresh => Turn(j, "giveUp", l, cursor)
      BY <1>2, <1>3, <1>4, Zenon DEF Turn
    <3> QED
      BY <1>3, <2>1, <2>4, <3>1, TurnMoves, Zenon
  <2> QED
    BY <2>1, <2>2, <2>3, <2>4, Zenon
<1>7. CASE Stored(j)
  <2>1. /\ cursor' = cursor
        /\ \/ Moves(j, "deleteBlocks", l)
           \/ \E m : /\ Moves(j, "probe", m)
                     /\ Fields(m, l.seen, l.height, l.hash, l.goal, l.batch, l.stored, l.probe - 1)
    BY <1>7, StoredEffect, Zenon
  <2>2. ASSUME NEW m, Moves(j, "probe", m), Fields(m, l.seen, l.height, l.hash, l.goal, l.batch, l.stored, l.probe - 1)
        PROVE  TakesTurns'
    <3>1. ~Fresh => Turn(j, "probe", m, cursor)
      BY <1>2, <1>3, <1>4, <2>2, Zenon DEF Turn, Fields
    <3> QED
      BY <1>3, <2>1, <2>2, <3>1, TurnMoves, Zenon
  <2>3. ASSUME Moves(j, "deleteBlocks", l) PROVE TakesTurns'
    <3>1. ~Fresh => Turn(j, "deleteBlocks", l, cursor)
      BY <1>2, <1>3, <1>4, Zenon DEF Turn
    <3> QED
      BY <1>3, <2>1, <2>3, <3>1, TurnMoves, Zenon
  <2> QED
    BY <2>1, <2>2, <2>3, Zenon
<1>8. CASE GiveUp(j) \/ DeleteBlocks(j) \/ DeleteRest(j) \/ MoveCursor(j)
  <2>1. \/ /\ Moves(j, "idle", Idle) /\ cursor' = [l.seen EXCEPT !.status = "reorg"]
        \/ /\ Moves(j, "deleteRest", l) /\ UNCHANGED <<extras, cursor>>
        \/ /\ Moves(j, "moveCursor", l) /\ UNCHANGED <<rows, cursor>>
        \/ /\ l.height >= 0 /\ cursor' = Cursor(l.height, l.hash, "live")
           /\ IF j = "tip" THEN Moves(j, "check", l) ELSE Moves(j, "idle", Idle)
    BY <1>8, RollbackEffect, Zenon
  <2>2. CASE Moves(j, "idle", Idle) /\ cursor' = [l.seen EXCEPT !.status = "reorg"]
    <3>1. l.seen \in Cursors /\ "reorg" \in Status
      BY LocalTypes DEF Status, JobTypes
    <3>2. cursor'.height = l.seen.height
      BY <2>2, <3>1, CursorMarked, Zenon
    <3>3. ~Fresh => l.seen.height >= 0
      BY <1>2, <1>3, Zenon DEF Turn
    <3> QED
      BY <1>2, <2>2, <3>2, <3>3, TurnIdle, TurnMoves, Zenon
  <2>3. CASE Moves(j, "deleteRest", l) /\ UNCHANGED <<extras, cursor>>
    <3>1. ~Fresh => Turn(j, "deleteRest", l, cursor)
      BY <1>2, <1>3, <1>4, Zenon DEF Turn
    <3> QED
      BY <1>3, <2>3, <3>1, TurnMoves, Zenon
  <2>4. CASE Moves(j, "moveCursor", l) /\ UNCHANGED <<rows, cursor>>
    <3>1. ~Fresh => Turn(j, "moveCursor", l, cursor)
      BY <1>2, <1>3, <1>4, Zenon DEF Turn
    <3> QED
      BY <1>3, <2>4, <3>1, TurnMoves, Zenon
  <2>5. CASE /\ l.height >= 0 /\ cursor' = Cursor(l.height, l.hash, "live")
             /\ IF j = "tip" THEN Moves(j, "check", l) ELSE Moves(j, "idle", Idle)
    <3>1. cursor'.height = l.height /\ cursor'.status = "live"
      BY <2>5 DEF Cursor
    <3>2. CASE j = "tip"
      <4>1. ~Fresh => Turn(j, "check", l, cursor')
        BY <1>2, <1>3, <1>4, <3>1, <3>2, Zenon DEF Turn, Own
      <4> QED
        BY <1>2, <2>5, <3>1, <3>2, <4>1, TurnMoves, Zenon
    <3>3. CASE j # "tip"
      BY <1>2, <2>5, <3>1, <3>3, TurnIdle, TurnMoves, Zenon
    <3> QED
      BY <3>2, <3>3, Zenon
  <2> QED
    BY <2>1, <2>2, <2>3, <2>4, <2>5, Zenon
<1> QED
  BY <1>5, <1>6, <1>7, <1>8, Zenon DEF HandleReorg

LEMMA TipTurn ==
  ASSUME Exclusive, SharedTypes, JobTypes, Shape, TakesTurns, TipFollower
  PROVE  TakesTurns'
<1> DEFINE l == at["tip"]
<1>1. "tip" \in Jobs
  BY Zenon DEF TipFollower, TipStart, TipGetTip, TipRewind, TipFetch, TipCheck, At
<1>2. ~Fresh => cursor.height >= 0 /\ Turn("tip", pc["tip"], l, cursor)
  BY <1>1, Zenon DEF TakesTurns
<1>3. \A s \in {"getTip", "rewind", "fetch", "check", "handle", "writeRest"} :
        s # "advance" /\ s # "reconcile" /\ s # "idle"
  OBVIOUS
<1>4. CASE TipStart
  <2>1. PICK m : /\ Moves("tip", "getTip", m)
                 /\ Fields(m, cursor, cursor.height, cursor.hash, 0, << >>, {}, 0)
    BY <1>4, TipStartEffect, Zenon
  <2>2. cursor' = cursor /\ (cursor = NoCursor \/ cursor.status = "live")
    BY <1>4, TipStartEffect, Zenon
  <2>3. ~(NoCursor.height >= 0)
    BY CursorParts
  <2>4. ~Fresh => cursor.status = Own("tip")
    BY <1>2, <2>2, <2>3, Zenon DEF Own
  <2>5. ~Fresh => Turn("tip", "getTip", m, cursor)
    BY <1>2, <1>3, <2>1, <2>4, Zenon DEF Turn, Fields
  <2> QED
    BY <1>1, <1>2, <2>1, <2>2, <2>5, TurnMoves, Zenon
<1>5. CASE TipGetTip
  <2>1. /\ pc["tip"] = "getTip" /\ cursor' = cursor
        /\ \/ Moves("tip", "idle", Idle)
           \/ Moves("tip", "rewind", l)
           \/ \E m : /\ Moves("tip", "fetch", m)
                     /\ Fields(m, l.seen, l.height, l.hash, Height(daemon), l.batch, l.stored, l.probe)
    BY <1>5, TipGetTipEffect, Zenon
  <2>2. ASSUME NEW m, Moves("tip", "fetch", m),
               Fields(m, l.seen, l.height, l.hash, Height(daemon), l.batch, l.stored, l.probe)
        PROVE  TakesTurns'
    <3>1. ~Fresh => Turn("tip", "fetch", m, cursor)
      BY <1>2, <1>3, <2>1, <2>2, Zenon DEF Turn, Fields
    <3> QED
      BY <1>1, <1>2, <2>1, <2>2, <3>1, TurnMoves, Zenon
  <2>3. ASSUME Moves("tip", "idle", Idle) PROVE TakesTurns'
    BY <1>1, <1>2, <2>1, <2>3, TurnIdle, TurnMoves, Zenon
  <2>4. ASSUME Moves("tip", "rewind", l) PROVE TakesTurns'
    <3>1. ~Fresh => Turn("tip", "rewind", l, cursor)
      BY <1>2, <1>3, <2>1, Zenon DEF Turn
    <3> QED
      BY <1>1, <1>2, <2>1, <2>4, <3>1, TurnMoves, Zenon
  <2> QED
    BY <2>1, <2>2, <2>3, <2>4, Zenon
<1>6. CASE TipRewind
  <2>1. /\ pc["tip"] = "rewind" /\ Moves("tip", "idle", Idle)
        /\ cursor' = [l.seen EXCEPT !.status = "backfilling"]
    BY <1>6, TipRewindEffect, Zenon
  <2>2. l.seen \in Cursors /\ "backfilling" \in Status
    BY <1>1, LocalTypes DEF Status, JobTypes
  <2>3. cursor'.height = l.seen.height
    BY <2>1, <2>2, CursorMarked, Zenon
  <2>4. ~Fresh => l.seen.height >= 0
    BY <1>2, <1>3, <2>1, Zenon DEF Turn
  <2> QED
    BY <1>1, <1>3, <2>1, <2>3, <2>4, TurnIdle, TurnMoves, Zenon
<1>7. CASE TipFetch
  <2>1. /\ pc["tip"] = "fetch" /\ cursor' = cursor
        /\ \/ Moves("tip", "idle", Idle)
           \/ \E B, m : /\ Moves("tip", "check", m)
                        /\ Fields(m, l.seen, l.height, l.hash, l.goal, B, l.stored, l.probe)
    BY <1>7, TipFetchEffect, Zenon
  <2>2. ASSUME NEW B, NEW m, Moves("tip", "check", m),
               Fields(m, l.seen, l.height, l.hash, l.goal, B, l.stored, l.probe)
        PROVE  TakesTurns'
    <3>1. ~Fresh => Turn("tip", "check", m, cursor)
      BY <1>2, <1>3, <2>1, <2>2, Zenon DEF Turn, Fields
    <3> QED
      BY <1>1, <1>2, <2>1, <2>2, <3>1, TurnMoves, Zenon
  <2>3. ASSUME Moves("tip", "idle", Idle) PROVE TakesTurns'
    BY <1>1, <1>2, <2>1, <2>3, TurnIdle, TurnMoves, Zenon
  <2> QED
    BY <2>1, <2>2, <2>3, Zenon
<1>8. CASE TipCheck
  <2>1. /\ pc["tip"] = "check" /\ cursor' = cursor
        /\ \/ Moves("tip", "fetch", l)
           \/ Moves("tip", "idle", Idle)
           \/ Moves("tip", "handle", l)
           \/ Moves("tip", "writeRest", l)
    BY <1>8, TipCheckEffect, Zenon
  <2>2. \A s \in {"fetch", "handle", "writeRest"} : ~Fresh => Turn("tip", s, l, cursor)
    BY <1>2, <1>3, <2>1, Zenon DEF Turn
  <2> QED
    BY <1>1, <1>2, <2>1, <2>2, TurnIdle, TurnMoves, Zenon
<1> QED
  BY <1>4, <1>5, <1>6, <1>7, <1>8, Zenon DEF TipFollower

LEMMA FillTurn ==
  ASSUME Exclusive, SharedTypes, JobTypes, Shape, TakesTurns, Backfiller
  PROVE  TakesTurns'
<1> DEFINE l == at["fill"]
<1>1. "fill" \in Jobs
  BY Zenon DEF Backfiller, FillStart, FillMaxRow, FillReconcile, FillGetTarget, FillNext, FillReadLive,
               FillMarkLive, At
<1>2. ~Fresh => cursor.height >= 0 /\ Turn("fill", pc["fill"], l, cursor)
  BY <1>1, Zenon DEF TakesTurns
<1>3. \A s \in {"maxRow", "reconcile", "getTarget", "next", "writeRest", "readLive", "markLive"} :
        s # "advance" /\ s # "idle"
  OBVIOUS
<1>4. \A s \in {"maxRow", "getTarget", "next", "writeRest", "readLive", "markLive"} : s # "reconcile"
  OBVIOUS
<1>5. Own("fill") = "backfilling"
  BY DEF Own
<1>6. CASE FillStart
  <2>1. PICK m : /\ Moves("fill", "maxRow", m)
                 /\ Fields(m, cursor, cursor.height, NoHash, 0, << >>, {}, 0)
    BY <1>6, FillStartEffect, Zenon
  <2>2. cursor' = cursor /\ cursor.status = "backfilling"
    BY <1>6, FillStartEffect, Zenon
  <2>3. ~Fresh => Turn("fill", "maxRow", m, cursor)
    BY <1>2, <1>3, <1>4, <1>5, <2>1, <2>2, Zenon DEF Turn, Fields
  <2> QED
    BY <1>1, <1>2, <2>1, <2>2, <2>3, TurnMoves, Zenon
<1>7. CASE FillMaxRow
  <2>1. /\ pc["fill"] = "maxRow" /\ cursor' = cursor
        /\ \/ Moves("fill", "getTarget", l)
           \/ /\ MaxRow \in Heights
              /\ \E m : /\ Moves("fill", "reconcile", m)
                        /\ Fields(m, l.seen, MaxRow, rows[MaxRow], l.goal, l.batch, l.stored, l.probe)
    BY <1>7, FillMaxRowEffect, Zenon
  <2>2. ASSUME MaxRow \in Heights, NEW m, Moves("fill", "reconcile", m),
               Fields(m, l.seen, MaxRow, rows[MaxRow], l.goal, l.batch, l.stored, l.probe)
        PROVE  TakesTurns'
    <3>1. MaxRow >= 0
      BY <2>2 DEF Heights
    <3>2. ~Fresh => Turn("fill", "reconcile", m, cursor)
      BY <1>2, <1>3, <2>1, <2>2, <3>1, Zenon DEF Turn, Fields
    <3> QED
      BY <1>1, <1>2, <2>1, <2>2, <3>2, TurnMoves, Zenon
  <2>3. ASSUME Moves("fill", "getTarget", l) PROVE TakesTurns'
    <3>1. ~Fresh => Turn("fill", "getTarget", l, cursor)
      BY <1>2, <1>3, <1>4, <2>1, Zenon DEF Turn
    <3> QED
      BY <1>1, <1>2, <2>1, <2>3, <3>1, TurnMoves, Zenon
  <2> QED
    BY <2>1, <2>2, <2>3, Zenon
<1>8. CASE FillReconcile
  <2>1. /\ pc["fill"] = "reconcile" /\ Moves("fill", "getTarget", l)
        /\ cursor' = Cursor(l.height, l.hash, "backfilling")
    BY <1>8, FillReconcileEffect, Zenon
  <2>2. cursor'.height = l.height /\ cursor'.status = "backfilling"
    BY <2>1 DEF Cursor
  <2>3. ~Fresh => l.height >= 0 /\ l.seen.height >= 0
    BY <1>2, <1>3, <2>1, Zenon DEF Turn
  <2>4. ~Fresh => Turn("fill", "getTarget", l, cursor')
    BY <1>3, <1>4, <1>5, <2>2, <2>3, Zenon DEF Turn
  <2> QED
    BY <1>1, <1>3, <2>1, <2>2, <2>3, <2>4, TurnMoves, Zenon
<1>9. CASE FillGetTarget
  <2>1. pc["fill"] = "getTarget" /\ cursor' = cursor
    BY <1>9, FillGetTargetEffect, Zenon
  <2>2. PICK g, m : /\ Moves("fill", "next", m)
                    /\ Fields(m, l.seen, l.height, l.hash, g, l.batch, l.stored, l.probe)
    BY <1>9, FillGetTargetEffect, Zenon
  <2>3. ~Fresh => Turn("fill", "next", m, cursor)
    BY <1>2, <1>3, <1>4, <2>1, <2>2, Zenon DEF Turn, Fields
  <2> QED
    BY <1>1, <1>2, <2>1, <2>2, <2>3, TurnMoves, Zenon
<1>10. CASE FillNext
  <2>1. /\ pc["fill"] = "next" /\ cursor' = cursor
        /\ \/ Moves("fill", "readLive", l)
           \/ \E B, m : /\ Moves("fill", "writeRest", m)
                        /\ Fields(m, l.seen, l.height, l.hash, l.goal, B, l.stored, l.probe)
    BY <1>10, FillNextEffect, Zenon
  <2>2. ASSUME NEW B, NEW m, Moves("fill", "writeRest", m),
               Fields(m, l.seen, l.height, l.hash, l.goal, B, l.stored, l.probe)
        PROVE  TakesTurns'
    <3>1. ~Fresh => Turn("fill", "writeRest", m, cursor)
      BY <1>2, <1>3, <1>4, <2>1, <2>2, Zenon DEF Turn, Fields
    <3> QED
      BY <1>1, <1>2, <2>1, <2>2, <3>1, TurnMoves, Zenon
  <2>3. ASSUME Moves("fill", "readLive", l) PROVE TakesTurns'
    <3>1. ~Fresh => Turn("fill", "readLive", l, cursor)
      BY <1>2, <1>3, <1>4, <2>1, Zenon DEF Turn
    <3> QED
      BY <1>1, <1>2, <2>1, <2>3, <3>1, TurnMoves, Zenon
  <2> QED
    BY <2>1, <2>2, <2>3, Zenon
<1>11. CASE FillReadLive
  <2>1. pc["fill"] = "readLive" /\ cursor' = cursor
    BY <1>11, FillReadLiveEffect, Zenon
  <2>2. PICK m : /\ Moves("fill", "markLive", m)
                 /\ Fields(m, cursor, l.height, l.hash, l.goal, l.batch, l.stored, l.probe)
    BY <1>11, FillReadLiveEffect, Zenon
  <2>3. ~Fresh => Turn("fill", "markLive", m, cursor)
    BY <1>2, <1>3, <1>4, <2>1, <2>2, Zenon DEF Turn, Fields
  <2> QED
    BY <1>1, <1>2, <2>1, <2>2, <2>3, TurnMoves, Zenon
<1>12. CASE FillMarkLive
  <2> DEFINE n == IF l.seen = NoCursor THEN 0 ELSE l.seen.height
  <2>1. /\ pc["fill"] = "markLive" /\ Moves("fill", "idle", Idle)
        /\ cursor' = Cursor(n, l.seen.hash, "live")
    BY <1>12, FillMarkLiveEffect, Zenon
  <2>2. 0 >= 0
    OBVIOUS
  <2>3. ~Fresh => n >= 0
    BY <1>2, <1>3, <2>1, <2>2, Zenon DEF Turn
  <2> HIDE DEF n
  <2>4. cursor'.height = n
    BY <2>1 DEF Cursor
  <2> QED
    BY <1>1, <1>3, <2>1, <2>3, <2>4, TurnIdle, TurnMoves, Zenon
<1> QED
  BY <1>6, <1>7, <1>8, <1>9, <1>10, <1>11, <1>12, Zenon DEF Backfiller

LEMMA StepTurns ==
  ASSUME Exclusive, SharedTypes, JobTypes, Shape, TakesTurns, [Next]_vars
  PROVE  TakesTurns'
<1>1. CASE UNCHANGED vars \/ DaemonExtends \/ DaemonReorgs
  <2>1. UNCHANGED <<cursor, pc, at>>
    BY <1>1, Zenon DEF vars, DaemonExtends, DaemonReorgs
  <2> QED
    BY <2>1, Zenon DEF TakesTurns, Turn
<1>2. CASE Crash
  <2>1. cursor' = cursor /\ \A j \in Jobs : pc'[j] = "idle"
    BY <1>2, Zenon DEF Crash
  <2> QED
    BY <2>1, TurnIdle, Zenon DEF TakesTurns
<1>3. CASE \E j \in Jobs : Throws(j)
  <2>1. PICK j \in Jobs : Throws(j)
    BY <1>3
  <2>2. Moves(j, "idle", Idle) /\ cursor' = cursor
    BY <2>1, FinishMoves, Zenon DEF Throws
  <2>3. ~Fresh => cursor.height >= 0
    BY Zenon DEF TakesTurns
  <2> QED
    BY <2>2, <2>3, TurnIdle, TurnMoves, Zenon
<1>4. ~SafetySweep
  BY Zenon DEF SafetySweep, SweepStart, SweepQuery, SweepCompare, At, Exclusive
<1> QED
  BY <1>1, <1>2, <1>3, <1>4, ApplyTurn, HandleTurn, TipTurn, FillTurn, Zenon DEF Next, Work

LEMMA InitTurns ==
  ASSUME Init
  PROVE  TakesTurns
<1>1. \A j \in Jobs : pc[j] = "idle"
  BY Zenon DEF Init
<1>2. ASSUME ~Fresh PROVE cursor.height >= 0
  <2>1. cursor = Cursor(InitialTip, daemon, "live")
    BY <1>2, Zenon DEF Init
  <2>2. cursor.height = InitialTip
    BY <2>1 DEF Cursor
  <2> QED
    BY <2>2
<1> QED
  BY <1>1, <1>2, TurnIdle, Zenon DEF TakesTurns

-----------------------------------------------------------------------------
(* What vouches for a row.                                                 *)

(* Nobody rolls back, or only the job that acts does anything. *)
NoDelete == \A k \in Jobs : pc[k] # "deleteRest"

LEMMA VouchedQuiet ==
  ASSUME JobTypes, Vouched, NEW j \in Jobs, NEW s, NEW m, Moves(j, s, m), UNCHANGED <<rows, extras>>,
         Voucher(extras, rows, s, m)
  PROVE  Vouched'
<1>1. /\ pc'[j] = s /\ at'[j] = m
      /\ \A k \in Jobs \ {j} : pc'[k] = pc[k] /\ at'[k] = at[k]
  BY MoveEffect, Zenon
<1>2. ASSUME NEW k \in Jobs PROVE Voucher(extras', rows', pc'[k], at'[k])
  <2>1. Voucher(extras, rows, pc[k], at[k])
    BY Zenon DEF Vouched
  <2> QED
    BY <1>1, <2>1, Zenon
<1>3. Watermark' /\ RowsAtHeights'
  BY Zenon DEF Vouched, Watermark, RowsAtHeights
<1> QED
  BY <1>2, <1>3, Zenon DEF Vouched

(* Steps after which no row of the job's own needs a voucher. *)
LEMMA PlainVoucher ==
  ASSUME NEW x, NEW r, NEW s, NEW m, s # "writeBlocks", s # "deleteRest"
  PROVE  Voucher(x, r, s, m)
  BY Zenon DEF Voucher

LEMMA VouchedAlone ==
  ASSUME JobTypes, Vouched, NEW j \in Jobs, NEW s, NEW m, Moves(j, s, m), pc[j] # "idle",
         Alone \/ (NoDelete /\ extras \subseteq extras'),
         Watermark', RowsAtHeights', Voucher(extras', rows', s, m)
  PROVE  Vouched'
<1>1. /\ pc'[j] = s /\ at'[j] = m
      /\ \A k \in Jobs \ {j} : pc'[k] = pc[k] /\ at'[k] = at[k]
  BY MoveEffect, Zenon
<1>2. ASSUME NEW k \in Jobs PROVE Voucher(extras', rows', pc'[k], at'[k])
  <2>1. CASE k = j
    BY <1>1, <2>1, Zenon
  <2>2. CASE k # j /\ Alone
    <3>1. pc[k] = "idle"
      BY <2>2, Zenon DEF Alone
    <3>2. "idle" # "writeBlocks" /\ "idle" # "deleteRest"
      OBVIOUS
    <3> QED
      BY <1>1, <2>2, <3>1, <3>2, PlainVoucher, Zenon
  <2>3. CASE k # j /\ NoDelete /\ extras \subseteq extras'
    <3>1. Voucher(extras, rows, pc[k], at[k]) /\ pc[k] # "deleteRest"
      BY <2>3, Zenon DEF Vouched, NoDelete
    <3>2. pc'[k] = pc[k] /\ at'[k] = at[k]
      BY <1>1, <2>3, Zenon
    <3>3. Voucher(extras', rows', pc[k], at[k])
      BY <2>3, <3>1, Zenon DEF Voucher
    <3> QED
      BY <3>2, <3>3, Zenon
  <2> QED
    BY <2>1, <2>2, <2>3, Zenon
<1> QED
  BY <1>2, Zenon DEF Vouched

LEMMA ApplyVouched ==
  ASSUME SharedTypes, JobTypes, Shape, Vouched, Alone \/ NoDelete, NEW j \in Jobs, Apply(j)
  PROVE  Vouched'
<1> DEFINE l == at[j]
           b == Head(l.batch)
<1>1. l \in Local /\ b \in Hash /\ pc[j] \in ApplySteps
  BY ApplyEffect, Zenon
<1>2. pc[j] # "idle"
  BY <1>1 DEF ApplySteps
<1>3. /\ rows \in [Heights -> Hash \cup {NoHash}]
      /\ Watermark /\ RowsAtHeights /\ Voucher(extras, rows, pc[j], l)
  BY Zenon DEF Vouched, SharedTypes
<1>4. CASE pc[j] = "writeRest" /\ Moves(j, "writeBlocks", l) /\ extras' = extras \cup {b} /\ UNCHANGED <<rows, cursor>>
  <2>1. extras \subseteq extras' /\ b \in extras'
    BY <1>4, Zenon
  <2>2. Watermark' /\ RowsAtHeights'
    BY <1>3, <1>4, <2>1, Zenon DEF Watermark, RowsAtHeights
  <2>3. "writeBlocks" # "deleteRest"
    OBVIOUS
  <2>4. Voucher(extras', rows', "writeBlocks", l)
    BY <2>1, <2>3, Zenon DEF Voucher
  <2> QED
    BY <1>2, <1>4, <2>1, <2>2, <2>4, VouchedAlone, Zenon
<1>5. CASE /\ pc[j] = "writeBlocks" /\ Moves(j, "readStatus", l) /\ UNCHANGED <<extras, cursor>>
           /\ rows' = [rows EXCEPT ![Height(b)] = IF @ = NoHash THEN b ELSE @]
  <2> DEFINE n == Height(b)
  <2>1. n \in Heights
    BY <1>1, HashIsSeq, Zenon
  <2>2. /\ \A h \in Heights : h # n => rows'[h] = rows[h]
        /\ rows'[n] = (IF rows[n] = NoHash THEN b ELSE rows[n])
    <3> HIDE DEF n, l
    <3>1. n = Height(b)
      BY DEF n
    <3> HIDE DEF b
    <3> QED
      BY <1>3, <1>5, <2>1, <3>1
  <2>3. b \in extras
    BY <1>3, <1>5, Zenon DEF Voucher
  <2>4. Watermark'
    BY <1>3, <1>5, <2>2, <2>3, Zenon DEF Watermark
  <2>5. RowsAtHeights'
    BY <1>3, <2>2, Zenon DEF RowsAtHeights
  <2>6. "readStatus" # "writeBlocks" /\ "readStatus" # "deleteRest" /\ extras \subseteq extras'
    BY <1>5
  <2> QED
    BY <1>2, <1>5, <2>4, <2>5, <2>6, PlainVoucher, VouchedAlone, Zenon
<1>6. CASE pc[j] = "readStatus" /\ UNCHANGED <<rows, extras, cursor>> /\ \E m : Moves(j, "advance", m)
  <2>1. "advance" # "writeBlocks" /\ "advance" # "deleteRest"
    OBVIOUS
  <2> QED
    BY <1>6, <2>1, PlainVoucher, VouchedQuiet, Zenon
<1>7. CASE pc[j] = "advance" /\ UNCHANGED <<rows, extras>> /\ \E m : Moves(j, ApplyTo(j), m)
  <2>1. ApplyTo(j) # "writeBlocks" /\ ApplyTo(j) # "deleteRest"
    BY DEF ApplyTo
  <2> QED
    BY <1>7, <2>1, PlainVoucher, VouchedQuiet, Zenon
<1> QED
  BY <1>4, <1>5, <1>6, <1>7, ApplyEffect, Zenon

LEMMA HandleVouched ==
  ASSUME SharedTypes, JobTypes, Shape, Vouched, Alone, NEW j \in Jobs, HandleReorg(j)
  PROVE  Vouched'
<1> DEFINE l == at[j]
<1>1. \A s \in {"idle", "probe", "stored", "giveUp", "deleteBlocks", "moveCursor", "check"} :
        s # "writeBlocks" /\ s # "deleteRest"
  OBVIOUS
<1>2. /\ rows \in [Heights -> Hash \cup {NoHash}] /\ extras \subseteq Hash /\ l.height \in -1 .. MaxHeight
      /\ Watermark /\ RowsAtHeights /\ Voucher(extras, rows, pc[j], l)
  BY LocalTypes, Zenon DEF Vouched, SharedTypes, JobTypes
<1>3. CASE Handle(j)
  BY <1>1, <1>3, HandleEffect, PlainVoucher, VouchedQuiet, Zenon
<1>4. CASE Probe(j)
  BY <1>1, <1>4, ProbeEffect, PlainVoucher, VouchedQuiet, Zenon
<1>5. CASE Stored(j)
  BY <1>1, <1>5, StoredEffect, PlainVoucher, VouchedQuiet, Zenon
<1>6. CASE GiveUp(j) \/ DeleteBlocks(j) \/ DeleteRest(j) \/ MoveCursor(j)
  <2>1. \/ Moves(j, "idle", Idle) /\ UNCHANGED <<rows, extras>>
        \/ /\ pc[j] = "deleteBlocks" /\ Moves(j, "deleteRest", l) /\ UNCHANGED <<extras, cursor>>
           /\ rows' = [h \in Heights |-> IF h > l.height THEN NoHash ELSE rows[h]]
        \/ /\ pc[j] = "deleteRest" /\ Moves(j, "moveCursor", l) /\ UNCHANGED <<rows, cursor>>
           /\ extras' = {b \in extras : Height(b) <= l.height}
        \/ Moves(j, "check", l) /\ UNCHANGED <<rows, extras>>
    BY <1>6, RollbackEffect, Zenon
  <2>2. CASE Moves(j, "idle", Idle) /\ UNCHANGED <<rows, extras>>
    BY <1>1, <2>2, PlainVoucher, VouchedQuiet, Zenon
  <2>3. CASE Moves(j, "check", l) /\ UNCHANGED <<rows, extras>>
    BY <1>1, <2>3, PlainVoucher, VouchedQuiet, Zenon
  <2>4. CASE /\ pc[j] = "deleteBlocks" /\ Moves(j, "deleteRest", l) /\ UNCHANGED <<extras, cursor>>
             /\ rows' = [h \in Heights |-> IF h > l.height THEN NoHash ELSE rows[h]]
    <3>1. \A h \in Heights : /\ h > l.height => rows'[h] = NoHash
                             /\ rows'[h] # NoHash => rows'[h] = rows[h]
      BY <2>4, Zenon
    <3>2. Watermark' /\ RowsAtHeights'
      BY <1>2, <2>4, <3>1, Zenon DEF Watermark, RowsAtHeights
    <3>3. "deleteRest" # "writeBlocks" /\ pc[j] # "idle"
      BY <2>4
    <3>4. Voucher(extras', rows', "deleteRest", l)
      BY <3>1, <3>3, Zenon DEF Voucher
    <3> QED
      BY <2>4, <3>2, <3>3, <3>4, VouchedAlone, Zenon
  <2>5. CASE /\ pc[j] = "deleteRest" /\ Moves(j, "moveCursor", l) /\ UNCHANGED <<rows, cursor>>
             /\ extras' = {b \in extras : Height(b) <= l.height}
    <3>1. \A h \in Heights : h > l.height => rows[h] = NoHash
      BY <1>2, <2>5, Zenon DEF Voucher
    <3>2. \A h \in Heights : ~(h > l.height) => h <= l.height
      BY <1>2 DEF Heights
    <3>3. \A h \in Heights : rows'[h] # NoHash => rows'[h] \in extras'
      BY <1>2, <2>5, <3>1, <3>2, Zenon DEF Watermark, RowsAtHeights
    <3>4. Watermark' /\ RowsAtHeights'
      BY <1>2, <2>5, <3>3, Zenon DEF Watermark, RowsAtHeights
    <3>5. pc[j] # "idle" /\ "moveCursor" # "writeBlocks" /\ "moveCursor" # "deleteRest"
      BY <2>5
    <3> QED
      BY <2>5, <3>4, <3>5, PlainVoucher, VouchedAlone, Zenon
  <2> QED
    BY <2>1, <2>2, <2>3, <2>4, <2>5, Zenon
<1> QED
  BY <1>3, <1>4, <1>5, <1>6, Zenon DEF HandleReorg

LEMMA OthersVouched ==
  ASSUME SharedTypes, JobTypes, Vouched, TipFollower \/ SafetySweep \/ Backfiller
  PROVE  Vouched'
<1>1. \A s \in {"idle", "getTip", "rewind", "fetch", "check", "handle", "writeRest", "query", "compare",
                "maxRow", "reconcile", "getTarget", "next", "readLive", "markLive"} :
        s # "writeBlocks" /\ s # "deleteRest"
  OBVIOUS
<1>2. CASE TipFollower
  <2>1. /\ UNCHANGED <<rows, extras>>
        /\ \E s \in {"idle", "getTip", "rewind", "fetch", "check", "handle", "writeRest"} :
             \E m : "tip" \in Jobs /\ Moves("tip", s, m)
    <3>1. CASE TipStart
      BY <3>1, TipStartEffect, Zenon
    <3>2. CASE TipGetTip
      BY <3>2, TipGetTipEffect, Zenon
    <3>3. CASE TipRewind
      BY <3>3, TipRewindEffect, Zenon
    <3>4. CASE TipFetch
      BY <3>4, TipFetchEffect, Zenon
    <3>5. CASE TipCheck
      BY <3>5, TipCheckEffect, Zenon
    <3> QED
      BY <1>2, <3>1, <3>2, <3>3, <3>4, <3>5, Zenon DEF TipFollower
  <2> QED
    BY <1>1, <2>1, PlainVoucher, VouchedQuiet, Zenon
<1>3. CASE SafetySweep
  <2>1. /\ UNCHANGED <<rows, extras>>
        /\ \E s \in {"idle", "query", "compare", "handle"} : \E m : "sweep" \in Jobs /\ Moves("sweep", s, m)
    <3>1. CASE SweepStart
      BY <3>1, SweepStartEffect, Zenon
    <3>2. CASE SweepQuery
      BY <3>2, SweepQueryEffect, Zenon
    <3>3. CASE SweepCompare
      BY <3>3, SweepCompareEffect, Zenon
    <3> QED
      BY <1>3, <3>1, <3>2, <3>3, Zenon DEF SafetySweep
  <2> QED
    BY <1>1, <2>1, PlainVoucher, VouchedQuiet, Zenon
<1>4. CASE Backfiller
  <2>1. /\ UNCHANGED <<rows, extras>>
        /\ \E s \in {"idle", "maxRow", "reconcile", "getTarget", "next", "writeRest", "readLive", "markLive"} :
             \E m : "fill" \in Jobs /\ Moves("fill", s, m)
    <3>1. CASE FillStart
      BY <3>1, FillStartEffect, Zenon
    <3>2. CASE FillMaxRow
      BY <3>2, FillMaxRowEffect, Zenon
    <3>3. CASE FillReconcile
      BY <3>3, FillReconcileEffect, Zenon
    <3>4. CASE FillGetTarget
      BY <3>4, FillGetTargetEffect, Zenon
    <3>5. CASE FillNext
      BY <3>5, FillNextEffect, Zenon
    <3>6. CASE FillReadLive
      BY <3>6, FillReadLiveEffect, Zenon
    <3>7. CASE FillMarkLive
      BY <3>7, FillMarkLiveEffect, Zenon
    <3> QED
      BY <1>4, <3>1, <3>2, <3>3, <3>4, <3>5, <3>6, <3>7, Zenon DEF Backfiller
  <2> QED
    BY <1>1, <2>1, PlainVoucher, VouchedQuiet, Zenon
<1> QED
  BY <1>2, <1>3, <1>4, Zenon

LEMMA StepVouched ==
  ASSUME SharedTypes, JobTypes, Shape, Exclusive => TakesTurns, reorgs = 0 => Straight,
         Exclusive \/ reorgs = 0 => Vouched, [Next]_vars
  PROVE  Exclusive \/ reorgs' = 0 => Vouched'
<1> SUFFICES ASSUME Exclusive \/ reorgs' = 0 PROVE Vouched'
  OBVIOUS
<1>1. ~Exclusive => reorgs = 0
  <2>1. reorgs' = 0 => reorgs = 0
    <3>1. CASE DaemonReorgs
      <4>1. reorgs \in 0 .. MaxReorgs /\ reorgs' = reorgs + 1
        BY <3>1, Zenon DEF DaemonReorgs, SharedTypes
      <4> QED
        BY <4>1
    <3>2. CASE ~DaemonReorgs
      BY <3>2, WorkCounts, Zenon DEF Next, vars, DaemonExtends, Crash, Throws, counters
    <3> QED
      BY <3>1, <3>2, Zenon
  <2> QED
    BY <2>1, Zenon
<1>2. Vouched
  BY <1>1, Zenon
<1>3. ASSUME ~Alone PROVE reorgs = 0 /\ Straight /\ NoDelete
  <2>1. reorgs = 0 /\ Straight
    BY <1>1, <1>3, TurnsAlone, Zenon
  <2>2. "deleteRest" \in HandleSteps
    BY DEF HandleSteps
  <2> QED
    BY <2>1, <2>2, Zenon DEF NoDelete, Straight, Sound
<1>4. CASE UNCHANGED vars \/ DaemonExtends \/ DaemonReorgs
  <2>1. UNCHANGED <<rows, extras, pc, at>>
    BY <1>4, Zenon DEF vars, DaemonExtends, DaemonReorgs, tables
  <2> QED
    BY <1>2, <2>1, Zenon DEF Vouched, Watermark, RowsAtHeights, Voucher
<1>5. CASE Crash
  <2>1. UNCHANGED <<rows, extras>> /\ \A j \in Jobs : pc'[j] = "idle"
    BY <1>5, Zenon DEF Crash, tables
  <2>2. "idle" # "writeBlocks" /\ "idle" # "deleteRest"
    OBVIOUS
  <2> QED
    BY <1>2, <2>1, <2>2, PlainVoucher, Zenon DEF Vouched, Watermark, RowsAtHeights
<1>6. CASE \E j \in Jobs : Throws(j)
  <2>1. PICK j \in Jobs : Throws(j)
    BY <1>6
  <2>2. Moves(j, "idle", Idle) /\ UNCHANGED <<rows, extras>>
    BY <2>1, FinishMoves, Zenon DEF Throws, tables
  <2>3. "idle" # "writeBlocks" /\ "idle" # "deleteRest"
    OBVIOUS
  <2> QED
    BY <1>2, <2>2, <2>3, PlainVoucher, VouchedQuiet, Zenon
<1>7. CASE Work
  <2>1. ASSUME NEW j \in Jobs, HandleReorg(j) PROVE Alone
    BY <1>3, <2>1, HandleStraight, Zenon
  <2> QED
    BY <1>2, <1>3, <1>7, <2>1, ApplyVouched, HandleVouched, OthersVouched, Zenon DEF Work
<1> QED
  BY <1>4, <1>5, <1>6, <1>7, Zenon DEF Next

LEMMA InitVouched ==
  ASSUME Init
  PROVE  Vouched
<1>1. \A j \in Jobs : Voucher(extras, rows, pc[j], at[j])
  <2>1. \A j \in Jobs : pc[j] = "idle"
    BY Zenon DEF Init
  <2>2. "idle" # "writeBlocks" /\ "idle" # "deleteRest"
    OBVIOUS
  <2> QED
    BY <2>1, <2>2, PlainVoucher, Zenon
<1>2. CASE Fresh
  <2>1. rows = [h \in Heights |-> NoHash]
    BY <1>2, Zenon DEF Init
  <2> QED
    BY <1>1, <2>1, Zenon DEF Vouched, Watermark, RowsAtHeights
<1>3. CASE ~Fresh
  <2>1. /\ rows = [h \in Heights |-> IF h <= InitialTip THEN OnChain(daemon, h) ELSE NoHash]
        /\ extras = {OnChain(daemon, h) : h \in 0 .. InitialTip}
    BY <1>3, Zenon DEF Init
  <2>2. RowsOnDaemon(daemon, rows) /\ daemon \in Hash
    BY InitStraight, InitTyped, Zenon DEF Straight, SharedTypes
  <2>3. \A h \in Heights : /\ h <= InitialTip => h \in 0 .. InitialTip
                           /\ h <= Height(daemon) => h \in 0 .. Height(daemon)
    <3>1. Height(daemon) \in Nat
      BY <2>2, HashIsSeq, HeightsAreHeights, Zenon
    <3> QED
      BY <3>1 DEF Heights
  <2>4. ASSUME NEW h \in Heights, rows[h] # NoHash
        PROVE  rows[h] \in extras /\ Height(rows[h]) = h
    <3>1. h <= InitialTip /\ rows[h] = OnChain(daemon, h) /\ h <= Height(daemon)
      BY <2>1, <2>2, <2>4, Zenon DEF RowsOnDaemon, OnDaemon
    <3>2. Height(OnChain(daemon, h)) = h
      BY <2>2, <2>3, <3>1, OnChainIsHash, Zenon
    <3> QED
      BY <2>1, <2>3, <3>1, <3>2, Zenon
  <2> QED
    BY <1>1, <2>4, Zenon DEF Vouched, Watermark, RowsAtHeights
<1> QED
  BY <1>2, <1>3, Zenon

LEMMA InductiveVouched ==
  Safety => []((Exclusive => TakesTurns) /\ (Exclusive \/ reorgs = 0 => Vouched))
<1> DEFINE I == SharedTypes /\ JobTypes /\ Shape /\ (reorgs = 0 => Straight)
           J == (Exclusive => TakesTurns) /\ (Exclusive \/ reorgs = 0 => Vouched)
<1>1. Init => J
  BY InitTurns, InitVouched
<1>2. I /\ J /\ [Next]_vars => J'
  BY StepTurns, StepVouched
<1>3. Safety => []I
  BY Inductive
<1> HIDE DEF I
<1> QED
  BY <1>1, <1>2, <1>3, PTL DEF Safety

(* Watermark, without the sweep (and, on an empty database, without        *)
(* another writer): through any number of reorganisations, rollbacks,      *)
(* crashes and ticks cut short, a row of `blocks` has the rows of its      *)
(* block in every other table.                                             *)
THEOREM WatermarkThroughRollbacks == Exclusive => (Safety => []Watermark)
<1> SUFFICES ASSUME Exclusive PROVE Safety => []Watermark
  OBVIOUS
<1>1. (Exclusive \/ reorgs = 0 => Vouched) => Watermark
  BY DEF Vouched
<1> QED
  BY <1>1, InductiveVouched, PTL

(* Watermark, with all three jobs and from any start, until the daemon     *)
(* reorganises.                                                            *)
THEOREM WatermarkUntilReorg == Safety => [](reorgs = 0 => Watermark)
<1>1. (Exclusive \/ reorgs = 0 => Vouched) => (reorgs = 0 => Watermark)
  BY DEF Vouched
<1> QED
  BY <1>1, InductiveVouched, PTL

-----------------------------------------------------------------------------
(* TipFollower alone: paths.                                               *)

Chain == Hash \cup {NoHash}

LEMMA ChainHeight ==
  ASSUME NEW T \in Chain
  PROVE  /\ Height(T) \in -1 .. MaxHeight
         /\ T # NoHash => T \in Hash /\ Height(T) \in Heights /\ Height(T) >= 0
         /\ Height(T) = -1 <=> T = NoHash
<1>1. Height(NoHash) = -1 /\ -1 \in -1 .. MaxHeight
  BY DEF Height, NoHash
<1>2. ASSUME T # NoHash PROVE T \in Hash /\ Height(T) \in Heights
  BY <1>2, HashIsSeq, Zenon DEF Chain
<1>3. \A h \in Heights : h \in -1 .. MaxHeight /\ h >= 0 /\ h # -1
  BY DEF Heights
<1> QED
  BY <1>1, <1>2, <1>3, Zenon

LEMMA OnPath ==
  ASSUME NEW T, NEW h \in Heights
  PROVE  /\ h <= Height(T) => Path(T)[h] = OnChain(T, h)
         /\ ~(h <= Height(T)) => Path(T)[h] = NoHash
  BY Zenon DEF Path

LEMMA PathRows ==
  ASSUME NEW T \in Chain, NEW h \in Heights, h <= Height(T)
  PROVE  h \in 0 .. Height(T) /\ T \in Hash /\ Path(T)[h] \in Hash /\ Path(T)[h] # NoHash
<1>1. Height(T) \in -1 .. MaxHeight
  BY ChainHeight
<1>2. h \in 0 .. Height(T) /\ Height(T) # -1
  BY <1>1 DEF Heights
<1>3. T \in Hash
  BY <1>2, ChainHeight
<1>4. OnChain(T, h) \in Hash /\ OnChain(T, h) # NoHash
  BY <1>2, <1>3, OnChainIsHash, Zenon
<1>5. Path(T)[h] = OnChain(T, h)
  BY OnPath
<1> QED
  BY <1>2, <1>3, <1>4, <1>5, Zenon

(* One block more. *)
LEMMA PathGrows ==
  ASSUME NEW T \in Chain, NEW b \in Hash, Height(b) = Height(T) + 1, Parent(b) = T,
         NEW r, r = Path(T)
  PROVE  /\ r[Height(b)] = NoHash
         /\ [r EXCEPT ![Height(b)] = IF @ = NoHash THEN b ELSE @] = Path(b)
         /\ BlocksOf(b) = BlocksOf(T) \cup {b}
<1> DEFINE n == Height(b)
<1>1. n \in Heights /\ Height(T) \in -1 .. MaxHeight
  BY HashIsSeq, ChainHeight, Zenon
<1>2. \A h \in Heights : /\ h <= n <=> h <= Height(T) \/ h = n
                         /\ h <= Height(T) => h # n /\ h \in 0 .. n - 1
  BY <1>1 DEF Heights
<1>3. ~(n <= Height(T)) /\ n <= n
  BY <1>1 DEF Heights
<1>4. OnChain(b, n) = b
  BY OnChainSelf, Zenon
<1>5. \A h \in 0 .. Height(T) : OnChain(b, h) = OnChain(T, h)
  <2>1. CASE n = 0
    <3>1. 0 .. Height(T) = {}
      BY <2>1, <1>1
    <3> QED
      BY <3>1, Zenon
  <2>2. CASE n # 0
    <3>1. n > 0 /\ n - 1 = Height(T) /\ n - 1 \in 0 .. n
      BY <1>1, <2>2 DEF Heights
    <3>2. T = OnChain(b, n - 1)
      BY <3>1, ParentOnChain, Zenon
    <3>3. \A h \in 0 .. n - 1 : OnChain(OnChain(b, n - 1), h) = OnChain(b, h)
      BY <3>1, OnChainTwice, Zenon
    <3> QED
      BY <3>1, <3>2, <3>3, Zenon
  <2> QED
    BY <2>1, <2>2, Zenon
<1>6. r[n] = NoHash
  BY <1>1, <1>3, OnPath, Zenon
<1>7. \A h \in Heights : h # n => r[h] = Path(b)[h]
  <2> TAKE h \in Heights
  <2>1. CASE h <= Height(T)
    <3>1. h \in 0 .. Height(T) /\ h <= n
      BY <1>2, <2>1, <1>1 DEF Heights
    <3> QED
      BY <1>5, <2>1, <3>1, OnPath, Zenon
  <2>2. CASE ~(h <= Height(T)) /\ h # n
    <3>1. ~(h <= n)
      BY <1>2, <2>2, Zenon
    <3> QED
      BY <2>2, <3>1, OnPath, Zenon
  <2> QED
    BY <2>1, <2>2, Zenon
<1>8. Path(b)[n] = b
  BY <1>1, <1>3, <1>4, OnPath, Zenon
<1>9. [r EXCEPT ![n] = IF @ = NoHash THEN b ELSE @] = Path(b)
  <2> DEFINE q == Path(b)
  <2>1. r = [h \in Heights |-> r[h]] /\ q = [h \in Heights |-> q[h]]
    BY Zenon DEF Path
  <2>2. q[n] = b /\ \A h \in Heights : h # n => r[h] = q[h]
    BY <1>7, <1>8, Zenon
  <2> HIDE DEF q, n
  <2>3. [r EXCEPT ![n] = IF @ = NoHash THEN b ELSE @] = q
    BY <1>1, <1>6, <2>1, <2>2
  <2> QED
    BY <2>3 DEF q
<1>10. BlocksOf(b) = BlocksOf(T) \cup {b}
  <2>1. \A h : h \in 0 .. n <=> h \in 0 .. Height(T) \/ h = n
    BY <1>1 DEF Heights
  <2> HIDE DEF n
  <2>2. \A h \in 0 .. n : OnChain(b, h) = IF h = n THEN b ELSE OnChain(T, h)
    BY <1>4, <1>5, <2>1, Zenon
  <2>3. n \notin 0 .. Height(T)
    BY <1>1, <1>3
  <2>4. \A x : (\E h \in 0 .. n : x = OnChain(b, h)) <=> (\E h \in 0 .. Height(T) : x = OnChain(T, h)) \/ x = b
    BY <2>1, <2>2, <2>3, Zenon
  <2>5. BlocksOf(b) = {OnChain(b, h) : h \in 0 .. n}
    BY Zenon DEF BlocksOf, n
  <2> QED
    BY <2>4, <2>5, Zenon DEF BlocksOf
<1> QED
  BY <1>6, <1>9, <1>10, Zenon

(* A rollback to height k. *)
LEMMA PathCut ==
  ASSUME NEW T \in Hash, NEW k \in 0 .. Height(T), NEW r, r = Path(T)
  PROVE  /\ [h \in Heights |-> IF h > k THEN NoHash ELSE r[h]] = Path(OnChain(T, k))
         /\ {b \in BlocksOf(T) : Height(b) <= k} = BlocksOf(OnChain(T, k))
<1>1. Height(T) \in Heights /\ k \in Heights /\ k <= Height(T)
  <2>1. Height(T) \in Heights
    BY HashIsSeq
  <2> QED
    BY <2>1 DEF Heights
<1>2. Height(OnChain(T, k)) = k /\ OnChain(T, k) \in Hash
  BY OnChainIsHash, Zenon
<1>3. \A h \in 0 .. k : OnChain(OnChain(T, k), h) = OnChain(T, h)
  BY OnChainTwice, Zenon
<1>4. ASSUME NEW h \in Heights
      PROVE  (IF h > k THEN NoHash ELSE r[h]) = Path(OnChain(T, k))[h]
  <2>1. (h > k <=> ~(h <= k)) /\ (h <= k => h \in 0 .. k /\ h <= Height(T))
    BY <1>1 DEF Heights
  <2> QED
    BY <1>2, <1>3, <2>1, OnPath, Zenon
<1>5. [h \in Heights |-> IF h > k THEN NoHash ELSE r[h]] = Path(OnChain(T, k))
  <2> DEFINE q == Path(OnChain(T, k))
  <2>1. q = [h \in Heights |-> q[h]]
    BY Zenon DEF Path
  <2>2. \A h \in Heights : (IF h > k THEN NoHash ELSE r[h]) = q[h]
    BY <1>4
  <2> HIDE DEF q
  <2>3. [h \in Heights |-> IF h > k THEN NoHash ELSE r[h]] = [h \in Heights |-> q[h]]
    BY <2>2
  <2>4. [h \in Heights |-> IF h > k THEN NoHash ELSE r[h]] = q
    BY <2>1, <2>3
  <2> QED
    BY <2>4 DEF q
<1>6. \A h \in 0 .. Height(T) : Height(OnChain(T, h)) = h
  BY OnChainIsHash, Zenon
<1>7. \A h : h \in 0 .. k <=> h \in 0 .. Height(T) /\ h <= k
  BY <1>1 DEF Heights
<1>8. \A x : (\E h \in 0 .. k : x = OnChain(OnChain(T, k), h))
               <=> (\E h \in 0 .. Height(T) : x = OnChain(T, h)) /\ Height(x) <= k
  BY <1>3, <1>6, <1>7, Zenon
<1>9. BlocksOf(OnChain(T, k)) = {OnChain(OnChain(T, k), h) : h \in 0 .. k}
  BY <1>2, Zenon DEF BlocksOf
<1> QED
  BY <1>5, <1>8, <1>9, Zenon DEF BlocksOf

(* The highest row of a path is its last block. *)
LEMMA PathMax ==
  ASSUME NEW T \in Chain, rows = Path(T)
  PROVE  /\ MaxRow = Height(T) /\ MaxRow \in -1 .. MaxHeight
         /\ T # NoHash => MaxRow # -1 /\ rows[MaxRow] = T
<1>1. rows \in [Heights -> Hash \cup {NoHash}]
  <2>1. \A h \in Heights : Path(T)[h] \in Hash \cup {NoHash}
    BY PathRows, OnPath, Zenon
  <2>2. Path(T) = [h \in Heights |-> Path(T)[h]]
    BY Zenon DEF Path
  <2> QED
    BY <2>1, <2>2, Zenon
<1>2. /\ MaxRow \in -1 .. MaxHeight
      /\ MaxRow # -1 => MaxRow \in Heights /\ rows[MaxRow] # NoHash
      /\ \A h \in Heights : rows[h] # NoHash => MaxRow # -1 /\ h <= MaxRow
  BY <1>1, MaxRowIs, Zenon
<1>3. Height(T) \in -1 .. MaxHeight
  BY ChainHeight
<1>4. MaxRow <= Height(T)
  <2>1. MaxRow # -1 => MaxRow <= Height(T)
    BY <1>2, OnPath, Zenon
  <2> QED
    BY <1>2, <1>3, <2>1
<1>5. CASE T = NoHash
  <2>1. Height(T) = -1
    BY <1>5, ChainHeight
  <2> QED
    BY <1>2, <1>4, <1>5, <2>1
<1>6. CASE T # NoHash
  <2>1. T \in Hash /\ Height(T) \in Heights
    BY <1>6, ChainHeight
  <2>2. Height(T) <= Height(T)
    BY <1>3
  <2>3. Path(T)[Height(T)] = T
    BY <2>1, <2>2, OnPath, OnChainSelf, Zenon
  <2>4. Height(T) <= MaxRow /\ MaxRow # -1
    BY <1>2, <1>6, <2>1, <2>3, Zenon
  <2>5. MaxRow = Height(T)
    BY <1>2, <1>3, <1>4, <2>4
  <2> QED
    BY <1>2, <2>3, <2>4, <2>5, Zenon
<1> QED
  BY <1>5, <1>6, Zenon

(* A path is linked. *)
LEMMA PathLinked ==
  ASSUME NEW T \in Chain, NEW h \in Heights \ {0}, Path(T)[h] # NoHash
  PROVE  Parent(Path(T)[h]) = Path(T)[h - 1]
<1>1. h <= Height(T) /\ T \in Hash
  BY OnPath, PathRows, Zenon
<1>2. Height(T) \in Nat
  BY <1>1, HashIsSeq, HeightsAreHeights, Zenon
<1>3. h - 1 \in Nat /\ h - 1 \in Heights /\ (h - 1) + 1 = h /\ h - 1 <= Height(T)
  BY <1>1, <1>2 DEF Heights
<1>4. Parent(OnChain(T, (h - 1) + 1)) = OnChain(T, h - 1)
  BY <1>1, <1>3, NextOnChain
<1> QED
  BY <1>1, <1>3, <1>4, OnPath, Zenon

(* Step by step, what Following says. *)
Plain == {"idle", "handle", "getTip", "rewind", "fetch", "check", "probe", "stored", "giveUp",
          "deleteBlocks", "writeRest"}

LEMMA TopIs ==
  ASSUME NEW c, NEW l
  PROVE  /\ \A p \in Plain : Top(c, p, l) = c.hash /\ Others(c, p, l) = BlocksOf(c.hash)
         /\ Top(c, "writeBlocks", l) = c.hash
         /\ Others(c, "writeBlocks", l) = BlocksOf(c.hash) \cup {Head(l.batch)}
         /\ \A p \in {"readStatus", "advance"} :
              Top(c, p, l) = Head(l.batch) /\ Others(c, p, l) = BlocksOf(Head(l.batch))
         /\ Top(c, "deleteRest", l) = l.hash /\ Others(c, "deleteRest", l) = BlocksOf(c.hash)
         /\ Top(c, "moveCursor", l) = l.hash /\ Others(c, "moveCursor", l) = BlocksOf(l.hash)
<1>1. ASSUME NEW p \in Plain PROVE Top(c, p, l) = c.hash /\ Others(c, p, l) = BlocksOf(c.hash)
  <2>1. p \notin {"readStatus", "advance"} /\ p \notin {"deleteRest", "moveCursor"}
        /\ p # "deleteRest" /\ p # "writeBlocks"
    BY DEF Plain
  <2>2. Top(c, p, l) = c.hash
    BY <2>1 DEF Top
  <2> QED
    BY <2>1, <2>2 DEF Others
<1>2. Top(c, "writeBlocks", l) = c.hash /\ Others(c, "writeBlocks", l) = BlocksOf(c.hash) \cup {Head(l.batch)}
  BY DEF Top, Others
<1>3. ASSUME NEW p \in {"readStatus", "advance"}
      PROVE  Top(c, p, l) = Head(l.batch) /\ Others(c, p, l) = BlocksOf(Head(l.batch))
  <2>1. Top(c, p, l) = Head(l.batch)
    BY DEF Top
  <2> QED
    BY <2>1 DEF Others
<1>4. Top(c, "deleteRest", l) = l.hash /\ Others(c, "deleteRest", l) = BlocksOf(c.hash)
  BY DEF Top, Others
<1>5. Top(c, "moveCursor", l) = l.hash /\ Others(c, "moveCursor", l) = BlocksOf(l.hash)
  <2>1. Top(c, "moveCursor", l) = l.hash
    BY DEF Top
  <2> QED
    BY <2>1 DEF Others
<1> QED
  BY <1>1, <1>2, <1>3, <1>4, <1>5, Zenon

LEMMA AwareIs ==
  ASSUME NEW c, NEW l
  PROVE  /\ \A p \in {"idle", "handle"} : Aware(c, p, l) <=> Rising(l.height, l.batch)
         /\ \A p \in {"fetch", "check"} : Aware(c, p, l) <=>
              l.height = c.height /\ l.hash = c.hash /\ Rising(l.height, l.batch)
         /\ \A p \in {"getTip", "rewind"} : Aware(c, p, l) <=>
              l.seen = c /\ l.height = c.height /\ l.hash = c.hash /\ Rising(l.height, l.batch)
         /\ \A p \in ApplySteps : Aware(c, p, l) <=>
              l.height = c.height /\ l.hash = c.hash /\ Rising(l.height, l.batch) /\ Parent(Head(l.batch)) = l.hash
         /\ Aware(c, "probe", l) <=> l.seen = c /\ l.batch = << >> /\ l.probe <= c.height
         /\ Aware(c, "stored", l) <=>
              l.seen = c /\ l.batch = << >> /\ l.probe <= c.height /\ l.height = l.probe /\ l.hash # NoHash
         /\ Aware(c, "giveUp", l) <=> l.seen = c /\ l.batch = << >>
         /\ \A p \in Cutting : Aware(c, p, l) <=>
              l.batch = << >> /\ l.height <= c.height /\ l.hash = OnChain(c.hash, l.height)
<1>1. l.batch = << >> => Rising(l.height, l.batch)
  BY DEF Rising
<1>2. \A p \in {"idle", "handle"} : Aware(c, p, l) <=> Rising(l.height, l.batch)
  BY DEF Aware, Walking, Cutting, ApplySteps, HandleSteps
<1>3. \A p \in {"fetch", "check"} : Aware(c, p, l) <=>
        l.height = c.height /\ l.hash = c.hash /\ Rising(l.height, l.batch)
  BY DEF Aware, Walking, Cutting, ApplySteps, HandleSteps
<1>4. \A p \in {"getTip", "rewind"} : Aware(c, p, l) <=>
        l.seen = c /\ l.height = c.height /\ l.hash = c.hash /\ Rising(l.height, l.batch)
  BY DEF Aware, Walking, Cutting, ApplySteps, HandleSteps
<1>5. \A p \in ApplySteps : Aware(c, p, l) <=>
        l.height = c.height /\ l.hash = c.hash /\ Rising(l.height, l.batch) /\ Parent(Head(l.batch)) = l.hash
  BY DEF Aware, Walking, Cutting, ApplySteps, HandleSteps
<1>6. Aware(c, "probe", l) <=> l.seen = c /\ l.batch = << >> /\ l.probe <= c.height
  BY <1>1 DEF Aware, Walking, Cutting, ApplySteps, HandleSteps
<1>7. Aware(c, "stored", l) <=>
        l.seen = c /\ l.batch = << >> /\ l.probe <= c.height /\ l.height = l.probe /\ l.hash # NoHash
  BY <1>1 DEF Aware, Walking, Cutting, ApplySteps, HandleSteps
<1>8. Aware(c, "giveUp", l) <=> l.seen = c /\ l.batch = << >>
  BY <1>1 DEF Aware, Walking, Cutting, ApplySteps, HandleSteps
<1>9. \A p \in Cutting : Aware(c, p, l) <=>
        l.batch = << >> /\ l.height <= c.height /\ l.hash = OnChain(c.hash, l.height)
  BY <1>1 DEF Aware, Walking, Cutting, ApplySteps, HandleSteps
<1> QED
  BY <1>2, <1>3, <1>4, <1>5, <1>6, <1>7, <1>8, <1>9, Zenon

LEMMA FollowedMoves ==
  ASSUME JobTypes, "tip" \in Jobs, NEW s, NEW m, Moves("tip", s, m),
         Following(cursor', rows', extras', s, m)
  PROVE  Followed'
<1>1. pc'["tip"] = s /\ at'["tip"] = m
  BY MoveEffect, Zenon
<1> QED
  BY <1>1, Zenon DEF Followed

(* At a plain step, with the tables of the cursor's chain. *)
LEMMA PlainFollowing ==
  ASSUME NEW c, NEW r, NEW x, NEW p \in Plain, NEW l
  PROVE  Following(c, r, x, p, l) <=>
           Height(c.hash) = c.height /\ r = Path(c.hash) /\ x = BlocksOf(c.hash) /\ Aware(c, p, l)
  BY TopIs, Zenon DEF Following

LEMMA IdleFollowing ==
  ASSUME NEW c, NEW r, NEW x, Height(c.hash) = c.height, r = Path(c.hash), x = BlocksOf(c.hash)
  PROVE  Following(c, r, x, "idle", Idle)
<1>1. Rising(Idle.height, Idle.batch)
  BY DEF Rising, Idle
<1>2. "idle" \in Plain
  BY DEF Plain
<1> QED
  BY <1>1, <1>2, PlainFollowing, AwareIs, Zenon

LEMMA InPlain ==
  /\ {"idle", "handle", "getTip", "rewind", "fetch", "check", "probe", "stored", "giveUp",
      "deleteBlocks", "writeRest"} \subseteq Plain
  /\ {"writeRest", "writeBlocks", "readStatus", "advance"} \subseteq ApplySteps
  /\ {"deleteBlocks", "deleteRest", "moveCursor"} \subseteq Cutting
  BY DEF Plain, ApplySteps, Cutting

LEMMA ApplyFollowed ==
  ASSUME SharedTypes, JobTypes, Shape, Followed, "tip" \in Jobs, Apply("tip")
  PROVE  Followed'
<1> DEFINE l == at["tip"]
           b == Head(l.batch)
           c == cursor
<1>1. /\ l \in Local /\ b \in Hash /\ l.batch # << >> /\ pc["tip"] \in ApplySteps
      /\ \/ /\ pc["tip"] = "writeRest" /\ Moves("tip", "writeBlocks", l)
            /\ extras' = extras \cup {b} /\ UNCHANGED <<rows, cursor>>
         \/ /\ pc["tip"] = "writeBlocks" /\ Moves("tip", "readStatus", l) /\ UNCHANGED <<extras, cursor>>
            /\ rows' = [rows EXCEPT ![Height(b)] = IF @ = NoHash THEN b ELSE @]
         \/ /\ pc["tip"] = "readStatus" /\ UNCHANGED <<rows, extras, cursor>>
            /\ \E m : /\ Moves("tip", "advance", m)
                      /\ Fields(m, cursor, l.height, l.hash, l.goal, l.batch, l.stored, l.probe)
         \/ /\ pc["tip"] = "advance" /\ UNCHANGED <<rows, extras>>
            /\ cursor' = Cursor(Height(b), b, l.seen.status)
            /\ \E m : /\ Moves("tip", ApplyTo("tip"), m)
                      /\ Fields(m, l.seen, Height(b), b, l.goal, Tail(l.batch), l.stored, l.probe)
  BY ApplyEffect, Zenon
<1>2. Following(c, rows, extras, pc["tip"], l)
  BY Zenon DEF Followed
<1>3. Height(c.hash) = c.height /\ Aware(c, pc["tip"], l) /\ c.hash \in Chain
  BY <1>2, CursorParts, Zenon DEF Following, SharedTypes, Chain
<1>4. l.height = c.height /\ l.hash = c.hash /\ Rising(l.height, l.batch) /\ Parent(b) = l.hash
  <2>1. \A p \in ApplySteps : Aware(c, p, l) <=>
          l.height = c.height /\ l.hash = c.hash /\ Rising(l.height, l.batch) /\ Parent(b) = l.hash
    BY AwareIs, Zenon
  <2>2. pc["tip"] \in ApplySteps
    BY <1>1, Zenon
  <2> HIDE DEF l, b, c
  <2> QED
    BY <1>3, <2>1, <2>2, Zenon
<1>5. Height(b) = c.height + 1 /\ Parent(b) = c.hash /\ Height(b) \in Heights
  <2>1. l.batch \in Seq(Hash) /\ l.batch # << >>
    BY <1>1, LocalTypes, Zenon
  <2>2. 1 \in 1 .. Len(l.batch) /\ l.batch[1] = b
    BY <2>1
  <2>3. Height(b) = l.height + 1
    BY <1>4, <2>2, Zenon DEF Rising
  <2> QED
    BY <1>1, <1>4, <2>3, HashIsSeq, Zenon
<1>6. ASSUME NEW s \in ApplySteps, NEW m,
             m.height = l.height, m.hash = l.hash, m.batch = l.batch
      PROVE  Aware(c, s, m)
  BY <1>4, <1>6, AwareIs, ZenonT(60)
<1>7. CASE pc["tip"] = "writeRest"
  <2>1. /\ Moves("tip", "writeBlocks", l)
        /\ extras' = extras \cup {b} /\ UNCHANGED <<rows, cursor>>
    BY <1>1, <1>7, Zenon
  <2>2. rows = Path(c.hash) /\ extras = BlocksOf(c.hash)
    BY <1>2, <1>7, InPlain, PlainFollowing, Zenon
  <2>3. Aware(c, "writeBlocks", l)
    BY <1>6, InPlain, Zenon
  <2>4. Following(c, rows, extras \cup {b}, "writeBlocks", l)
    BY <1>3, <2>2, <2>3, TopIs, Zenon DEF Following
  <2> QED
    BY <2>1, <2>4, FollowedMoves, Zenon
<1>8. CASE pc["tip"] = "writeBlocks"
  <2>1. /\ Moves("tip", "readStatus", l) /\ UNCHANGED <<extras, cursor>>
        /\ rows' = [rows EXCEPT ![Height(b)] = IF @ = NoHash THEN b ELSE @]
    BY <1>1, <1>8, Zenon
  <2>2. rows = Path(c.hash) /\ extras = BlocksOf(c.hash) \cup {b}
    BY <1>2, <1>8, TopIs, ZenonT(60) DEF Following
  <2>3. Height(b) = Height(c.hash) + 1
    BY <1>3, <1>5
  <2>4. rows' = Path(b) /\ extras = BlocksOf(b)
    <3>1. b \in Hash /\ c.hash \in Chain /\ Parent(b) = c.hash
      BY <1>1, <1>3, <1>5, Zenon
    <3> HIDE DEF b, c
    <3>2. /\ [rows EXCEPT ![Height(b)] = IF @ = NoHash THEN b ELSE @] = Path(b)
          /\ BlocksOf(b) = BlocksOf(c.hash) \cup {b}
      BY <2>2, <2>3, <3>1, PathGrows, Zenon
    <3> QED
      BY <2>1, <2>2, <3>2, Zenon
  <2>5. Aware(c, "readStatus", l)
    BY <1>6, InPlain, Zenon
  <2>6. Following(c, rows', extras, "readStatus", l)
    BY <1>3, <2>4, <2>5, TopIs, Zenon DEF Following
  <2> QED
    BY <2>1, <2>6, FollowedMoves, Zenon
<1>9. CASE pc["tip"] = "readStatus"
  <2>1. PICK m : /\ Moves("tip", "advance", m) /\ UNCHANGED <<rows, extras, cursor>>
                 /\ m.height = l.height /\ m.hash = l.hash /\ m.batch = l.batch
    BY <1>1, <1>9, Zenon DEF Fields
  <2>2. rows = Path(b) /\ extras = BlocksOf(b)
    <3>1. Top(c, "readStatus", l) = b /\ Others(c, "readStatus", l) = BlocksOf(b)
      BY TopIs, Zenon
    <3>2. Following(c, rows, extras, "readStatus", l)
      BY <1>2, <1>9, Zenon
    <3> QED
      BY <3>1, <3>2, Zenon DEF Following
  <2>3. Aware(c, "advance", m)
    BY <1>6, <2>1, InPlain, Zenon
  <2>4. Following(c, rows, extras, "advance", m)
    <3>1. Top(c, "advance", m) = b /\ Others(c, "advance", m) = BlocksOf(b)
      <4>1. Top(c, "advance", m) = Head(m.batch) /\ Others(c, "advance", m) = BlocksOf(Head(m.batch))
        BY TopIs, Zenon
      <4> QED
        BY <2>1, <4>1, Zenon
    <3> QED
      BY <1>3, <2>2, <2>3, <3>1, Zenon DEF Following
  <2> QED
    BY <2>1, <2>4, FollowedMoves, Zenon
<1>10. CASE pc["tip"] = "advance"
  <2>1. PICK m : /\ Moves("tip", "check", m) /\ UNCHANGED <<rows, extras>>
                 /\ cursor' = Cursor(Height(b), b, l.seen.status)
                 /\ m.height = Height(b) /\ m.hash = b /\ m.batch = Tail(l.batch)
    <3>1. ApplyTo("tip") = "check"
      BY DEF ApplyTo
    <3> QED
      BY <1>1, <1>10, <3>1, Zenon DEF Fields
  <2>2. rows = Path(b) /\ extras = BlocksOf(b)
    <3>1. Top(c, "advance", l) = b /\ Others(c, "advance", l) = BlocksOf(b)
      BY TopIs, Zenon
    <3>2. Following(c, rows, extras, "advance", l)
      BY <1>2, <1>10, Zenon
    <3> QED
      BY <3>1, <3>2, Zenon DEF Following
  <2>3. cursor'.height = Height(b) /\ cursor'.hash = b
    BY <2>1 DEF Cursor
  <2>4. Rising(m.height, m.batch)
    <3>1. l.batch \in Seq(Hash) /\ l.batch # << >> /\ \A i \in 1 .. Len(l.batch) : Height(l.batch[i]) = c.height + i
      BY <1>1, <1>4, LocalTypes, Zenon DEF Rising
    <3>2. c.height \in Int
      BY CursorParts DEF SharedTypes
    <3>3. \A i \in 1 .. Len(Tail(l.batch)) : Tail(l.batch)[i] = l.batch[i + 1] /\ i + 1 \in 1 .. Len(l.batch) /\ i \in Int
      BY <3>1
    <3>4. \A i \in 1 .. Len(Tail(l.batch)) : Height(Tail(l.batch)[i]) = c.height + (i + 1) /\ i \in Int
      BY <3>1, <3>3, Zenon
    <3>5. \A i \in 1 .. Len(Tail(l.batch)) : Height(Tail(l.batch)[i]) = Height(b) + i
      BY <1>5, <3>2, <3>4
    <3> QED
      BY <2>1, <3>5, Zenon DEF Rising
  <2>5. Following(cursor', rows, extras, "check", m)
    <3>1. Aware(cursor', "check", m) <=>
            m.height = cursor'.height /\ m.hash = cursor'.hash /\ Rising(m.height, m.batch)
      BY AwareIs, Zenon
    <3>2. Aware(cursor', "check", m)
      BY <2>1, <2>3, <2>4, <3>1, Zenon
    <3>3. Following(cursor', rows, extras, "check", m) <=>
            /\ Height(cursor'.hash) = cursor'.height /\ rows = Path(cursor'.hash)
            /\ extras = BlocksOf(cursor'.hash) /\ Aware(cursor', "check", m)
      BY InPlain, PlainFollowing, Zenon
    <3> QED
      BY <2>2, <2>3, <3>2, <3>3, Zenon
  <2> QED
    BY <2>1, <2>5, FollowedMoves, Zenon
<1> QED
  BY <1>1, <1>7, <1>8, <1>9, <1>10, Zenon

LEMMA HandleFollowed ==
  ASSUME SharedTypes, JobTypes, Shape, Followed, "tip" \in Jobs, HandleReorg("tip")
  PROVE  Followed'
<1> DEFINE l == at["tip"]
           c == cursor
<1>1. Following(c, rows, extras, pc["tip"], l) /\ l \in Local
  BY Zenon DEF Followed, JobTypes
<1>2. Height(c.hash) = c.height /\ Aware(c, pc["tip"], l) /\ c.hash \in Chain
  BY <1>1, CursorParts, Zenon DEF Following, SharedTypes, Chain
<1>3. \A s \in Plain : \A m : Following(c, rows, extras, s, m) <=>
        Height(c.hash) = c.height /\ rows = Path(c.hash) /\ extras = BlocksOf(c.hash) /\ Aware(c, s, m)
  BY PlainFollowing, Zenon
<1>4. pc["tip"] \in Plain => rows = Path(c.hash) /\ extras = BlocksOf(c.hash)
  BY <1>1, <1>3, Zenon
<1>5. ASSUME pc["tip"] \in Plain, UNCHANGED <<rows, extras, cursor>>,
             NEW s \in Plain, NEW m, Moves("tip", s, m), Aware(c, s, m)
      PROVE  Followed'
  BY <1>2, <1>3, <1>4, <1>5, FollowedMoves, Zenon
<1>6. ASSUME pc["tip"] \in Plain, UNCHANGED <<rows, extras>>, Moves("tip", "idle", Idle),
             cursor'.hash = c.hash, cursor'.height = c.height
      PROVE  Followed'
  <2>1. Following(cursor', rows, extras, "idle", Idle)
    BY <1>2, <1>4, <1>6, IdleFollowing, Zenon
  <2> QED
    BY <1>6, <2>1, FollowedMoves, Zenon
<1>7. /\ Aware(c, "probe", l) <=> l.seen = c /\ l.batch = << >> /\ l.probe <= c.height
      /\ Aware(c, "stored", l) <=>
           l.seen = c /\ l.batch = << >> /\ l.probe <= c.height /\ l.height = l.probe /\ l.hash # NoHash
      /\ Aware(c, "giveUp", l) <=> l.seen = c /\ l.batch = << >>
      /\ \A p \in Cutting : Aware(c, p, l) <=>
           l.batch = << >> /\ l.height <= c.height /\ l.hash = OnChain(c.hash, l.height)
  BY AwareIs, Zenon
<1>8. CASE Handle("tip")
  <2>1. /\ pc["tip"] = "handle" /\ UNCHANGED <<rows, extras, cursor>>
        /\ \/ Moves("tip", "idle", Idle)
           \/ \E m : /\ Moves("tip", "probe", m)
                     /\ m.seen = c /\ m.batch = << >> /\ m.probe = c.height
    BY <1>8, HandleEffect, Zenon DEF Fields
  <2>2. pc["tip"] \in Plain
    BY <2>1, InPlain, Zenon
  <2>3. CASE Moves("tip", "idle", Idle)
    BY <1>6, <2>1, <2>2, <2>3, Zenon
  <2>4. ASSUME NEW m, Moves("tip", "probe", m), m.seen = c, m.batch = << >>, m.probe = c.height
        PROVE  Followed'
    <3>1. c.height <= c.height
      BY CursorParts DEF SharedTypes
    <3>2. Aware(c, "probe", m) <=> m.seen = c /\ m.batch = << >> /\ m.probe <= c.height
      BY AwareIs, Zenon
    <3>3. Aware(c, "probe", m)
      BY <2>4, <3>1, <3>2, Zenon
    <3> QED
      BY <1>5, <2>1, <2>2, <2>4, <3>3, InPlain, Zenon
  <2> QED
    BY <2>1, <2>3, <2>4, Zenon
<1>9. CASE Probe("tip")
  <2>1. /\ pc["tip"] = "probe" /\ UNCHANGED <<rows, extras, cursor>>
        /\ \/ Moves("tip", "giveUp", l)
           \/ Moves("tip", "idle", Idle)
           \/ /\ l.probe \in 0 .. Height(daemon)
              /\ \E m : /\ Moves("tip", "stored", m)
                        /\ m.seen = l.seen /\ m.batch = l.batch /\ m.probe = l.probe
                        /\ m.height = l.probe /\ m.hash = OnChain(daemon, l.probe)
    BY <1>9, ProbeEffect, Zenon DEF Fields
  <2>2. pc["tip"] \in Plain
    BY <2>1, InPlain, Zenon
  <2>3. l.seen = c /\ l.batch = << >> /\ l.probe <= c.height
    BY <1>2, <1>7, <2>1, Zenon
  <2>4. CASE Moves("tip", "idle", Idle)
    BY <1>6, <2>1, <2>2, <2>4, Zenon
  <2>5. CASE Moves("tip", "giveUp", l)
    <3>1. Aware(c, "giveUp", l)
      BY <1>7, <2>3, Zenon
    <3> QED
      BY <1>5, <2>1, <2>2, <2>5, <3>1, InPlain, Zenon
  <2>6. ASSUME l.probe \in 0 .. Height(daemon), NEW m, Moves("tip", "stored", m), m.seen = l.seen, m.batch = l.batch,
               m.probe = l.probe, m.height = l.probe, m.hash = OnChain(daemon, l.probe)
        PROVE  Followed'
    <3>1. m.hash # NoHash
      <4>1. \A h \in 0 .. Height(daemon) : OnChain(daemon, h) # NoHash
        BY OnChainIsHash, Zenon DEF SharedTypes
      <4> QED
        BY <2>6, <4>1, Zenon
    <3>2. Aware(c, "stored", m) <=>
            m.seen = c /\ m.batch = << >> /\ m.probe <= c.height /\ m.height = m.probe /\ m.hash # NoHash
      BY AwareIs, Zenon
    <3>3. Aware(c, "stored", m)
      BY <2>3, <2>6, <3>1, <3>2, Zenon
    <3> QED
      BY <1>5, <2>1, <2>2, <2>6, <3>3, InPlain, Zenon
  <2> QED
    BY <2>1, <2>4, <2>5, <2>6, Zenon
<1>10. CASE Stored("tip")
  <2>1. /\ pc["tip"] = "stored" /\ UNCHANGED <<rows, extras, cursor>> /\ l.probe \in Heights
        /\ \/ rows[l.probe] = l.hash /\ Moves("tip", "deleteBlocks", l)
           \/ \E m : /\ Moves("tip", "probe", m)
                     /\ m.seen = l.seen /\ m.batch = l.batch /\ m.probe = l.probe - 1
    BY <1>10, StoredEffect, Zenon DEF Fields
  <2>2. pc["tip"] \in Plain
    BY <2>1, InPlain, Zenon
  <2>3. l.seen = c /\ l.batch = << >> /\ l.probe <= c.height /\ l.height = l.probe /\ l.hash # NoHash
    BY <1>2, <1>7, <2>1, Zenon
  <2>4. CASE rows[l.probe] = l.hash /\ Moves("tip", "deleteBlocks", l)
    <3>1. Path(c.hash)[l.probe] = l.hash
      BY <1>4, <2>2, <2>4, Zenon
    <3>2. l.hash = OnChain(c.hash, l.probe)
      BY <2>1, <2>3, <3>1, OnPath, Zenon
    <3>3. Aware(c, "deleteBlocks", l)
      BY <1>7, <2>3, <3>2, InPlain, Zenon
    <3> QED
      BY <1>5, <2>1, <2>2, <2>4, <3>3, InPlain, Zenon
  <2>5. ASSUME NEW m, Moves("tip", "probe", m), m.seen = l.seen, m.batch = l.batch, m.probe = l.probe - 1
        PROVE  Followed'
    <3>1. c.height \in Int /\ l.probe \in Int
      <4>1. c.height \in -1 .. MaxHeight
        BY CursorParts, Zenon DEF SharedTypes
      <4> QED
        BY <2>1, <4>1 DEF Heights
    <3>2. l.probe - 1 <= c.height
      BY <2>3, <3>1
    <3>3. Aware(c, "probe", m) <=> m.seen = c /\ m.batch = << >> /\ m.probe <= c.height
      BY AwareIs, Zenon
    <3>4. Aware(c, "probe", m)
      BY <2>3, <2>5, <3>2, <3>3, Zenon
    <3> QED
      BY <1>5, <2>1, <2>2, <2>5, <3>4, InPlain, Zenon
  <2> QED
    BY <2>1, <2>4, <2>5, Zenon
<1>11. CASE GiveUp("tip") \/ DeleteBlocks("tip") \/ DeleteRest("tip") \/ MoveCursor("tip")
  <2>1. \/ /\ pc["tip"] = "giveUp" /\ Moves("tip", "idle", Idle) /\ UNCHANGED <<rows, extras>>
           /\ cursor' = [l.seen EXCEPT !.status = "reorg"]
        \/ /\ pc["tip"] = "deleteBlocks" /\ l.height >= 0 /\ Moves("tip", "deleteRest", l) /\ UNCHANGED <<extras, cursor>>
           /\ rows' = [h \in Heights |-> IF h > l.height THEN NoHash ELSE rows[h]]
        \/ /\ pc["tip"] = "deleteRest" /\ l.height >= 0 /\ Moves("tip", "moveCursor", l) /\ UNCHANGED <<rows, cursor>>
           /\ extras' = {b \in extras : Height(b) <= l.height}
        \/ /\ pc["tip"] = "moveCursor" /\ l.height >= 0 /\ UNCHANGED <<rows, extras>>
           /\ cursor' = Cursor(l.height, l.hash, "live") /\ Moves("tip", "check", l)
    BY <1>11, RollbackEffect, Zenon
  <2>2. CASE pc["tip"] = "giveUp"
    <3>1. /\ Moves("tip", "idle", Idle) /\ UNCHANGED <<rows, extras>>
          /\ cursor' = [l.seen EXCEPT !.status = "reorg"]
      BY <2>1, <2>2, Zenon
    <3>2. l.seen = c
      BY <1>2, <1>7, <2>2, Zenon
    <3>3. "reorg" \in Status /\ cursor \in Cursors
      BY DEF Status, SharedTypes
    <3>4. cursor'.hash = c.hash /\ cursor'.height = c.height
      BY <3>1, <3>2, <3>3, CursorMarked, Zenon
    <3> QED
      BY <1>6, <2>2, <3>1, <3>4, InPlain, Zenon
  <2>3. ASSUME pc["tip"] \in Cutting, l.height >= 0
        PROVE  /\ l.height \in 0 .. Height(c.hash) /\ c.hash \in Hash /\ l.hash = OnChain(c.hash, l.height)
               /\ Height(l.hash) = l.height /\ l.batch = << >>
               /\ \A s \in Cutting : Aware(c, s, l)
    <3>1. l.batch = << >> /\ l.height <= c.height /\ l.hash = OnChain(c.hash, l.height)
      BY <1>2, <1>7, <2>3, Zenon
    <3>2. l.height \in -1 .. MaxHeight /\ c.height \in -1 .. MaxHeight
      BY <1>1, LocalTypes, CursorParts, Zenon DEF SharedTypes
    <3>3. l.height \in 0 .. c.height /\ c.height # -1
      BY <2>3, <3>1, <3>2
    <3>4. c.hash \in Hash
      BY <1>2, <3>3, ChainHeight, Zenon
    <3>5. Height(OnChain(c.hash, l.height)) = l.height
      BY <1>2, <3>3, <3>4, OnChainIsHash, Zenon
    <3> QED
      BY <1>2, <1>7, <3>1, <3>3, <3>4, <3>5, Zenon
  <2>4. CASE pc["tip"] = "deleteBlocks"
    <3>1. /\ l.height >= 0 /\ Moves("tip", "deleteRest", l) /\ UNCHANGED <<extras, cursor>>
          /\ rows' = [h \in Heights |-> IF h > l.height THEN NoHash ELSE rows[h]]
      BY <2>1, <2>4, Zenon
    <3>2. pc["tip"] \in Cutting /\ pc["tip"] \in Plain
      BY <2>4, InPlain, Zenon
    <3>3. rows = Path(c.hash) /\ extras = BlocksOf(c.hash)
      BY <1>4, <3>2
    <3>4. /\ l.height \in 0 .. Height(c.hash) /\ c.hash \in Hash /\ l.hash = OnChain(c.hash, l.height)
          /\ Aware(c, "deleteRest", l)
      BY <2>3, <3>1, <3>2, InPlain, Zenon
    <3>5. rows' = Path(l.hash)
      <4> DEFINE T == c.hash
                 k == l.height
      <4>1. T \in Hash /\ k \in 0 .. Height(T) /\ rows = Path(T)
        BY <3>3, <3>4, Zenon
      <4> HIDE DEF T, k
      <4>2. [h \in Heights |-> IF h > k THEN NoHash ELSE rows[h]] = Path(OnChain(T, k))
        BY <4>1, PathCut
      <4>3. [h \in Heights |-> IF h > l.height THEN NoHash ELSE rows[h]] = Path(OnChain(c.hash, l.height))
        BY <4>2, Zenon DEF T, k
      <4> QED
        BY <3>1, <3>4, <4>3, Zenon
    <3>6. Top(c, "deleteRest", l) = l.hash /\ Others(c, "deleteRest", l) = BlocksOf(c.hash)
      BY TopIs, Zenon
    <3>7. Following(c, rows', extras, "deleteRest", l)
      BY <1>2, <3>3, <3>4, <3>5, <3>6, Zenon DEF Following
    <3> QED
      BY <3>1, <3>7, FollowedMoves, Zenon
  <2>5. CASE pc["tip"] = "deleteRest"
    <3>1. /\ l.height >= 0 /\ Moves("tip", "moveCursor", l) /\ UNCHANGED <<rows, cursor>>
          /\ extras' = {b \in extras : Height(b) <= l.height}
      BY <2>1, <2>5, Zenon
    <3>2. pc["tip"] \in Cutting
      BY <2>5, InPlain, Zenon
    <3>3. Top(c, "deleteRest", l) = l.hash /\ Others(c, "deleteRest", l) = BlocksOf(c.hash)
      BY TopIs, Zenon
    <3>4. Following(c, rows, extras, "deleteRest", l)
      BY <1>1, <2>5, Zenon
    <3>5. rows = Path(l.hash) /\ extras = BlocksOf(c.hash)
      BY <3>3, <3>4, Zenon DEF Following
    <3>6. /\ l.height \in 0 .. Height(c.hash) /\ c.hash \in Hash /\ l.hash = OnChain(c.hash, l.height)
          /\ Aware(c, "moveCursor", l)
      BY <2>3, <3>1, <3>2, InPlain, Zenon
    <3>7. {b \in BlocksOf(c.hash) : Height(b) <= l.height} = BlocksOf(OnChain(c.hash, l.height))
      BY <3>6, PathCut, Zenon
    <3>8. extras' = BlocksOf(l.hash)
      BY <3>1, <3>5, <3>6, <3>7, Zenon
    <3>9. Top(c, "moveCursor", l) = l.hash /\ Others(c, "moveCursor", l) = BlocksOf(l.hash)
      BY TopIs, Zenon
    <3>10. Following(c, rows, extras', "moveCursor", l)
      BY <1>2, <3>5, <3>6, <3>8, <3>9, Zenon DEF Following
    <3> QED
      BY <3>1, <3>10, FollowedMoves, Zenon
  <2>6. CASE pc["tip"] = "moveCursor"
    <3>1. /\ l.height >= 0 /\ UNCHANGED <<rows, extras>>
          /\ cursor' = Cursor(l.height, l.hash, "live") /\ Moves("tip", "check", l)
      BY <2>1, <2>6, Zenon
    <3>2. pc["tip"] \in Cutting
      BY <2>6, InPlain, Zenon
    <3>3. Top(c, "moveCursor", l) = l.hash /\ Others(c, "moveCursor", l) = BlocksOf(l.hash)
      BY TopIs, Zenon
    <3>4. Following(c, rows, extras, "moveCursor", l)
      BY <1>1, <2>6, Zenon
    <3>5. rows = Path(l.hash) /\ extras = BlocksOf(l.hash)
      BY <3>3, <3>4, Zenon DEF Following
    <3>6. Height(l.hash) = l.height /\ l.batch = << >>
      BY <2>3, <3>1, <3>2, Zenon
    <3>7. Rising(l.height, l.batch)
      BY <3>6 DEF Rising
    <3>8. cursor'.height = l.height /\ cursor'.hash = l.hash
      BY <3>1 DEF Cursor
    <3>9. Aware(cursor', "check", l) <=>
            l.height = cursor'.height /\ l.hash = cursor'.hash /\ Rising(l.height, l.batch)
      BY AwareIs, Zenon
    <3>10. Aware(cursor', "check", l)
      BY <3>7, <3>8, <3>9, Zenon
    <3>11. Following(cursor', rows, extras, "check", l) <=>
            /\ Height(cursor'.hash) = cursor'.height /\ rows = Path(cursor'.hash)
            /\ extras = BlocksOf(cursor'.hash) /\ Aware(cursor', "check", l)
      BY InPlain, PlainFollowing, Zenon
    <3>12. Following(cursor', rows, extras, "check", l)
      BY <3>5, <3>6, <3>8, <3>10, <3>11, Zenon
    <3> QED
      BY <3>1, <3>12, FollowedMoves, Zenon
  <2> QED
    BY <2>1, <2>2, <2>4, <2>5, <2>6, Zenon
<1> QED
  BY <1>8, <1>9, <1>10, <1>11, Zenon DEF HandleReorg

LEMMA TipFollowed ==
  ASSUME SharedTypes, JobTypes, Shape, Followed, "tip" \in Jobs, TipFollower
  PROVE  Followed'
<1> DEFINE l == at["tip"]
           c == cursor
<1>1. Following(c, rows, extras, pc["tip"], l) /\ l \in Local
  BY Zenon DEF Followed, JobTypes
<1>2. Height(c.hash) = c.height /\ Aware(c, pc["tip"], l) /\ c.hash \in Chain
  BY <1>1, CursorParts, Zenon DEF Following, SharedTypes, Chain
<1>3. \A s \in Plain : \A m : Following(c, rows, extras, s, m) <=>
        Height(c.hash) = c.height /\ rows = Path(c.hash) /\ extras = BlocksOf(c.hash) /\ Aware(c, s, m)
  BY PlainFollowing, Zenon
<1>4. pc["tip"] \in Plain => rows = Path(c.hash) /\ extras = BlocksOf(c.hash)
  BY <1>1, <1>3, Zenon
<1>5. ASSUME pc["tip"] \in Plain, UNCHANGED <<rows, extras, cursor>>,
             NEW s \in Plain, NEW m, Moves("tip", s, m), Aware(c, s, m)
      PROVE  Followed'
  BY <1>2, <1>3, <1>4, <1>5, FollowedMoves, Zenon
<1>6. ASSUME pc["tip"] \in Plain, UNCHANGED <<rows, extras>>, Moves("tip", "idle", Idle),
             cursor'.hash = c.hash, cursor'.height = c.height
      PROVE  Followed'
  <2>1. Following(cursor', rows, extras, "idle", Idle)
    BY <1>2, <1>4, <1>6, IdleFollowing, Zenon
  <2> QED
    BY <1>6, <2>1, FollowedMoves, Zenon
<1>7. ASSUME NEW m
      PROVE  /\ Aware(c, "handle", m) <=> Rising(m.height, m.batch)
             /\ \A p \in {"fetch", "check"} : Aware(c, p, m) <=>
                  m.height = c.height /\ m.hash = c.hash /\ Rising(m.height, m.batch)
             /\ \A p \in {"getTip", "rewind"} : Aware(c, p, m) <=>
                  m.seen = c /\ m.height = c.height /\ m.hash = c.hash /\ Rising(m.height, m.batch)
             /\ Aware(c, "writeRest", m) <=>
                  /\ m.height = c.height /\ m.hash = c.hash /\ Rising(m.height, m.batch)
                  /\ Parent(Head(m.batch)) = m.hash
  BY InPlain, AwareIs, Zenon
<1>8. Rising(c.height, << >>)
  BY DEF Rising
<1>9. CASE TipStart
  <2>1. PICK m : /\ pc["tip"] = "idle" /\ UNCHANGED <<rows, extras, cursor>> /\ Moves("tip", "getTip", m)
                 /\ m.seen = c /\ m.height = c.height /\ m.hash = c.hash /\ m.batch = << >>
    BY <1>9, TipStartEffect, Zenon DEF Fields
  <2>2. Aware(c, "getTip", m)
    BY <1>7, <1>8, <2>1, Zenon
  <2> QED
    BY <1>5, <2>1, <2>2, InPlain, Zenon
<1>10. CASE TipGetTip
  <2>1. /\ pc["tip"] = "getTip" /\ UNCHANGED <<rows, extras, cursor>>
        /\ \/ Moves("tip", "idle", Idle)
           \/ Moves("tip", "rewind", l)
           \/ \E m : /\ Moves("tip", "fetch", m)
                     /\ m.height = l.height /\ m.hash = l.hash /\ m.batch = l.batch
    BY <1>10, TipGetTipEffect, Zenon DEF Fields
  <2>2. l.seen = c /\ l.height = c.height /\ l.hash = c.hash /\ Rising(l.height, l.batch)
    BY <1>2, <1>7, <2>1, Zenon
  <2>3. pc["tip"] \in Plain
    BY <2>1, InPlain, Zenon
  <2>4. CASE Moves("tip", "idle", Idle)
    BY <1>6, <2>1, <2>3, <2>4, Zenon
  <2>5. CASE Moves("tip", "rewind", l)
    <3>1. Aware(c, "rewind", l)
      BY <1>7, <2>2, Zenon
    <3> QED
      BY <1>5, <2>1, <2>3, <2>5, <3>1, InPlain, Zenon
  <2>6. ASSUME NEW m, Moves("tip", "fetch", m), m.height = l.height, m.hash = l.hash, m.batch = l.batch
        PROVE  Followed'
    <3>1. Aware(c, "fetch", m)
      BY <1>7, <2>2, <2>6, Zenon
    <3> QED
      BY <1>5, <2>1, <2>3, <2>6, <3>1, InPlain, Zenon
  <2> QED
    BY <2>1, <2>4, <2>5, <2>6, Zenon
<1>11. CASE TipRewind
  <2>1. /\ pc["tip"] = "rewind" /\ Moves("tip", "idle", Idle) /\ UNCHANGED <<rows, extras>>
        /\ cursor' = [l.seen EXCEPT !.status = "backfilling"]
    BY <1>11, TipRewindEffect, Zenon
  <2>2. l.seen = c
    BY <1>2, <1>7, <2>1, Zenon
  <2>3. "backfilling" \in Status /\ cursor \in Cursors
    BY DEF Status, SharedTypes
  <2>4. cursor'.hash = c.hash /\ cursor'.height = c.height
    BY <2>1, <2>2, <2>3, CursorMarked, ZenonT(60)
  <2> QED
    BY <1>6, <2>1, <2>4, InPlain, Zenon
<1>12. CASE TipFetch
  <2>1. /\ pc["tip"] = "fetch" /\ UNCHANGED <<rows, extras, cursor>>
        /\ \/ Moves("tip", "idle", Idle)
           \/ \E B \in Seq(Hash) :
                /\ \A i \in 1 .. Len(B) : l.height + i \in 0 .. Height(daemon) /\ B[i] = OnChain(daemon, l.height + i)
                /\ \E m : /\ Moves("tip", "check", m)
                          /\ m.height = l.height /\ m.hash = l.hash /\ m.batch = B
    BY <1>12, TipFetchEffect, Zenon DEF Fields
  <2>2. l.height = c.height /\ l.hash = c.hash
    BY <1>2, <1>7, <2>1, Zenon
  <2>3. pc["tip"] \in Plain
    BY <2>1, InPlain, Zenon
  <2>4. CASE Moves("tip", "idle", Idle)
    BY <1>6, <2>1, <2>3, <2>4, Zenon
  <2>5. ASSUME NEW B \in Seq(Hash), NEW m, Moves("tip", "check", m),
               \A i \in 1 .. Len(B) : l.height + i \in 0 .. Height(daemon) /\ B[i] = OnChain(daemon, l.height + i),
               m.height = l.height, m.hash = l.hash, m.batch = B
        PROVE  Followed'
    <3>1. \A i \in 1 .. Len(B) : Height(B[i]) = l.height + i
      <4>1. \A h \in 0 .. Height(daemon) : Height(OnChain(daemon, h)) = h
        BY OnChainIsHash, Zenon DEF SharedTypes
      <4> QED
        BY <2>5, <4>1, Zenon
    <3>2. Aware(c, "check", m)
      BY <1>7, <2>2, <2>5, <3>1, Zenon DEF Rising
    <3> QED
      BY <1>5, <2>1, <2>3, <2>5, <3>2, InPlain, Zenon
  <2> QED
    BY <2>1, <2>4, <2>5, Zenon
<1>13. CASE TipCheck
  <2>1. /\ pc["tip"] = "check" /\ UNCHANGED <<rows, extras, cursor>>
        /\ \/ Moves("tip", "fetch", l)
           \/ Moves("tip", "idle", Idle)
           \/ Moves("tip", "handle", l)
           \/ /\ l.batch # << >> /\ (l.hash = NoHash \/ Parent(Head(l.batch)) = l.hash)
              /\ Moves("tip", "writeRest", l)
    BY <1>13, TipCheckEffect, Zenon
  <2>2. l.height = c.height /\ l.hash = c.hash /\ Rising(l.height, l.batch)
    BY <1>2, <1>7, <2>1, Zenon
  <2>3. pc["tip"] \in Plain
    BY <2>1, InPlain, Zenon
  <2>4. CASE Moves("tip", "idle", Idle)
    BY <1>6, <2>1, <2>3, <2>4, Zenon
  <2>5. CASE Moves("tip", "fetch", l)
    <3>1. Aware(c, "fetch", l)
      BY <1>7, <2>2, Zenon
    <3> QED
      BY <1>5, <2>1, <2>3, <2>5, <3>1, InPlain, Zenon
  <2>6. CASE Moves("tip", "handle", l)
    <3>1. Aware(c, "handle", l)
      BY <1>7, <2>2, Zenon
    <3> QED
      BY <1>5, <2>1, <2>3, <2>6, <3>1, InPlain, Zenon
  <2>7. CASE /\ l.batch # << >> /\ (l.hash = NoHash \/ Parent(Head(l.batch)) = l.hash)
             /\ Moves("tip", "writeRest", l)
    <3>1. ASSUME l.hash = NoHash PROVE Parent(Head(l.batch)) = NoHash
      <4>1. c.height = -1
        BY <1>2, <2>2, <3>1, ChainHeight, Zenon
      <4>2. l.batch \in Seq(Hash) /\ l.batch # << >>
        BY <1>1, <2>7, LocalTypes, Zenon
      <4>3. 1 \in 1 .. Len(l.batch) /\ l.batch[1] = Head(l.batch) /\ Head(l.batch) \in Hash
        BY <4>2
      <4>4. Height(Head(l.batch)) = -1 + 1
        BY <2>2, <4>1, <4>3, Zenon DEF Rising
      <4>5. Height(Head(l.batch)) = 0
        BY <4>4
      <4> QED
        BY <4>3, <4>5, ParentOnChain, Zenon
    <3>2. Aware(c, "writeRest", l)
      BY <1>7, <2>2, <2>7, <3>1, Zenon
    <3> QED
      BY <1>5, <2>1, <2>3, <2>7, <3>2, InPlain, Zenon
  <2> QED
    BY <2>1, <2>4, <2>5, <2>6, <2>7, Zenon
<1> QED
  BY <1>9, <1>10, <1>11, <1>12, <1>13, Zenon DEF TipFollower

LEMMA StepFollowed ==
  ASSUME SharedTypes, JobTypes, Shape, Jobs = {"tip"}, faults = 0 => Followed, [Next]_vars
  PROVE  faults' = 0 => Followed'
<1>1. CASE UNCHANGED vars \/ DaemonExtends \/ DaemonReorgs
  <2>1. UNCHANGED <<rows, extras, cursor, pc, at, faults>>
    BY <1>1, Zenon DEF vars, DaemonExtends, DaemonReorgs, tables, counters
  <2> QED
    BY <2>1, Zenon DEF Followed
<1>2. CASE Crash \/ \E j \in Jobs : Throws(j)
  <2>1. faults' = faults + 1 /\ faults \in 0 .. MaxFaults
    BY <1>2, Zenon DEF Crash, Throws, SharedTypes
  <2>2. faults' # 0
    BY <2>1
  <2> QED
    BY <2>2
<1>3. CASE Work
  <2>1. "tip" \in Jobs /\ "sweep" \notin Jobs /\ "fill" \notin Jobs
    OBVIOUS
  <2>2. ~SafetySweep
    BY <2>1, Zenon DEF SafetySweep, SweepStart, SweepQuery, SweepCompare, At
  <2>3. ~Backfiller
    BY <2>1, Zenon DEF Backfiller, FillStart, FillMaxRow, FillReconcile, FillGetTarget, FillNext, FillReadLive,
       FillMarkLive, At
  <2>4. \A j \in Jobs : j = "tip"
    OBVIOUS
  <2>5. TipFollower \/ Apply("tip") \/ HandleReorg("tip")
    BY <1>3, <2>2, <2>3, <2>4, Zenon DEF Work
  <2>6. faults' = faults
    BY <1>3, WorkCounts, Zenon
  <2> QED
    BY <2>1, <2>5, <2>6, ApplyFollowed, HandleFollowed, TipFollowed, Zenon
<1> QED
  BY <1>1, <1>2, <1>3, Zenon DEF Next

LEMMA InitFollowed ==
  ASSUME Init, "tip" \in Jobs
  PROVE  Followed
<1>1. pc["tip"] = "idle" /\ at["tip"] = Idle
  BY Zenon DEF Init
<1>2. Height(cursor.hash) = cursor.height /\ rows = Path(cursor.hash) /\ extras = BlocksOf(cursor.hash)
  <2>1. CASE Fresh
    <3>1. rows = [h \in Heights |-> NoHash] /\ extras = {} /\ cursor = NoCursor
      BY <2>1, Zenon DEF Init
    <3>2. cursor.hash = NoHash /\ cursor.height = -1
      BY <3>1, CursorParts, Zenon
    <3>3. Height(NoHash) = -1
      BY DEF Height, NoHash
    <3>4. \A h \in Heights : ~(h <= Height(NoHash))
      BY <3>3 DEF Heights
    <3>5. [h \in Heights |-> NoHash] = Path(NoHash)
      BY <3>4, Zenon DEF Path
    <3>6. 0 .. Height(NoHash) = {}
      BY <3>3
    <3>7. BlocksOf(NoHash) = {}
      BY <3>6, Zenon DEF BlocksOf
    <3> QED
      BY <3>1, <3>2, <3>3, <3>5, <3>7, Zenon
  <2>2. CASE ~Fresh
    <3>1. /\ rows = [h \in Heights |-> IF h <= InitialTip THEN OnChain(daemon, h) ELSE NoHash]
          /\ extras = {OnChain(daemon, h) : h \in 0 .. InitialTip}
          /\ cursor = Cursor(InitialTip, daemon, "live")
          /\ daemon = [i \in 1 .. InitialTip + 1 |-> 0]
      BY <2>2, Zenon DEF Init
    <3>2. Height(daemon) = InitialTip
      <4>1. Len(daemon) = InitialTip + 1
        BY <3>1
      <4> QED
        BY <4>1 DEF Height
    <3>3. cursor.height = InitialTip /\ cursor.hash = daemon
      BY <3>1 DEF Cursor
    <3> QED
      BY <3>1, <3>2, <3>3, Zenon DEF Path, BlocksOf
  <2> QED
    BY <2>1, <2>2, Zenon
<1>3. Following(cursor, rows, extras, "idle", Idle)
  BY <1>2, IdleFollowing, Zenon
<1> QED
  BY <1>1, <1>3, Zenon DEF Followed

LEMMA InductiveFollowed == Jobs = {"tip"} => (Safety => [](faults = 0 => Followed))
<1> SUFFICES ASSUME Jobs = {"tip"} PROVE Safety => [](faults = 0 => Followed)
  OBVIOUS
<1> DEFINE I == SharedTypes /\ JobTypes /\ Shape /\ (reorgs = 0 => Straight)
           J == faults = 0 => Followed
<1>1. Init => J
  BY InitFollowed
<1>2. I /\ J /\ [Next]_vars => J'
  BY StepFollowed
<1>3. Safety => []I
  BY Inductive
<1> HIDE DEF I
<1> QED
  BY <1>1, <1>2, <1>3, PTL DEF Safety

LEMMA TopInChain ==
  ASSUME SharedTypes, JobTypes, Shape, "tip" \in Jobs
  PROVE  Top(cursor, pc["tip"], at["tip"]) \in Chain
<1>1. at["tip"] \in Local /\ cursor.hash \in Chain /\ at["tip"].hash \in Chain
  BY LocalTypes, CursorParts, Zenon DEF SharedTypes, JobTypes, Chain
<1>2. ASSUME pc["tip"] \in {"readStatus", "advance"} PROVE Head(at["tip"].batch) \in Chain
  <2>1. pc["tip"] \in ApplySteps
    BY <1>2 DEF ApplySteps
  <2>2. at["tip"].batch \in Seq(Hash) /\ at["tip"].batch # << >>
    BY <1>1, <2>1, LocalTypes, Zenon DEF Shape, Shaped
  <2>3. Head(at["tip"].batch) \in Hash
    BY <2>2
  <2> QED
    BY <2>3, Zenon DEF Chain
<1> QED
  BY <1>1, <1>2 DEF Top

(* RowsLinked, with TipFollower as the only writer: through any number of  *)
(* reorganisations, each moving the daemon between two of its awaits, the  *)
(* stored blocks stay a chain, unless a tick is cut short around one.      *)
THEOREM LinkedThroughReorgs == Jobs = {"tip"} => (Safety => []RowsLinked)
<1> SUFFICES ASSUME Jobs = {"tip"} PROVE Safety => []RowsLinked
  OBVIOUS
<1>1. ASSUME SharedTypes, JobTypes, Shape, faults = 0 => Followed, reorgs = 0 => RowsLinked
      PROVE  RowsLinked
  <2>1. ASSUME faults = 0, NEW h \in Heights \ {0}, rows[h] # NoHash PROVE Parent(rows[h]) = rows[h - 1]
    <3>1. rows = Path(Top(cursor, pc["tip"], at["tip"]))
      BY <1>1, <2>1, Zenon DEF Followed, Following
    <3>2. Top(cursor, pc["tip"], at["tip"]) \in Chain
      BY <1>1, TopInChain
    <3> QED
      BY <2>1, <3>1, <3>2, PathLinked, Zenon
  <2> QED
    BY <1>1, <2>1, Zenon DEF RowsLinked, Undisturbed
<1> QED
  BY <1>1, Inductive, InductiveFollowed, LinkedUntilReorg, PTL

(* SettledConsistent, with TipFollower as the only writer: whatever the    *)
(* daemon did since, between two ticks the cursor names the highest row    *)
(* and the other tables have the blocks of `blocks` and no others.         *)
THEOREM SettledThroughReorgs == Jobs = {"tip"} => (Safety => []SettledConsistent)
<1> SUFFICES ASSUME Jobs = {"tip"} PROVE Safety => []SettledConsistent
  OBVIOUS
<1>1. ASSUME SharedTypes, faults = 0 => Followed PROVE SettledConsistent
  <2> SUFFICES ASSUME faults = 0, \A j \in Jobs : pc[j] = "idle"
               PROVE  /\ cursor.height = MaxRow
                      /\ MaxRow >= 0 => cursor.hash = rows[MaxRow]
                      /\ extras = {rows[h] : h \in 0 .. MaxRow}
    BY DEF SettledConsistent
  <2> DEFINE T == cursor.hash
  <2>1. pc["tip"] = "idle"
    OBVIOUS
  <2>2. Height(T) = cursor.height /\ rows = Path(T) /\ extras = BlocksOf(T)
    BY <1>1, <2>1, InPlain, PlainFollowing, ZenonT(60) DEF Followed
  <2>3. T \in Chain
    BY <1>1, CursorParts, Zenon DEF SharedTypes, Chain
  <2>4. MaxRow = Height(T) /\ (T # NoHash => rows[MaxRow] = T)
    BY <2>2, <2>3, PathMax, Zenon
  <2>5. MaxRow >= 0 => T # NoHash
    <3>1. T = NoHash => MaxRow = -1
      BY <2>3, <2>4, ChainHeight, Zenon
    <3> QED
      BY <3>1
  <2>6. \A h \in 0 .. Height(T) : h \in Heights /\ h <= Height(T)
    <3>1. Height(T) \in -1 .. MaxHeight
      BY <2>3, ChainHeight
    <3> QED
      BY <3>1 DEF Heights
  <2>7. \A h \in 0 .. Height(T) : rows[h] = OnChain(T, h)
    BY <2>2, <2>6, OnPath, Zenon
  <2>8. extras = {rows[h] : h \in 0 .. MaxRow}
    <3>1. {OnChain(T, h) : h \in 0 .. Height(T)} = {rows[h] : h \in 0 .. Height(T)}
      <4> HIDE DEF T
      <4>1. \A x : (\E h \in 0 .. Height(T) : x = OnChain(T, h)) <=> (\E h \in 0 .. Height(T) : x = rows[h])
        BY <2>7, Zenon
      <4> QED
        BY <4>1
    <3> QED
      BY <2>2, <2>4, <3>1, Zenon DEF BlocksOf
  <2> QED
    BY <2>2, <2>4, <2>5, <2>8, Zenon
<1> QED
  BY <1>1, Inductive, InductiveFollowed, PTL

-----------------------------------------------------------------------------
(* The mirror: what a reader sees of a step.                               *)

LEMMA ChildOfParent ==
  ASSUME NEW s \in Hash
  PROVE  \E b \in Branch : s = Append(Parent(s), b)
<1> DEFINE n == Len(s)
           q == SubSeq(s, 1, n - 1)
<1>1. s \in Seq(Branch) /\ n \in 1 .. MaxHeight + 1 /\ n \in Nat
  BY HashIsSeq
<1>2. s[n] \in Branch /\ n - 1 \in 0 .. Len(s)
  BY <1>1
<1>3. q \in Seq(Branch) /\ Len(q) = n - 1 /\ \A i \in 1 .. n - 1 : q[i] = s[i]
  <2> DEFINE k == n - 1
  <2>1. k \in 0 .. Len(s)
    BY <1>2
  <2> HIDE DEF k
  <2>2. SubSeq(s, 1, k) \in Seq(Branch) /\ Len(SubSeq(s, 1, k)) = k /\ \A i \in 1 .. k : SubSeq(s, 1, k)[i] = s[i]
    BY <1>1, <2>1
  <2> QED
    BY <2>2 DEF k
<1>4. Parent(s) = q
  BY DEF Parent, Front
<1> HIDE DEF q
<1>5. /\ Append(q, s[n]) \in Seq(Branch) /\ Len(Append(q, s[n])) = n
      /\ \A i \in 1 .. n : Append(q, s[n])[i] = s[i]
  <2>1. Append(q, s[n]) \in Seq(Branch) /\ Len(Append(q, s[n])) = n
    BY <1>1, <1>2, <1>3
  <2>2. ASSUME NEW i \in 1 .. n PROVE Append(q, s[n])[i] = s[i]
    <3>1. CASE i = n
      BY <1>1, <1>2, <1>3, <3>1
    <3>2. CASE i # n
      <4>1. i \in 1 .. n - 1
        BY <1>1, <3>2
      <4>2. Append(q, s[n])[i] = q[i]
        BY <1>2, <1>3, <4>1
      <4> QED
        BY <1>3, <4>1, <4>2, Zenon
    <3> QED
      BY <3>1, <3>2, Zenon
  <2> QED
    BY <2>1, <2>2, Zenon
<1>6. Append(q, s[n]) = s
  <2>1. Append(q, s[n]) \in Hash
    BY <1>1, <1>5, SeqIsHash, Zenon
  <2> QED
    BY <1>5, <2>1, SameHash, Zenon
<1> QED
  BY <1>2, <1>4, <1>6, Zenon

LEMMA AncestorIsPrefix ==
  ASSUME NEW T \in Hash, NEW k \in 0 .. Height(T)
  PROVE  IsPrefix(OnChain(T, k), T)
<1>1. OnChain(T, k) \in Hash /\ Height(OnChain(T, k)) = k /\ Len(OnChain(T, k)) = k + 1
  BY OnChainIsHash, Zenon
<1>2. Height(T) \in Nat /\ Len(T) = Height(T) + 1
  BY HashIsSeq, HeightsAreHeights, Zenon
<1>3. k + 1 <= Len(T)
  BY <1>2
<1>4. SubSeq(OnChain(T, k), 1, k + 1) = SubSeq(T, 1, k + 1)
  <2>1. OnChain(OnChain(T, k), k) = OnChain(T, k)
    BY <1>1, OnChainSelf, Zenon
  <2> QED
    BY <2>1, Zenon DEF OnChain
<1> QED
  BY <1>1, <1>3, <1>4, Zenon DEF IsPrefix

(* The chain an index shows, and the height of its highest row. *)
Shown == IF MaxRow = -1 THEN NoHash ELSE rows[MaxRow]

Highest(r, m) ==
  /\ m \in -1 .. MaxHeight
  /\ m # -1 => m \in Heights /\ r[m] # NoHash
  /\ \A h \in Heights : r[h] # NoHash => m # -1 /\ h <= m

LEMMA ShownTop ==
  ASSUME SharedTypes, JobTypes, Shape, "tip" \in Jobs, Followed
  PROVE  Shown = Top(cursor, pc["tip"], at["tip"])
<1> DEFINE T == Top(cursor, pc["tip"], at["tip"])
<1>1. T \in Chain /\ rows = Path(T)
  BY TopInChain, Zenon DEF Followed, Following
<1> HIDE DEF T
<1>2. MaxRow = Height(T) /\ (T # NoHash => MaxRow # -1 /\ rows[MaxRow] = T)
  BY <1>1, PathMax, Zenon
<1>3. T = NoHash => Height(T) = -1
  BY <1>1, ChainHeight, Zenon
<1>4. Shown = T
  BY <1>2, <1>3, Zenon DEF Shown
<1> QED
  BY <1>4 DEF T

(* Nobody but applyBlocks() and handle() touches the rows. *)
LEMMA RowsChange ==
  ASSUME SharedTypes, JobTypes, Shape, [Next]_vars
  PROVE  rows' = rows \/ \E j \in Jobs : WriteBlocks(j) \/ DeleteBlocks(j)
<1>1. ASSUME NEW j \in Jobs, Apply(j) \/ HandleReorg(j)
      PROVE  rows' = rows \/ WriteBlocks(j) \/ DeleteBlocks(j)
  BY <1>1, Zenon DEF Apply, WriteRest, ReadStatus, Advance, HandleReorg, Handle, Probe, Stored,
     GiveUp, DeleteRest, MoveCursor, tables
<1>2. ASSUME TipFollower PROVE rows' = rows
  BY <1>2, Zenon DEF TipFollower, TipStart, TipGetTip, TipRewind, TipFetch, TipCheck, tables
<1>3. ASSUME SafetySweep PROVE rows' = rows
  BY <1>3, Zenon DEF SafetySweep, SweepStart, SweepQuery, SweepCompare, tables
<1>4. ASSUME Backfiller PROVE rows' = rows
  BY <1>4, Zenon DEF Backfiller, FillStart, FillMaxRow, FillReconcile, FillGetTarget, FillNext, FillReadLive,
     FillMarkLive, tables
<1>5. ASSUME Work PROVE rows' = rows \/ \E j \in Jobs : WriteBlocks(j) \/ DeleteBlocks(j)
  BY <1>1, <1>2, <1>3, <1>4, <1>5, Zenon DEF Work
<1> QED
  BY <1>5, Zenon DEF Next, vars, DaemonExtends, DaemonReorgs, Crash, Throws, tables

LEMMA ShownStays ==
  ASSUME rows' = rows
  PROVE  Shown' = Shown
<1>1. MaxRow' = MaxRow
  BY DEF MaxRow
<1> QED
  BY <1>1, Zenon DEF Shown

(* With TipFollower alone, a write puts a child on top, and a deletion     *)
(* leaves an ancestor.                                                     *)
LEMMA WriteGrows ==
  ASSUME SharedTypes, JobTypes, Shape, "tip" \in Jobs, Followed, Shown = Top(cursor, pc["tip"], at["tip"]),
         Shown' = Top(cursor', pc'["tip"], at'["tip"]), WriteBlocks("tip")
  PROVE  \E b \in Branch : Shown' = Append(Shown, b)
<1> DEFINE l == at["tip"]
           b == Head(l.batch)
<1>1. /\ l \in Local /\ b \in Hash /\ pc["tip"] = "writeBlocks"
      /\ Moves("tip", "readStatus", l) /\ cursor' = cursor
  <2>1. pc["tip"] = "writeBlocks" /\ Apply("tip")
    BY Zenon DEF WriteBlocks, Apply, At
  <2>2. "writeBlocks" # "writeRest" /\ "writeBlocks" # "readStatus" /\ "writeBlocks" # "advance"
    OBVIOUS
  <2> QED
    BY <2>1, <2>2, ApplyEffect, Zenon
<1>2. pc'["tip"] = "readStatus" /\ at'["tip"] = l
  BY <1>1, MoveEffect, Zenon
<1>3. Shown = cursor.hash
  BY <1>1, TopIs, Zenon
<1>4. Shown' = b
  <2>1. Top(cursor, "readStatus", l) = b
    BY TopIs, Zenon
  <2> QED
    BY <1>1, <1>2, <2>1, Zenon
<1>5. Parent(b) = cursor.hash
  <2>1. Aware(cursor, "writeBlocks", l)
    BY <1>1, Zenon DEF Followed, Following
  <2>2. Aware(cursor, "writeBlocks", l) => l.hash = cursor.hash /\ Parent(b) = l.hash
    BY InPlain, AwareIs, Zenon
  <2> QED
    BY <2>1, <2>2, Zenon
<1> QED
  BY <1>1, <1>3, <1>4, <1>5, ChildOfParent, Zenon

LEMMA DeleteShortens ==
  ASSUME SharedTypes, JobTypes, Shape, "tip" \in Jobs, Followed, Shown = Top(cursor, pc["tip"], at["tip"]),
         Shown' = Top(cursor', pc'["tip"], at'["tip"]), DeleteBlocks("tip")
  PROVE  Shown' # << >> /\ IsPrefix(Shown', Shown)
<1> DEFINE l == at["tip"]
           T == cursor.hash
<1>1. /\ l \in Local /\ pc["tip"] = "deleteBlocks" /\ l.height >= 0
      /\ Moves("tip", "deleteRest", l) /\ cursor' = cursor
  <2>1. pc["tip"] = "deleteBlocks"
    BY Zenon DEF DeleteBlocks, At
  <2>2. "deleteBlocks" # "giveUp" /\ "deleteBlocks" # "deleteRest" /\ "deleteBlocks" # "moveCursor"
    OBVIOUS
  <2> QED
    BY <2>1, <2>2, RollbackEffect, Zenon
<1>2. pc'["tip"] = "deleteRest" /\ at'["tip"] = l
  BY <1>1, MoveEffect, Zenon
<1>3. Shown = T
  BY <1>1, InPlain, TopIs, Zenon
<1>4. Shown' = l.hash
  <2>1. Top(cursor, "deleteRest", l) = l.hash
    BY TopIs, Zenon
  <2> QED
    BY <1>1, <1>2, <2>1, Zenon
<1>5. l.height <= cursor.height /\ l.hash = OnChain(T, l.height) /\ Height(T) = cursor.height
  <2>1. Aware(cursor, "deleteBlocks", l) /\ Height(T) = cursor.height
    BY <1>1, Zenon DEF Followed, Following
  <2>2. Aware(cursor, "deleteBlocks", l) => l.height <= cursor.height /\ l.hash = OnChain(T, l.height)
    BY InPlain, AwareIs, Zenon
  <2> QED
    BY <2>1, <2>2, Zenon
<1>6. l.height \in 0 .. Height(T) /\ T \in Hash
  <2>1. l.height \in -1 .. MaxHeight /\ cursor.height \in -1 .. MaxHeight /\ T \in Chain
    BY <1>1, LocalTypes, CursorParts, Zenon DEF SharedTypes, Chain
  <2>2. l.height \in 0 .. cursor.height /\ cursor.height # -1
    BY <1>1, <1>5, <2>1
  <2> QED
    BY <1>5, <2>1, <2>2, ChainHeight, Zenon
<1>7. OnChain(T, l.height) # NoHash /\ IsPrefix(OnChain(T, l.height), T)
  <2> DEFINE k == l.height
  <2>1. k \in 0 .. Height(T) /\ T \in Hash
    BY <1>6
  <2> HIDE DEF k, T
  <2>2. OnChain(T, k) # NoHash /\ IsPrefix(OnChain(T, k), T)
    BY <2>1, OnChainIsHash, AncestorIsPrefix, Zenon
  <2> QED
    BY <2>2 DEF k, T
<1> QED
  BY <1>3, <1>4, <1>5, <1>7, Zenon DEF NoHash

(* While the daemon has not reorganised, a write either finds its row      *)
(* there or puts a child on top, whoever the jobs are.                     *)
LEMMA NoGaps ==
  ASSUME NEW d, NEW r, RowsOnDaemon(d, r), NEW h \in Heights, r[h] # NoHash, NEW k \in 0 .. h
  PROVE  r[k] # NoHash
<1> DEFINE gaps == {i \in 0 .. h : r[i] = NoHash}
<1>1. h \in Nat
  BY HeightsAreHeights
<1>2. CASE gaps # {}
  <2> DEFINE g == Max(gaps)
  <2>1. g \in gaps /\ \A y \in gaps : y <= g
    <3>1. gaps \subseteq 0 .. h
      OBVIOUS
    <3> HIDE DEF gaps
    <3> QED
      BY <1>1, <1>2, <3>1, GreatestNatural
  <2> HIDE DEF g
  <2>2. g \in 0 .. h /\ r[g] = NoHash /\ g # h
    BY <2>1
  <2>3. g + 1 \in 0 .. h /\ g + 1 \in Heights /\ g + 1 > 0 /\ (g + 1) - 1 = g /\ ~(g + 1 <= g)
    BY <1>1, <2>2 DEF Heights
  <2>4. r[g + 1] # NoHash
    BY <2>1, <2>3
  <2> QED
    BY <2>2, <2>3, <2>4, Zenon DEF RowsOnDaemon
<1> QED
  BY <1>2

LEMMA StraightGrows ==
  ASSUME SharedTypes, JobTypes, Shape, Straight, NEW j \in Jobs, WriteBlocks(j),
         Highest(rows, MaxRow), Highest(rows', MaxRow')
  PROVE  rows' = rows \/ \E b \in Branch : Shown' = Append(Shown, b)
<1> DEFINE l == at[j]
           b == Head(l.batch)
           n == l.height
<1>1. /\ l \in Local /\ b \in Hash /\ l.batch # << >> /\ pc[j] = "writeBlocks"
      /\ rows' = [rows EXCEPT ![Height(b)] = IF @ = NoHash THEN b ELSE @]
  <2>1. pc[j] = "writeBlocks" /\ Apply(j)
    BY Zenon DEF WriteBlocks, Apply, At
  <2>2. "writeBlocks" # "writeRest" /\ "writeBlocks" # "readStatus" /\ "writeBlocks" # "advance"
    OBVIOUS
  <2> QED
    BY <2>1, <2>2, ApplyEffect, Zenon
<1>2. n \in -1 .. MaxHeight /\ l.batch \in Seq(Hash) /\ daemon \in Hash /\ rows \in [Heights -> Hash \cup {NoHash}]
  BY <1>1, LocalTypes, Zenon DEF SharedTypes
<1>3. RowsOnDaemon(daemon, rows) /\ Place(rows, cursor, pc[j], n, l.hash) /\ Ahead(daemon, n, l.batch)
  BY Zenon DEF Straight, Sound
<1>4. b = OnChain(daemon, n + 1) /\ n + 1 \in 0 .. Height(daemon) /\ n + 1 \in Heights /\ Height(b) = n + 1
  BY <1>1, <1>2, <1>3, NextBlock, Zenon
<1>5. b # NoHash
  BY <1>1, HashIsSeq, Zenon
<1>6. n >= 0 => rows[n] # NoHash
  BY <1>3, Zenon DEF Place
<1> HIDE DEF b, n
<1>7. CASE rows[n + 1] # NoHash
  BY <1>1, <1>2, <1>4, <1>7
<1>8. CASE rows[n + 1] = NoHash
  <2>1. rows'[n + 1] = b /\ \A h \in Heights \ {n + 1} : rows'[h] = rows[h]
    BY <1>1, <1>2, <1>4, <1>8
  <2>2. MaxRow = n
    <3>1. n <= MaxRow
      <4>1. n >= 0 => n \in Heights
        BY <1>2 DEF Heights
      <4>2. n >= 0 => n <= MaxRow
        BY <1>6, <4>1, Zenon DEF Highest
      <4>3. MaxRow \in -1 .. MaxHeight
        BY Zenon DEF Highest
      <4> QED
        BY <1>2, <4>2, <4>3
    <3>2. ~(MaxRow > n)
      <4>1. SUFFICES ASSUME MaxRow > n PROVE FALSE
        OBVIOUS
      <4>2. MaxRow \in -1 .. MaxHeight
        BY Zenon DEF Highest
      <4>3. MaxRow # -1 /\ n + 1 \in 0 .. MaxRow
        BY <1>2, <4>1, <4>2
      <4>4. MaxRow \in Heights /\ rows[MaxRow] # NoHash
        BY <4>3, Zenon DEF Highest
      <4> QED
        BY <1>3, <1>8, <4>3, <4>4, NoGaps, Zenon
    <3>3. MaxRow \in -1 .. MaxHeight
      BY Zenon DEF Highest
    <3> QED
      BY <1>2, <3>1, <3>2, <3>3
  <2>3. MaxRow' = n + 1
    <3> DEFINE m == MaxRow'
    <3>1. m # -1 /\ n + 1 <= m /\ m \in Heights /\ rows'[m] # NoHash
      BY <1>4, <1>5, <2>1, Zenon DEF Highest
    <3>2. m # n + 1 => m <= MaxRow
      BY <2>1, <3>1, Zenon DEF Highest
    <3> HIDE DEF m
    <3>3. m = n + 1
      BY <1>2, <2>2, <3>1, <3>2 DEF Heights
    <3> QED
      BY <3>3 DEF m
  <2>4. Shown' = b
    <3>1. n + 1 # -1
      BY <1>2
    <3> QED
      BY <2>1, <2>3, <3>1, Zenon DEF Shown
  <2>5. Shown = Parent(b)
    <3>1. CASE n = -1
      <4>1. Height(b) = 0
        BY <1>4, <3>1
      <4> QED
        BY <1>1, <2>2, <3>1, <4>1, ParentOnChain, Zenon DEF Shown
    <3>2. CASE n # -1
      <4>1. n \in Nat /\ n \in Heights /\ n >= 0 /\ n + 1 <= Height(daemon)
        <5>1. Height(daemon) \in Nat
          BY <1>2, HashIsSeq, HeightsAreHeights, Zenon
        <5> QED
          BY <1>2, <1>4, <3>2, <5>1 DEF Heights
      <4>2. rows[n] = OnChain(daemon, n)
        BY <1>3, <1>6, <4>1, Zenon DEF RowsOnDaemon, OnDaemon
      <4>3. Parent(OnChain(daemon, n + 1)) = OnChain(daemon, n)
        BY <1>2, <4>1, NextOnChain, Zenon
      <4> QED
        BY <1>4, <2>2, <3>2, <4>2, <4>3, Zenon DEF Shown
    <3> QED
      BY <3>1, <3>2, Zenon
  <2> QED
    BY <1>1, <2>4, <2>5, ChildOfParent, Zenon
<1> QED
  BY <1>7, <1>8, Zenon

LEMMA CountsGrow ==
  ASSUME SharedTypes, [Next]_vars
  PROVE  (reorgs' = 0 => reorgs = 0) /\ (faults' = 0 => faults = 0)
<1>1. CASE DaemonReorgs
  <2>1. reorgs \in 0 .. MaxReorgs /\ reorgs' = reorgs + 1 /\ faults' = faults
    BY <1>1, Zenon DEF DaemonReorgs, SharedTypes
  <2> QED
    BY <2>1
<1>2. CASE Crash \/ \E j \in Jobs : Throws(j)
  <2>1. faults \in 0 .. MaxFaults /\ faults' = faults + 1 /\ reorgs' = reorgs
    BY <1>2, Zenon DEF Crash, Throws, SharedTypes
  <2> QED
    BY <2>1
<1>3. CASE UNCHANGED vars \/ DaemonExtends \/ Work
  BY <1>3, WorkCounts, Zenon DEF vars, DaemonExtends, counters
<1> QED
  BY <1>1, <1>2, <1>3, Zenon DEF Next

(* What is known of the rows before and after a step. *)
Mirrored ==
  /\ SharedTypes /\ JobTypes /\ Shape /\ (reorgs = 0 => Straight)
  /\ faults = 0 => Followed /\ Shown = Top(cursor, pc["tip"], at["tip"])
  /\ Highest(rows, MaxRow)

LEMMA StepMirror ==
  ASSUME Jobs = {"tip"}, Mirrored, Mirrored', [Next]_vars
  PROVE  \/ ~Undisturbed'
         \/ /\ Undisturbed
            /\ \/ Shown' = Shown
               \/ \E b \in Branch : Shown' = Append(Shown, b)
               \/ Shown' # << >> /\ IsStrictPrefix(Shown', Shown)
<1> SUFFICES ASSUME Undisturbed'
             PROVE  /\ Undisturbed
                    /\ \/ Shown' = Shown
                       \/ \E b \in Branch : Shown' = Append(Shown, b)
                       \/ Shown' # << >> /\ IsStrictPrefix(Shown', Shown)
  OBVIOUS
<1>1. SharedTypes /\ JobTypes /\ Shape /\ "tip" \in Jobs /\ \A j \in Jobs : j = "tip"
  BY DEF Mirrored
<1>2. Undisturbed /\ (faults' = 0 => faults = 0) /\ (reorgs' = 0 => reorgs = 0)
  BY <1>1, CountsGrow, Zenon DEF Undisturbed
<1>3. CASE rows' = rows
  BY <1>2, <1>3, ShownStays, Zenon
<1>4. CASE WriteBlocks("tip")
  <2>1. CASE faults' = 0
    <3>1. Followed /\ Shown = Top(cursor, pc["tip"], at["tip"]) /\ Shown' = Top(cursor', pc'["tip"], at'["tip"])
      BY <1>2, <2>1, Zenon DEF Mirrored
    <3> QED
      BY <1>1, <1>2, <1>4, <3>1, WriteGrows, Zenon
  <2>2. CASE reorgs' = 0
    <3>1. Straight /\ Highest(rows, MaxRow) /\ Highest(rows', MaxRow')
      BY <1>2, <2>2, Zenon DEF Mirrored
    <3> QED
      BY <1>1, <1>2, <1>4, <3>1, StraightGrows, ShownStays, Zenon
  <2> QED
    BY <2>1, <2>2, Zenon DEF Undisturbed
<1>5. CASE DeleteBlocks("tip")
  <2>1. CASE faults' = 0
    <3>1. Followed /\ Shown = Top(cursor, pc["tip"], at["tip"]) /\ Shown' = Top(cursor', pc'["tip"], at'["tip"])
      BY <1>2, <2>1, Zenon DEF Mirrored
    <3> QED
      BY <1>1, <1>2, <1>5, <3>1, DeleteShortens, Zenon DEF IsStrictPrefix
  <2>2. CASE reorgs' = 0
    <3>1. Straight /\ HandleReorg("tip")
      BY <1>2, <1>5, <2>2, Zenon DEF Mirrored, HandleReorg
    <3> QED
      BY <1>1, <3>1, HandleStraight, Zenon
  <2> QED
    BY <2>1, <2>2, Zenon DEF Undisturbed
<1> QED
  BY <1>1, <1>3, <1>4, <1>5, RowsChange, Zenon

(* TipFollower implements ChainMirror: through any number of               *)
(* reorganisations, what a reader of the index sees at each await is the   *)
(* same chain, a child of it or an ancestor of it, and never again no      *)
(* chain, unless a tick is cut short around a reorganisation.              *)
THEOREM MirrorsTheDaemon == Jobs = {"tip"} => (Safety => ImplementsMirror)
<1> SUFFICES ASSUME Jobs = {"tip"} PROVE Safety => ImplementsMirror
  OBVIOUS
<1> DEFINE I == SharedTypes /\ JobTypes /\ Shape /\ (reorgs = 0 => Straight)
           J == faults = 0 => Followed
<1>1. I /\ J => Mirrored
  <2> SUFFICES ASSUME I, J PROVE Mirrored
    OBVIOUS
  <2>1. SharedTypes /\ JobTypes /\ Shape /\ "tip" \in Jobs
    OBVIOUS
  <2>2. Highest(rows, MaxRow)
    <3>1. rows \in [Heights -> Hash \cup {NoHash}]
      BY <2>1, Zenon DEF SharedTypes
    <3> QED
      BY <3>1, MaxRowIs, Zenon DEF Highest
  <2>3. faults = 0 => Shown = Top(cursor, pc["tip"], at["tip"])
    BY <2>1, ShownTop, Zenon
  <2> QED
    BY <2>2, <2>3, Zenon DEF Mirrored
<1>2. Init => Mirror!Init
  BY DEF Init, Mirror!Init, Undisturbed
<1>3. Mirrored /\ Mirrored' /\ [Next]_vars => [Mirror!Next]_Mirror!vars
  <2> SUFFICES ASSUME Mirrored, Mirrored', [Next]_vars PROVE [Mirror!Next]_Mirror!vars
    OBVIOUS
  <2>1. CASE ~Undisturbed'
    BY <2>1 DEF Mirror!Next, Mirror!Lose, Undisturbed
  <2>2. CASE Undisturbed'
    <3>1. /\ Undisturbed
          /\ \/ Shown' = Shown
             \/ \E b \in Branch : Shown' = Append(Shown, b)
             \/ Shown' # << >> /\ IsStrictPrefix(Shown', Shown)
      BY <2>2, StepMirror, Zenon
    <3>2. Undisturbed = TRUE /\ Undisturbed' = TRUE
      BY <2>2, <3>1 DEF Undisturbed
    <3>3. IsStrictPrefix(Shown', Shown) => Mirror!IsStrictPrefix(Shown', Shown)
      BY Zenon DEF IsStrictPrefix, IsPrefix, Mirror!IsStrictPrefix, Mirror!IsPrefix
    <3>4. Shown' = Shown \/ Mirror!Grow \/ Mirror!RollBack
      BY <3>1, <3>3, Zenon DEF Mirror!Grow, Mirror!RollBack, Shown
    <3>5. Shown' = Shown /\ Undisturbed' = Undisturbed => UNCHANGED Mirror!vars
      BY Zenon DEF Mirror!vars, Shown
    <3> QED
      BY <3>1, <3>2, <3>4, <3>5, Zenon DEF Mirror!Next, Mirror!Move
  <2> QED
    BY <2>1, <2>2
<1>4. Safety => []I
  BY Inductive
<1>5. Safety => []J
  BY InductiveFollowed
<1> HIDE DEF I, J
<1> QED
  BY <1>1, <1>2, <1>3, <1>4, <1>5, PTL DEF Safety, ImplementsMirror, Mirror!Spec

-----------------------------------------------------------------------------
(* TipFollower alone, and one reorganisation: what a rollback deletes.     *)

(* The rows above a height are not on the daemon's chain. *)
OffAbove(d, r, n) == \A h \in Heights : h > n /\ r[h] # NoHash => r[h] # OnChain(d, h)

Abandoned(d, c) == c.hash # NoHash /\ ~OnDaemon(d, c.height, c.hash)

(* The table ends at most one row above the cursor, and below the tip of   *)
(* the daemon; if the cursor was abandoned, so was that row.               *)
Recoverable(d, c, r) ==
  /\ \A h \in Heights : r[h] # NoHash => h <= Height(d) /\ h <= c.height + 1
  /\ Height(c.hash) = c.height /\ c.height <= Height(d)
  /\ Abandoned(d, c) => OffAbove(d, r, c.height)

(* A block to apply follows the one before it, or the daemon has it. *)
Chained(d, n, b, B) ==
  \A i \in 1 .. Len(B) :
     /\ Height(B[i]) = n + i /\ n + i <= Height(d)
     /\ B[i] = OnChain(d, n + i) \/ Parent(B[i]) = (IF i = 1 THEN b ELSE B[i - 1])

(* A rollback starts from an abandoned cursor, and walks past nothing that *)
(* is on the daemon's chain.                                               *)
Retreat(d, c, r, p, l) ==
  /\ p \in Walking => l.height = c.height /\ l.hash = c.hash /\ Chained(d, l.height, l.hash, l.batch)
  /\ p \in {"getTip", "rewind", "probe", "stored", "giveUp"} => l.seen = c
  /\ p \in ApplySteps => Parent(Head(l.batch)) = l.hash
  /\ p \in HandleSteps \ {"handle"} => l.batch = << >>
  /\ p = "handle" => Abandoned(d, c)
  /\ p \in {"probe", "stored"} => OffAbove(d, r, l.probe)
  /\ p = "stored" => l.height = l.probe
  /\ p = "stored" \/ p \in Cutting => OnDaemon(d, l.height, l.hash)
  /\ p = "deleteBlocks" => OffAbove(d, r, l.height)
  /\ p \in {"deleteRest", "moveCursor"} => \A h \in Heights : h > l.height => r[h] = NoHash

Forked == Recoverable(daemon, cursor, rows) /\ Retreat(daemon, cursor, rows, pc["tip"], at["tip"])

(* Step by step, what Retreat says. *)
LEMMA RetreatWalking ==
  ASSUME NEW d, NEW c, NEW r, NEW l
  PROVE  /\ \A p \in {"getTip", "rewind"} : Retreat(d, c, r, p, l) <=>
              l.seen = c /\ l.height = c.height /\ l.hash = c.hash /\ Chained(d, l.height, l.hash, l.batch)
         /\ \A p \in {"fetch", "check"} : Retreat(d, c, r, p, l) <=>
              l.height = c.height /\ l.hash = c.hash /\ Chained(d, l.height, l.hash, l.batch)
<1>1. \A p \in {"getTip", "rewind"} : Retreat(d, c, r, p, l) <=>
        l.seen = c /\ l.height = c.height /\ l.hash = c.hash /\ Chained(d, l.height, l.hash, l.batch)
  BY DEF Retreat, Walking, Cutting, ApplySteps, HandleSteps
<1>2. \A p \in {"fetch", "check"} : Retreat(d, c, r, p, l) <=>
        l.height = c.height /\ l.hash = c.hash /\ Chained(d, l.height, l.hash, l.batch)
  BY DEF Retreat, Walking, Cutting, ApplySteps, HandleSteps
<1> QED
  BY <1>1, <1>2, Zenon

LEMMA RetreatApplying ==
  ASSUME NEW d, NEW c, NEW r, NEW l, NEW p \in ApplySteps
  PROVE  Retreat(d, c, r, p, l) <=>
           /\ l.height = c.height /\ l.hash = c.hash /\ Chained(d, l.height, l.hash, l.batch)
           /\ Parent(Head(l.batch)) = l.hash
  BY DEF Retreat, Walking, Cutting, ApplySteps, HandleSteps

LEMMA RetreatHandling ==
  ASSUME NEW d, NEW c, NEW r, NEW l
  PROVE  /\ Retreat(d, c, r, "idle", l)
         /\ Retreat(d, c, r, "handle", l) <=> Abandoned(d, c)
         /\ Retreat(d, c, r, "probe", l) <=> l.seen = c /\ l.batch = << >> /\ OffAbove(d, r, l.probe)
         /\ Retreat(d, c, r, "stored", l) <=>
              /\ l.seen = c /\ l.batch = << >> /\ OffAbove(d, r, l.probe)
              /\ l.height = l.probe /\ OnDaemon(d, l.height, l.hash)
         /\ Retreat(d, c, r, "giveUp", l) <=> l.seen = c /\ l.batch = << >>
         /\ Retreat(d, c, r, "deleteBlocks", l) <=>
              l.batch = << >> /\ OnDaemon(d, l.height, l.hash) /\ OffAbove(d, r, l.height)
         /\ \A p \in {"deleteRest", "moveCursor"} : Retreat(d, c, r, p, l) <=>
              /\ l.batch = << >> /\ OnDaemon(d, l.height, l.hash)
              /\ \A h \in Heights : h > l.height => r[h] = NoHash
<1>1. Retreat(d, c, r, "idle", l)
  BY DEF Retreat, Walking, Cutting, ApplySteps, HandleSteps
<1>5. Retreat(d, c, r, "handle", l) <=> Abandoned(d, c)
  BY DEF Retreat, Walking, Cutting, ApplySteps, HandleSteps
<1>6. Retreat(d, c, r, "probe", l) <=> l.seen = c /\ l.batch = << >> /\ OffAbove(d, r, l.probe)
  BY DEF Retreat, Walking, Cutting, ApplySteps, HandleSteps
<1>7. Retreat(d, c, r, "stored", l) <=>
        /\ l.seen = c /\ l.batch = << >> /\ OffAbove(d, r, l.probe)
        /\ l.height = l.probe /\ OnDaemon(d, l.height, l.hash)
  BY DEF Retreat, Walking, Cutting, ApplySteps, HandleSteps
<1>8. Retreat(d, c, r, "giveUp", l) <=> l.seen = c /\ l.batch = << >>
  BY DEF Retreat, Walking, Cutting, ApplySteps, HandleSteps
<1>9. Retreat(d, c, r, "deleteBlocks", l) <=>
        l.batch = << >> /\ OnDaemon(d, l.height, l.hash) /\ OffAbove(d, r, l.height)
  BY DEF Retreat, Walking, Cutting, ApplySteps, HandleSteps
<1>10. \A p \in {"deleteRest", "moveCursor"} : Retreat(d, c, r, p, l) <=>
         /\ l.batch = << >> /\ OnDaemon(d, l.height, l.hash)
         /\ \A h \in Heights : h > l.height => r[h] = NoHash
  BY DEF Retreat, Walking, Cutting, ApplySteps, HandleSteps
<1> QED
  BY <1>1, <1>5, <1>6, <1>7, <1>8, <1>9, <1>10, Zenon

LEMMA ForkedMoves ==
  ASSUME JobTypes, "tip" \in Jobs, NEW s, NEW m, Moves("tip", s, m),
         Recoverable(daemon', cursor', rows'), Retreat(daemon', cursor', rows', s, m)
  PROVE  Forked'
<1>1. pc'["tip"] = s /\ at'["tip"] = m
  BY MoveEffect, Zenon
<1> QED
  BY <1>1, Zenon DEF Forked

(* Only the locals change. *)
LEMMA ForkedQuiet ==
  ASSUME JobTypes, "tip" \in Jobs, Forked, NEW s, NEW m, Moves("tip", s, m), UNCHANGED <<daemon, rows, cursor>>,
         Retreat(daemon, cursor, rows, s, m)
  PROVE  Forked'
<1>1. Recoverable(daemon', cursor', rows') /\ Retreat(daemon', cursor', rows', s, m)
  BY Zenon DEF Forked
<1> QED
  BY <1>1, ForkedMoves, Zenon

(* The daemon extends its chain: what is on it, and what is not, stays so. *)
LEMMA RetreatKept ==
  ASSUME NEW d \in Hash, NEW e \in Hash, Height(d) <= Height(e),
         \A h \in 0 .. Height(d) : OnChain(e, h) = OnChain(d, h),
         NEW c \in Cursors, NEW r, Recoverable(d, c, r), NEW p, NEW l \in Local, Shaped(p, l), Retreat(d, c, r, p, l)
  PROVE  Recoverable(e, c, r) /\ Retreat(e, c, r, p, l)
<1>1. Height(d) \in Nat /\ Height(e) \in Nat /\ c.height \in -1 .. MaxHeight /\ l.height \in -1 .. MaxHeight
      /\ l.batch \in Seq(Hash) /\ c.hash \in Chain
  BY HashIsSeq, HeightsAreHeights, CursorParts, LocalTypes, Zenon DEF Chain
<1>2. \A h \in Heights : h \in Nat
  BY DEF Heights
<1>3. \A h \in Heights : r[h] # NoHash => h <= Height(d) /\ h <= c.height + 1
  BY Zenon DEF Recoverable
<1>4. \A h \in Heights : r[h] # NoHash => h <= Height(e) /\ OnChain(e, h) = OnChain(d, h)
  BY <1>1, <1>2, <1>3
<1>5. \A n : OffAbove(d, r, n) => OffAbove(e, r, n)
  BY <1>4, Zenon DEF OffAbove
<1>6. ASSUME NEW n \in Nat, NEW b PROVE n <= Height(d) => (OnDaemon(d, n, b) <=> OnDaemon(e, n, b))
  BY <1>1 DEF OnDaemon
<1>7. Height(c.hash) = c.height /\ c.height <= Height(d) /\ c.height <= Height(e)
  BY <1>1 DEF Recoverable
<1>8. c.hash # NoHash => c.height \in Nat
  <2>1. c.hash # NoHash => c.hash \in Hash
    BY <1>1, Zenon DEF Chain
  <2> QED
    BY <1>7, <2>1, HashIsSeq, HeightsAreHeights, Zenon
<1>9. Abandoned(d, c) <=> Abandoned(e, c)
  BY <1>6, <1>7, <1>8, Zenon DEF Abandoned
<1>10. Recoverable(e, c, r)
  BY <1>3, <1>4, <1>5, <1>7, <1>9, Zenon DEF Recoverable
<1>11. Chained(d, l.height, l.hash, l.batch) => Chained(e, l.height, l.hash, l.batch)
  <2> SUFFICES ASSUME Chained(d, l.height, l.hash, l.batch), NEW i \in 1 .. Len(l.batch)
               PROVE  /\ Height(l.batch[i]) = l.height + i /\ l.height + i <= Height(e)
                      /\ \/ l.batch[i] = OnChain(e, l.height + i)
                         \/ Parent(l.batch[i]) = (IF i = 1 THEN l.hash ELSE l.batch[i - 1])
    BY Zenon DEF Chained
  <2> DEFINE n == l.height + i
  <2>1. /\ Height(l.batch[i]) = n /\ n <= Height(d)
        /\ l.batch[i] = OnChain(d, n) \/ Parent(l.batch[i]) = (IF i = 1 THEN l.hash ELSE l.batch[i - 1])
    BY Zenon DEF Chained
  <2>2. n \in Int /\ l.height >= -1 /\ i >= 1
    BY <1>1
  <2>3. n \in 0 .. Height(d) /\ n <= Height(e)
    BY <1>1, <2>1, <2>2
  <2>4. OnChain(e, n) = OnChain(d, n)
    BY <2>3
  <2> QED
    BY <2>1, <2>3, <2>4, Zenon
<1>12. p = "stored" \/ p \in Cutting => OnDaemon(e, l.height, l.hash)
  <2> SUFFICES ASSUME p = "stored" \/ p \in Cutting PROVE OnDaemon(e, l.height, l.hash)
    OBVIOUS
  <2>1. OnDaemon(d, l.height, l.hash) /\ l.height >= 0
    BY Zenon DEF Retreat, Shaped, Cutting
  <2>2. l.height \in Nat /\ l.height <= Height(d)
    BY <1>1, <2>1 DEF OnDaemon
  <2> QED
    BY <1>6, <2>1, <2>2, Zenon
<1>13. Retreat(e, c, r, p, l)
  BY <1>5, <1>9, <1>11, <1>12, Zenon DEF Retreat
<1> QED
  BY <1>10, <1>13, Zenon

(* The daemon leaves a chain the index was on: of the rows, those above    *)
(* an abandoned one are abandoned too.                                     *)
LEMMA RetreatBegins ==
  ASSUME SharedTypes, JobTypes, Straight, Forked, "tip" \in Jobs, NEW e \in Hash, Height(daemon) <= Height(e)
  PROVE  Recoverable(e, cursor, rows) /\ Retreat(e, cursor, rows, pc["tip"], at["tip"])
<1> DEFINE d == daemon
           c == cursor
           l == at["tip"]
           p == pc["tip"]
<1>1. /\ d \in Hash /\ Height(d) \in Nat /\ Height(e) \in Nat /\ c \in Cursors /\ c.height \in -1 .. MaxHeight
      /\ c.hash \in Chain /\ l \in Local /\ l.height \in -1 .. MaxHeight /\ l.batch \in Seq(Hash)
  BY HashIsSeq, HeightsAreHeights, CursorParts, LocalTypes, Zenon DEF SharedTypes, JobTypes, Chain
<1>2. \A h \in Heights : h \in Nat
  BY DEF Heights
<1>3. /\ \A h \in Heights : rows[h] # NoHash => h <= Height(d) /\ h <= c.height + 1
      /\ Height(c.hash) = c.height /\ c.height <= Height(d)
  BY Zenon DEF Forked, Recoverable
<1>4. \A h \in Heights : rows[h] # NoHash => h \in 0 .. Height(d) /\ h <= Height(e) /\ rows[h] = OnChain(d, h)
  <2>1. \A h \in Heights : rows[h] # NoHash => rows[h] = OnChain(d, h)
    BY Zenon DEF Straight, RowsOnDaemon, OnDaemon
  <2> QED
    BY <1>1, <1>2, <1>3, <2>1
<1>5. c.hash # NoHash => c.height \in Heights /\ c.hash = OnChain(d, c.height)
  <2>1. c.hash # NoHash => c.height \in Heights /\ c.hash = rows[c.height]
    BY CursorParts, Zenon DEF Straight, Names
  <2> QED
    BY <1>4, <2>1, Zenon
<1>6. ASSUME Abandoned(e, c), NEW h \in Heights, h > c.height, rows[h] # NoHash, rows[h] = OnChain(e, h)
      PROVE  FALSE
  <2>1. c.height \in Nat /\ c.hash = OnChain(d, c.height)
    BY <1>2, <1>5, <1>6, Zenon DEF Abandoned
  <2>2. h \in 0 .. Height(d) /\ h \in 0 .. Height(e) /\ c.height \in 0 .. h /\ c.height <= Height(e)
    BY <1>1, <1>2, <1>4, <1>6, <2>1
  <2>3. OnChain(OnChain(d, h), c.height) = OnChain(d, c.height)
    BY <1>1, <2>2, OnChainTwice, Zenon
  <2>4. OnChain(OnChain(e, h), c.height) = OnChain(e, c.height)
    BY <2>2, OnChainTwice, Zenon
  <2>5. OnChain(d, h) = OnChain(e, h)
    BY <1>4, <1>6, Zenon
  <2>6. c.hash = OnChain(e, c.height)
    BY <2>1, <2>3, <2>4, <2>5, Zenon
  <2> QED
    BY <1>6, <2>2, <2>6, Zenon DEF Abandoned, OnDaemon
<1>7. Recoverable(e, c, rows)
  <2>1. c.height <= Height(e)
    BY <1>1, <1>3
  <2> QED
    BY <1>3, <1>4, <1>6, <2>1, Zenon DEF Recoverable, OffAbove
<1>8. ASSUME p \in Walking PROVE Chained(e, l.height, l.hash, l.batch)
  <2>1. l.height = c.height /\ l.hash = c.hash
    BY <1>8, Zenon DEF Forked, Retreat
  <2>2. \A i \in 1 .. Len(l.batch) : l.height + i <= Height(d) /\ l.batch[i] = OnChain(d, l.height + i)
    BY Zenon DEF Straight, Sound, Ahead, OnDaemon
  <2> SUFFICES ASSUME NEW i \in 1 .. Len(l.batch)
               PROVE  /\ Height(l.batch[i]) = l.height + i /\ l.height + i <= Height(e)
                      /\ Parent(l.batch[i]) = (IF i = 1 THEN l.hash ELSE l.batch[i - 1])
    BY Zenon DEF Chained
  <2> DEFINE n == l.height + i
  <2>3. n \in 0 .. Height(d) /\ n <= Height(e) /\ i \in Nat
    BY <1>1, <2>2
  <2>4. Height(l.batch[i]) = n /\ l.batch[i] \in Hash
    <3>1. OnChain(d, n) \in Hash /\ Height(OnChain(d, n)) = n
      BY <1>1, <2>3, OnChainIsHash
    <3> QED
      BY <2>2, <3>1, Zenon
  <2>5. CASE i = 1 /\ l.height = -1
    <3>1. l.hash = NoHash
      BY <1>1, <1>3, <2>1, <2>5, ChainHeight, Zenon
    <3>2. n = 0
      BY <2>5
    <3>3. Parent(l.batch[i]) = NoHash
      BY <2>4, <3>2, ParentOnChain, Zenon
    <3> QED
      BY <2>3, <2>4, <2>5, <3>1, <3>3, Zenon
  <2>6. CASE i = 1 /\ l.height # -1
    <3>1. l.hash # NoHash
      BY <1>1, <1>3, <2>1, <2>6, ChainHeight, Zenon
    <3>2. l.height \in Nat /\ l.height + 1 = n /\ l.hash = OnChain(d, l.height)
      BY <1>2, <1>5, <2>1, <2>6, <3>1, Zenon
    <3>3. Parent(OnChain(d, l.height + 1)) = OnChain(d, l.height)
      BY <1>1, <2>3, <3>2, NextOnChain
    <3> QED
      BY <2>2, <2>3, <2>4, <2>6, <3>2, <3>3, Zenon
  <2>7. CASE i # 1
    <3>0. Len(l.batch) \in Nat /\ l.height \in Int /\ l.height >= -1
      BY <1>1
    <3>1. i - 1 \in 1 .. Len(l.batch) /\ n - 1 \in Nat /\ (n - 1) + 1 = n /\ l.height + (i - 1) = n - 1
      BY <2>3, <2>7, <3>0
    <3>2. Parent(OnChain(d, (n - 1) + 1)) = OnChain(d, n - 1)
      BY <1>1, <2>3, <3>1, NextOnChain
    <3>3. l.batch[i - 1] = OnChain(d, n - 1)
      BY <2>2, <3>1, Zenon
    <3> QED
      BY <2>2, <2>3, <2>4, <2>7, <3>1, <3>2, <3>3, Zenon
  <2> QED
    BY <2>5, <2>6, <2>7, Zenon
<1>9. p \notin HandleSteps
  BY Zenon DEF Straight, Sound
<1>10. p # "handle" /\ p \notin {"probe", "stored"} /\ p # "stored" /\ p \notin Cutting
       /\ p # "deleteBlocks" /\ p \notin {"deleteRest", "moveCursor"}
  BY <1>9 DEF HandleSteps, Cutting
<1>11. Retreat(e, c, rows, p, l)
  BY <1>8, <1>9, <1>10, Zenon DEF Forked, Retreat
<1> QED
  BY <1>7, <1>11, Zenon

LEMMA ApplyForked ==
  ASSUME SharedTypes, JobTypes, Shape, Forked, "tip" \in Jobs, Apply("tip")
  PROVE  Forked'
<1> DEFINE l == at["tip"]
           b == Head(l.batch)
           c == cursor
           d == daemon
<1>1. /\ l \in Local /\ b \in Hash /\ l.batch # << >> /\ pc["tip"] \in ApplySteps /\ UNCHANGED daemon
      /\ \/ /\ pc["tip"] = "writeRest" /\ Moves("tip", "writeBlocks", l) /\ UNCHANGED <<rows, cursor>>
         \/ /\ pc["tip"] = "writeBlocks" /\ Moves("tip", "readStatus", l) /\ UNCHANGED <<extras, cursor>>
            /\ rows' = [rows EXCEPT ![Height(b)] = IF @ = NoHash THEN b ELSE @]
         \/ /\ pc["tip"] = "readStatus" /\ UNCHANGED <<rows, extras, cursor>>
            /\ \E m : /\ Moves("tip", "advance", m)
                      /\ Fields(m, cursor, l.height, l.hash, l.goal, l.batch, l.stored, l.probe)
         \/ /\ pc["tip"] = "advance" /\ UNCHANGED <<rows, extras>>
            /\ cursor' = Cursor(Height(b), b, l.seen.status)
            /\ \E m : /\ Moves("tip", ApplyTo("tip"), m)
                      /\ Fields(m, l.seen, Height(b), b, l.goal, Tail(l.batch), l.stored, l.probe)
  BY ApplyEffect, Zenon
<1>2. /\ d \in Hash /\ Height(d) \in Nat /\ c.height \in -1 .. MaxHeight /\ c.hash \in Chain
      /\ l.batch \in Seq(Hash) /\ rows \in [Heights -> Hash \cup {NoHash}]
  BY <1>1, HashIsSeq, HeightsAreHeights, CursorParts, LocalTypes, Zenon DEF SharedTypes, Chain
<1>3. Recoverable(d, c, rows) /\ Retreat(d, c, rows, pc["tip"], l)
  BY Zenon DEF Forked
<1>4. /\ l.height = c.height /\ l.hash = c.hash /\ Chained(d, l.height, l.hash, l.batch)
      /\ Parent(b) = l.hash
  <2>1. pc["tip"] \in ApplySteps
    BY <1>1, Zenon
  <2> QED
    BY <1>3, <2>1, RetreatApplying
<1>5. Height(b) = c.height + 1 /\ Height(b) <= Height(d) /\ Height(b) \in Heights
  <2>1. 1 \in 1 .. Len(l.batch) /\ l.batch[1] = b
    BY <1>1, <1>2
  <2>2. Height(b) = l.height + 1 /\ l.height + 1 <= Height(d)
    BY <1>4, <2>1, Zenon DEF Chained
  <2> QED
    BY <1>1, <1>4, <2>2, HashIsSeq, Zenon
<1>6. ASSUME NEW s \in ApplySteps, NEW r, NEW m, m.height = l.height, m.hash = l.hash, m.batch = l.batch
      PROVE  Retreat(d, c, r, s, m)
  BY <1>4, <1>6, RetreatApplying
<1>7. CASE pc["tip"] = "writeRest"
  <2>1. Moves("tip", "writeBlocks", l) /\ UNCHANGED <<daemon, rows, cursor>>
    BY <1>1, <1>7, Zenon
  <2>2. Retreat(d, c, rows, "writeBlocks", l)
    BY <1>6, InPlain, Zenon
  <2> QED
    BY <2>1, <2>2, ForkedQuiet, Zenon
<1>8. CASE pc["tip"] = "writeBlocks"
  <2>1. /\ Moves("tip", "readStatus", l) /\ UNCHANGED <<daemon, cursor>>
        /\ rows' = [rows EXCEPT ![Height(b)] = IF @ = NoHash THEN b ELSE @]
    BY <1>1, <1>8, Zenon
  <2>2. \A h \in Heights : rows'[h] = rows[h] \/ (h = Height(b) /\ rows'[h] = b)
    BY <1>2, <2>1, Zenon
  <2>3. \A h \in Heights : rows'[h] # NoHash => h <= Height(d) /\ h <= c.height + 1
    <3>1. Height(b) <= c.height + 1
      BY <1>2, <1>5
    <3> QED
      BY <1>3, <1>5, <2>2, <3>1, Zenon DEF Recoverable
  <2>4. ASSUME Abandoned(d, c), b = OnChain(d, Height(b)) PROVE FALSE
    <3>1. c.hash # NoHash /\ c.height <= Height(d) /\ Height(c.hash) = c.height
      BY <1>3, <2>4, Zenon DEF Abandoned, Recoverable
    <3>2. c.height \in Nat
      BY <1>2, <3>1, ChainHeight, HeightsAreHeights, Zenon
    <3>3. Parent(OnChain(d, c.height + 1)) = OnChain(d, c.height)
      BY <1>2, <1>5, <3>2, NextOnChain
    <3>4. c.hash = OnChain(d, c.height)
      BY <1>4, <1>5, <2>4, <3>3, Zenon
    <3> QED
      BY <2>4, <3>1, <3>4, Zenon DEF Abandoned, OnDaemon
  <2>5. Recoverable(d, c, rows')
    BY <1>3, <2>2, <2>3, <2>4, Zenon DEF Recoverable, OffAbove
  <2>6. Retreat(d, c, rows', "readStatus", l)
    BY <1>6, InPlain, Zenon
  <2> QED
    BY <2>1, <2>5, <2>6, ForkedMoves, Zenon
<1>9. CASE pc["tip"] = "readStatus"
  <2>1. PICK m : /\ Moves("tip", "advance", m) /\ UNCHANGED <<daemon, rows, cursor>>
                 /\ m.height = l.height /\ m.hash = l.hash /\ m.batch = l.batch
    BY <1>1, <1>9, Zenon DEF Fields
  <2>2. Retreat(d, c, rows, "advance", m)
    BY <1>6, <2>1, InPlain, Zenon
  <2> QED
    BY <2>1, <2>2, ForkedQuiet, Zenon
<1>10. CASE pc["tip"] = "advance"
  <2>1. PICK m : /\ Moves("tip", "check", m) /\ UNCHANGED <<daemon, rows>>
                 /\ cursor' = Cursor(Height(b), b, l.seen.status)
                 /\ m.height = Height(b) /\ m.hash = b /\ m.batch = Tail(l.batch)
    <3>1. ApplyTo("tip") = "check"
      BY DEF ApplyTo
    <3> QED
      BY <1>1, <1>10, <3>1, Zenon DEF Fields
  <2>2. cursor'.height = Height(b) /\ cursor'.hash = b
    BY <2>1 DEF Cursor
  <2>3. Recoverable(d, cursor', rows)
    <3>1. \A h \in Heights : rows[h] # NoHash => h <= Height(d) /\ h <= Height(b) /\ h <= Height(b) + 1 /\ ~(h > Height(b))
      <4>1. \A h \in Heights : rows[h] # NoHash => h <= Height(d) /\ h <= c.height + 1
        BY <1>3, Zenon DEF Recoverable
      <4> QED
        BY <1>2, <1>5, <4>1 DEF Heights
    <3> QED
      BY <1>5, <2>2, <3>1, Zenon DEF Recoverable, OffAbove
  <2>4. Chained(d, Height(b), b, Tail(l.batch))
    <3> DEFINE B == l.batch
               T == Tail(l.batch)
    <3>1. \A i \in 1 .. Len(T) : /\ T[i] = B[i + 1] /\ i + 1 \in 1 .. Len(B) /\ i \in Int /\ i + 1 # 1 /\ (i + 1) - 1 = i
                                 /\ c.height + (i + 1) = Height(b) + i
      <4>1. B # << >> /\ B \in Seq(Hash)
        BY <1>1, <1>2, Zenon
      <4> HIDE DEF b
      <4>2. \A i \in 1 .. Len(T) : T[i] = B[i + 1] /\ i + 1 \in 1 .. Len(B) /\ i \in Int /\ i >= 1
        BY <4>1
      <4>3. \A i \in Int : i >= 1 => i + 1 # 1 /\ (i + 1) - 1 = i /\ c.height + (i + 1) = Height(b) + i
        BY <1>2, <1>5
      <4> QED
        BY <4>2, <4>3, Zenon
    <3>2. \A i \in 1 .. Len(T) : i # 1 => B[i] = T[i - 1]
      BY <1>1, <1>2
    <3>3. B[1] = b
      BY <1>1, <1>2
    <3>4. \A i \in 1 .. Len(B) :
            /\ Height(B[i]) = c.height + i /\ c.height + i <= Height(d)
            /\ B[i] = OnChain(d, c.height + i) \/ Parent(B[i]) = (IF i = 1 THEN l.hash ELSE B[i - 1])
      BY <1>4, Zenon DEF Chained
    <3> HIDE DEF B, T
    <3>5. ASSUME NEW i \in 1 .. Len(T)
          PROVE  /\ Height(T[i]) = Height(b) + i /\ Height(b) + i <= Height(d)
                 /\ T[i] = OnChain(d, Height(b) + i) \/ Parent(T[i]) = (IF i = 1 THEN b ELSE T[i - 1])
      <4>1. /\ Height(B[i + 1]) = c.height + (i + 1) /\ c.height + (i + 1) <= Height(d)
            /\ B[i + 1] = OnChain(d, c.height + (i + 1)) \/ Parent(B[i + 1]) = B[(i + 1) - 1]
        BY <3>1, <3>4, Zenon
      <4>2. Parent(B[i + 1]) = B[(i + 1) - 1] => Parent(T[i]) = (IF i = 1 THEN b ELSE T[i - 1])
        BY <3>1, <3>2, <3>3, Zenon
      <4> QED
        BY <3>1, <4>1, <4>2, Zenon
    <3> QED
      BY <3>5, Zenon DEF Chained, T
  <2>5. Retreat(d, cursor', rows, "check", m)
    BY <1>4, <2>1, <2>2, <2>4, RetreatWalking
  <2>6. Recoverable(daemon', cursor', rows') /\ Retreat(daemon', cursor', rows', "check", m)
    BY <2>1, <2>3, <2>5, Zenon
  <2> QED
    BY <2>1, <2>6, ForkedMoves, Zenon
<1> QED
  BY <1>1, <1>7, <1>8, <1>9, <1>10, Zenon

LEMMA HandleForked ==
  ASSUME SharedTypes, JobTypes, Shape, Forked, "tip" \in Jobs, HandleReorg("tip")
  PROVE  Forked'
<1> DEFINE l == at["tip"]
           c == cursor
           d == daemon
<1>1. /\ d \in Hash /\ Height(d) \in Nat /\ c.height \in -1 .. MaxHeight /\ c.hash \in Chain
      /\ l \in Local /\ l.probe \in -1 .. MaxHeight /\ rows \in [Heights -> Hash \cup {NoHash}]
  BY HashIsSeq, HeightsAreHeights, CursorParts, LocalTypes, Zenon DEF SharedTypes, JobTypes, Chain
<1>2. Recoverable(d, c, rows) /\ Retreat(d, c, rows, pc["tip"], l)
  BY Zenon DEF Forked
<1>0. \A m : Retreat(daemon', cursor', rows', "idle", m)
  BY RetreatHandling, Zenon
<1>3. \A m : Moves("tip", "idle", m) /\ UNCHANGED <<daemon, rows, cursor>> => Forked'
  <2>1. \A m : Retreat(d, c, rows, "idle", m)
    BY RetreatHandling, Zenon
  <2> QED
    BY <2>1, ForkedQuiet, Zenon
<1>4. CASE Handle("tip")
  <2>1. /\ pc["tip"] = "handle" /\ UNCHANGED <<daemon, rows, cursor>>
        /\ \/ Moves("tip", "idle", Idle)
           \/ \E m : Moves("tip", "probe", m) /\ m.seen = c /\ m.batch = << >> /\ m.probe = c.height
    BY <1>4, HandleEffect, Zenon DEF Fields
  <2>2. OffAbove(d, rows, c.height)
    <3>1. Abandoned(d, c)
      BY <1>2, <2>1, RetreatHandling
    <3> QED
      BY <1>2, <3>1, Zenon DEF Recoverable
  <2>3. \A m : m.seen = c /\ m.batch = << >> /\ m.probe = c.height => Retreat(d, c, rows, "probe", m)
    BY <2>2, RetreatHandling, Zenon
  <2> QED
    BY <1>3, <2>1, <2>3, ForkedQuiet, Zenon
<1>5. CASE Probe("tip")
  <2>1. /\ pc["tip"] = "probe" /\ UNCHANGED <<daemon, rows, cursor>>
        /\ \/ Moves("tip", "giveUp", l)
           \/ Moves("tip", "idle", Idle)
           \/ /\ l.probe \in 0 .. Height(d)
              /\ \E m : /\ Moves("tip", "stored", m)
                        /\ m.seen = l.seen /\ m.height = l.probe /\ m.hash = OnChain(d, l.probe)
                        /\ m.batch = l.batch /\ m.probe = l.probe
    BY <1>5, ProbeEffect, Zenon DEF Fields
  <2>2. l.seen = c /\ l.batch = << >> /\ OffAbove(d, rows, l.probe)
    BY <1>2, <2>1, RetreatHandling
  <2>3. Retreat(d, c, rows, "giveUp", l)
    BY <2>2, RetreatHandling, Zenon
  <2>4. ASSUME l.probe \in 0 .. Height(d), NEW m, m.seen = l.seen, m.height = l.probe, m.hash = OnChain(d, l.probe),
               m.batch = l.batch, m.probe = l.probe
        PROVE  Retreat(d, c, rows, "stored", m)
    <3>1. OnDaemon(d, m.height, m.hash)
      BY <1>1, <2>4 DEF OnDaemon
    <3> QED
      BY <2>2, <2>4, <3>1, RetreatHandling, Zenon
  <2> QED
    BY <1>3, <2>1, <2>3, <2>4, ForkedQuiet, Zenon
<1>6. CASE Stored("tip")
  <2>1. /\ pc["tip"] = "stored" /\ UNCHANGED <<daemon, rows, cursor>> /\ l.probe \in Heights
        /\ \/ rows[l.probe] = l.hash /\ Moves("tip", "deleteBlocks", l)
           \/ /\ rows[l.probe] # l.hash
              /\ \E m : Moves("tip", "probe", m) /\ m.seen = l.seen /\ m.batch = l.batch /\ m.probe = l.probe - 1
    BY <1>6, StoredEffect, Zenon DEF Fields
  <2>2. /\ l.seen = c /\ l.batch = << >> /\ OffAbove(d, rows, l.probe) /\ l.height = l.probe
        /\ OnDaemon(d, l.height, l.hash)
    BY <1>2, <2>1, RetreatHandling
  <2>3. Retreat(d, c, rows, "deleteBlocks", l)
    BY <2>2, RetreatHandling, Zenon
  <2>4. ASSUME rows[l.probe] # l.hash PROVE OffAbove(d, rows, l.probe - 1)
    <3>1. l.hash = OnChain(d, l.probe)
      BY <2>2, Zenon DEF OnDaemon
    <3>2. \A h \in Heights : h > l.probe - 1 => h > l.probe \/ h = l.probe
      BY <2>1 DEF Heights
    <3> QED
      BY <2>2, <2>4, <3>1, <3>2, Zenon DEF OffAbove
  <2>5. ASSUME NEW m, rows[l.probe] # l.hash, m.seen = l.seen, m.batch = l.batch, m.probe = l.probe - 1
        PROVE  Retreat(d, c, rows, "probe", m)
    <3>1. OffAbove(d, rows, m.probe)
      BY <2>4, <2>5, Zenon
    <3> QED
      BY <2>2, <2>5, <3>1, RetreatHandling
  <2> QED
    BY <2>1, <2>3, <2>5, ForkedQuiet, Zenon
<1>7. CASE GiveUp("tip") \/ DeleteBlocks("tip") \/ DeleteRest("tip") \/ MoveCursor("tip")
  <2>1. /\ UNCHANGED daemon
        /\ \/ /\ pc["tip"] = "giveUp" /\ Moves("tip", "idle", Idle) /\ UNCHANGED <<rows, extras>>
              /\ cursor' = [l.seen EXCEPT !.status = "reorg"]
           \/ /\ pc["tip"] = "deleteBlocks" /\ l.height >= 0 /\ Moves("tip", "deleteRest", l) /\ UNCHANGED <<extras, cursor>>
              /\ rows' = [h \in Heights |-> IF h > l.height THEN NoHash ELSE rows[h]]
           \/ /\ pc["tip"] = "deleteRest" /\ l.height >= 0 /\ Moves("tip", "moveCursor", l) /\ UNCHANGED <<rows, cursor>>
              /\ extras' = {b \in extras : Height(b) <= l.height}
           \/ /\ pc["tip"] = "moveCursor" /\ l.height >= 0 /\ UNCHANGED <<rows, extras>>
              /\ cursor' = Cursor(l.height, l.hash, "live") /\ Moves("tip", "check", l)
    BY <1>7, RollbackEffect, Zenon
  <2>2. CASE pc["tip"] = "giveUp"
    <3>1. UNCHANGED <<daemon, rows>> /\ Moves("tip", "idle", Idle) /\ cursor' = [l.seen EXCEPT !.status = "reorg"]
      BY <2>1, <2>2, Zenon
    <3>2. l.seen = c
      BY <1>2, <2>2, RetreatHandling
    <3>3. cursor'.height = c.height /\ cursor'.hash = c.hash
      <4>1. cursor \in Cursors /\ "reorg" \in Status
        BY Zenon DEF SharedTypes, Status
      <4> QED
        BY <3>1, <3>2, <4>1, CursorMarked, Zenon
    <3>4. Recoverable(daemon', cursor', rows')
      BY <1>2, <3>1, <3>3, Zenon DEF Recoverable, Abandoned
    <3> QED
      BY <1>0, <3>1, <3>4, ForkedMoves, Zenon
  <2>3. CASE pc["tip"] = "deleteBlocks"
    <3>1. /\ Moves("tip", "deleteRest", l) /\ UNCHANGED <<daemon, cursor>>
          /\ rows' = [h \in Heights |-> IF h > l.height THEN NoHash ELSE rows[h]]
      BY <2>1, <2>3, Zenon
    <3>2. l.batch = << >> /\ OnDaemon(d, l.height, l.hash)
      BY <1>2, <2>3, RetreatHandling
    <3>3. /\ \A h \in Heights : rows'[h] # NoHash => rows'[h] = rows[h]
          /\ \A h \in Heights : h > l.height => rows'[h] = NoHash
      BY <3>1, Zenon
    <3>4. Recoverable(d, c, rows')
      BY <1>2, <3>3, Zenon DEF Recoverable, OffAbove
    <3>5. Retreat(d, c, rows', "deleteRest", l)
      BY <3>2, <3>3, RetreatHandling, Zenon
    <3> QED
      BY <3>1, <3>4, <3>5, ForkedMoves, Zenon
  <2>4. CASE pc["tip"] = "deleteRest"
    <3>1. Moves("tip", "moveCursor", l) /\ UNCHANGED <<daemon, rows, cursor>>
      BY <2>1, <2>4, Zenon
    <3>2. Retreat(d, c, rows, "moveCursor", l)
      BY <1>2, <2>4, RetreatHandling
    <3> QED
      BY <3>1, <3>2, ForkedQuiet, Zenon
  <2>5. CASE pc["tip"] = "moveCursor"
    <3>1. /\ l.height >= 0 /\ UNCHANGED <<daemon, rows>>
          /\ cursor' = Cursor(l.height, l.hash, "live") /\ Moves("tip", "check", l)
      BY <2>1, <2>5, Zenon
    <3>2. l.batch = << >> /\ OnDaemon(d, l.height, l.hash) /\ \A h \in Heights : h > l.height => rows[h] = NoHash
      BY <1>2, <2>5, RetreatHandling
    <3>3. cursor'.height = l.height /\ cursor'.hash = l.hash
      BY <3>1 DEF Cursor
    <3>4. l.height <= Height(d) /\ l.height \in 0 .. Height(d) /\ Height(l.hash) = l.height
      <4>1. l.height \in -1 .. MaxHeight /\ l.height <= Height(d) /\ l.hash = OnChain(d, l.height)
        BY <1>1, <3>2, LocalTypes, Zenon DEF OnDaemon
      <4>2. l.height \in 0 .. Height(d)
        BY <1>1, <3>1, <4>1
      <4> QED
        BY <1>1, <4>1, <4>2, OnChainIsHash
    <3>5. \A h \in Heights : h <= l.height \/ h > l.height
      BY <1>1, <3>4 DEF Heights
    <3>6. \A h \in Heights : h <= l.height => h <= l.height + 1
      BY <1>1, <3>4 DEF Heights
    <3>7. \A h \in Heights : rows[h] # NoHash => h <= Height(d) /\ h <= l.height + 1
      BY <1>2, <3>2, <3>5, <3>6, Zenon DEF Recoverable
    <3>8. Recoverable(d, cursor', rows)
      BY <3>2, <3>3, <3>4, <3>7, Zenon DEF Recoverable, Abandoned
    <3>9. Chained(d, l.height, l.hash, l.batch)
      BY <3>2 DEF Chained
    <3>10. Retreat(d, cursor', rows, "check", l)
      BY <3>3, <3>9, RetreatWalking
    <3> QED
      BY <3>1, <3>8, <3>10, ForkedMoves, Zenon
  <2> QED
    BY <2>1, <2>2, <2>3, <2>4, <2>5, Zenon
<1> QED
  BY <1>4, <1>5, <1>6, <1>7, Zenon DEF HandleReorg

LEMMA TipForked ==
  ASSUME SharedTypes, JobTypes, Shape, Forked, "tip" \in Jobs, TipFollower
  PROVE  Forked'
<1> DEFINE l == at["tip"]
           c == cursor
           d == daemon
<1>1. /\ d \in Hash /\ Height(d) \in Nat /\ c.height \in -1 .. MaxHeight /\ c.hash \in Chain
      /\ l \in Local /\ l.height \in -1 .. MaxHeight /\ l.batch \in Seq(Hash)
  BY HashIsSeq, HeightsAreHeights, CursorParts, LocalTypes, Zenon DEF SharedTypes, JobTypes, Chain
<1>2. Recoverable(d, c, rows) /\ Retreat(d, c, rows, pc["tip"], l)
  BY Zenon DEF Forked
<1>0. \A m : Retreat(daemon', cursor', rows', "idle", m)
  BY RetreatHandling, Zenon
<1>3. \A m : Moves("tip", "idle", m) /\ UNCHANGED <<daemon, rows, cursor>> => Forked'
  <2>1. \A m : Retreat(d, c, rows, "idle", m)
    BY RetreatHandling, Zenon
  <2> QED
    BY <2>1, ForkedQuiet, Zenon
<1>4. CASE TipStart
  <2>1. PICK m : /\ Moves("tip", "getTip", m) /\ UNCHANGED <<daemon, rows, cursor>>
                 /\ m.seen = c /\ m.height = c.height /\ m.hash = c.hash /\ m.batch = << >>
    BY <1>4, TipStartEffect, Zenon DEF Fields
  <2>2. Chained(d, m.height, m.hash, m.batch)
    BY <2>1 DEF Chained
  <2>3. Retreat(d, c, rows, "getTip", m)
    BY <2>1, <2>2, RetreatWalking
  <2> QED
    BY <2>1, <2>3, ForkedQuiet, Zenon
<1>5. CASE TipGetTip
  <2>1. /\ pc["tip"] = "getTip" /\ UNCHANGED <<daemon, rows, cursor>>
        /\ \/ Moves("tip", "idle", Idle)
           \/ Moves("tip", "rewind", l)
           \/ \E m : /\ Moves("tip", "fetch", m)
                     /\ m.height = l.height /\ m.hash = l.hash /\ m.batch = l.batch
    BY <1>5, TipGetTipEffect, Zenon DEF Fields
  <2>2. l.seen = c /\ l.height = c.height /\ l.hash = c.hash /\ Chained(d, l.height, l.hash, l.batch)
    BY <1>2, <2>1, RetreatWalking
  <2>3. Retreat(d, c, rows, "rewind", l)
    BY <2>2, RetreatWalking
  <2>4. \A m : m.height = l.height /\ m.hash = l.hash /\ m.batch = l.batch => Retreat(d, c, rows, "fetch", m)
    BY <2>2, RetreatWalking
  <2> QED
    BY <1>3, <2>1, <2>3, <2>4, ForkedQuiet, Zenon
<1>6. CASE TipRewind
  <2>1. /\ pc["tip"] = "rewind" /\ Moves("tip", "idle", Idle) /\ UNCHANGED <<daemon, rows>>
        /\ cursor' = [l.seen EXCEPT !.status = "backfilling"]
    BY <1>6, TipRewindEffect, Zenon
  <2>2. l.seen = c
    BY <1>2, <2>1, RetreatWalking
  <2>3. cursor'.height = c.height /\ cursor'.hash = c.hash
    <3>1. cursor \in Cursors /\ "backfilling" \in Status
      BY Zenon DEF SharedTypes, Status
    <3> QED
      BY <2>1, <2>2, <3>1, CursorMarked, Zenon
  <2>4. Recoverable(daemon', cursor', rows')
    BY <1>2, <2>1, <2>3, Zenon DEF Recoverable, Abandoned
  <2> QED
    BY <1>0, <2>1, <2>4, ForkedMoves, Zenon
<1>7. CASE TipFetch
  <2>1. /\ pc["tip"] = "fetch" /\ UNCHANGED <<daemon, rows, cursor>>
        /\ \/ Moves("tip", "idle", Idle)
           \/ \E B \in Seq(Hash) :
                /\ \A i \in 1 .. Len(B) : l.height + i \in 0 .. Height(d) /\ B[i] = OnChain(d, l.height + i)
                /\ \E m : /\ Moves("tip", "check", m)
                          /\ m.height = l.height /\ m.hash = l.hash /\ m.batch = B
    BY <1>7, TipFetchEffect, Zenon DEF Fields
  <2>2. l.height = c.height /\ l.hash = c.hash
    BY <1>2, <2>1, RetreatWalking
  <2>3. ASSUME NEW B \in Seq(Hash),
               \A i \in 1 .. Len(B) : l.height + i \in 0 .. Height(d) /\ B[i] = OnChain(d, l.height + i)
        PROVE  Chained(d, l.height, l.hash, B)
    <3>1. ASSUME NEW i \in 1 .. Len(B)
          PROVE  Height(B[i]) = l.height + i /\ l.height + i <= Height(d) /\ B[i] = OnChain(d, l.height + i)
      <4> DEFINE n == l.height + i
      <4>1. n \in 0 .. Height(d) /\ B[i] = OnChain(d, n)
        BY <2>3, Zenon
      <4> HIDE DEF n
      <4>2. n <= Height(d) /\ Height(OnChain(d, n)) = n
        BY <1>1, <4>1, OnChainIsHash
      <4> QED
        BY <4>1, <4>2 DEF n
    <3> QED
      BY <3>1, Zenon DEF Chained
  <2>4. ASSUME NEW B \in Seq(Hash), NEW m, Chained(d, l.height, l.hash, B),
               m.height = l.height, m.hash = l.hash, m.batch = B
        PROVE  Retreat(d, c, rows, "check", m)
    BY <2>2, <2>4, RetreatWalking
  <2> QED
    BY <1>3, <2>1, <2>3, <2>4, ForkedQuiet, Zenon
<1>8. CASE TipCheck
  <2>1. /\ pc["tip"] = "check" /\ UNCHANGED <<daemon, rows, cursor>>
        /\ \/ Moves("tip", "fetch", l)
           \/ Moves("tip", "idle", Idle)
           \/ /\ l.batch # << >> /\ l.hash # NoHash /\ Parent(Head(l.batch)) # l.hash
              /\ Moves("tip", "handle", l)
           \/ /\ l.batch # << >> /\ (l.hash = NoHash \/ Parent(Head(l.batch)) = l.hash)
              /\ Moves("tip", "writeRest", l)
    BY <1>8, TipCheckEffect, Zenon
  <2>2. l.height = c.height /\ l.hash = c.hash /\ Chained(d, l.height, l.hash, l.batch)
    BY <1>2, <2>1, RetreatWalking
  <2>3. Retreat(d, c, rows, "fetch", l)
    BY <2>2, RetreatWalking
  <2>4. ASSUME l.batch # << >>
        PROVE  /\ Head(l.batch) \in Hash /\ Height(Head(l.batch)) = l.height + 1 /\ l.height + 1 <= Height(d)
               /\ Head(l.batch) = OnChain(d, l.height + 1) \/ Parent(Head(l.batch)) = l.hash
    <3>1. 1 \in 1 .. Len(l.batch) /\ l.batch[1] = Head(l.batch) /\ Head(l.batch) \in Hash
      BY <1>1, <2>4
    <3> QED
      BY <2>2, <3>1, Zenon DEF Chained
  <2>5. ASSUME l.batch # << >>, l.hash # NoHash, Parent(Head(l.batch)) # l.hash
        PROVE  Retreat(d, c, rows, "handle", l)
    <3>1. Height(l.hash) = l.height
      BY <1>2, <2>2, Zenon DEF Recoverable
    <3>2. l.height \in Nat
      <4>1. l.hash \in Hash
        BY <1>1, <2>2, <2>5, Zenon DEF Chain
      <4> QED
        BY <3>1, <4>1, HashIsSeq, HeightsAreHeights, Zenon
    <3>3. Parent(OnChain(d, l.height + 1)) = OnChain(d, l.height)
      BY <1>1, <2>4, <2>5, <3>2, NextOnChain
    <3>4. l.hash # OnChain(d, l.height)
      BY <2>4, <2>5, <3>3, Zenon
    <3>5. Abandoned(d, c)
      BY <2>2, <2>5, <3>4, Zenon DEF Abandoned, OnDaemon
    <3> QED
      BY <3>5, RetreatHandling, Zenon
  <2>6. ASSUME l.batch # << >>, l.hash = NoHash PROVE Parent(Head(l.batch)) = l.hash
    <3>1. Height(l.hash) = l.height /\ l.hash \in Chain
      BY <1>1, <1>2, <2>2, Zenon DEF Recoverable
    <3>2. l.height = -1
      BY <2>6, <3>1, ChainHeight, Zenon
    <3>3. Height(Head(l.batch)) = 0
      BY <2>4, <2>6, <3>2
    <3> QED
      BY <2>4, <2>6, <3>3, ParentOnChain, Zenon
  <2>7. ASSUME l.batch # << >>, l.hash = NoHash \/ Parent(Head(l.batch)) = l.hash
        PROVE  Retreat(d, c, rows, "writeRest", l)
    <3>1. Parent(Head(l.batch)) = l.hash /\ "writeRest" \in ApplySteps
      BY <2>6, <2>7, InPlain, Zenon
    <3> QED
      BY <2>2, <3>1, RetreatApplying
  <2> QED
    BY <1>3, <2>1, <2>3, <2>5, <2>7, ForkedQuiet, Zenon
<1> QED
  BY <1>4, <1>5, <1>6, <1>7, <1>8, Zenon DEF TipFollower

LEMMA StepForked ==
  ASSUME SharedTypes, JobTypes, Shape, SharedTypes', Jobs = {"tip"}, reorgs = 0 => Straight, reorgs <= 1 => Forked,
         [Next]_vars
  PROVE  reorgs' <= 1 => Forked'
<1>0. "tip" \in Jobs /\ reorgs \in Nat /\ reorgs' \in Nat
  <2>1. reorgs \in 0 .. MaxReorgs /\ reorgs' \in 0 .. MaxReorgs
    BY Zenon DEF SharedTypes
  <2> QED
    BY <2>1
<1>1. CASE UNCHANGED vars
  <2>1. UNCHANGED <<daemon, rows, cursor, pc, at, reorgs>>
    BY <1>1, Zenon DEF vars, tables, counters
  <2> QED
    BY <2>1, Zenon DEF Forked
<1>2. CASE Crash \/ \E j \in Jobs : Throws(j)
  <2>1. UNCHANGED <<daemon, rows, cursor, reorgs>>
    BY <1>2, Zenon DEF Crash, Throws, tables, Finish
  <2>2. pc'["tip"] = "idle"
    <3>1. CASE Crash
      BY <1>0, <3>1, Zenon DEF Crash
    <3>2. CASE \E j \in Jobs : Throws(j)
      <4>1. Finish("tip")
        BY <3>2 DEF Throws
      <4> QED
        BY <1>0, <4>1 DEF Finish, Goto, JobTypes
    <3> QED
      BY <1>2, <3>1, <3>2, Zenon
  <2>3. Retreat(daemon', cursor', rows', "idle", at'["tip"])
    BY RetreatHandling, Zenon
  <2>4. reorgs' <= 1 => Recoverable(daemon', cursor', rows')
    BY <2>1, Zenon DEF Forked
  <2> QED
    BY <2>2, <2>3, <2>4, Zenon DEF Forked
<1>3. CASE DaemonExtends
  <2>1. /\ UNCHANGED <<rows, cursor, pc, at, reorgs>> /\ daemon \in Hash /\ daemon' \in Hash
        /\ Height(daemon) <= Height(daemon') /\ \A h \in 0 .. Height(daemon) : OnChain(daemon', h) = OnChain(daemon, h)
    <3>1. UNCHANGED <<rows, cursor, pc, at, reorgs>>
      BY <1>3, Zenon DEF DaemonExtends, tables, counters
    <3>2. Height(daemon) < MaxHeight /\ daemon' = Append(daemon, 0)
      BY <1>3, Zenon DEF DaemonExtends
    <3>3. daemon \in Hash /\ daemon' \in Hash
      BY Zenon DEF SharedTypes
    <3>4. /\ Height(daemon') = Height(daemon) + 1
          /\ \A h \in 0 .. Height(daemon) : OnChain(daemon', h) = OnChain(daemon, h)
      BY <3>2, <3>3, Extended, Zenon
    <3>5. Height(daemon) <= Height(daemon')
      BY <3>3, <3>4, HashIsSeq, HeightsAreHeights
    <3> QED
      BY <3>1, <3>3, <3>4, <3>5, Zenon
  <2>2. cursor \in Cursors /\ at["tip"] \in Local /\ Shaped(pc["tip"], at["tip"])
    BY <1>0, Zenon DEF SharedTypes, JobTypes, Shape
  <2> QED
    BY <2>1, <2>2, RetreatKept, Zenon DEF Forked
<1>4. CASE DaemonReorgs
  <2>1. UNCHANGED <<rows, cursor, pc, at>> /\ reorgs' = reorgs + 1
    BY <1>4, Zenon DEF DaemonReorgs, tables
  <2>2. daemon \in Hash /\ daemon' \in Hash
    BY Zenon DEF SharedTypes
  <2>3. Height(daemon) <= Height(daemon')
    <3>1. PICK fork \in 0 .. Height(daemon) - 1, tip \in Heights :
             /\ tip >= Height(daemon) + MinGain
             /\ daemon' = [i \in 1 .. tip + 1 |->
                             IF i <= fork + 1 THEN daemon[i] ELSE IF i = fork + 2 THEN 1 - daemon[i] ELSE 0]
      BY <1>4, Zenon DEF DaemonReorgs
    <3>2. Height(daemon') = tip
      <4>1. Len(daemon') = tip + 1 /\ tip \in Nat
        BY <3>1 DEF Heights
      <4> QED
        BY <4>1 DEF Height
    <3>3. Height(daemon) \in Nat /\ tip \in Nat
      BY <2>2, HashIsSeq, HeightsAreHeights DEF Heights
    <3>4. MinGain \in Nat
      BY DEF Parameters
    <3> QED
      BY <3>1, <3>2, <3>3, <3>4
  <2>4. reorgs' <= 1 => reorgs = 0
    BY <1>0, <2>1
  <2>5. reorgs = 0 => reorgs <= 1
    OBVIOUS
  <2> QED
    BY <1>0, <2>1, <2>2, <2>3, <2>4, <2>5, RetreatBegins, Zenon DEF Forked
<1>5. CASE Work
  <2>2. ~SafetySweep
    BY Zenon DEF SafetySweep, SweepStart, SweepQuery, SweepCompare, At
  <2>3. ~Backfiller
    BY Zenon DEF Backfiller, FillStart, FillMaxRow, FillReconcile, FillGetTarget, FillNext, FillReadLive,
       FillMarkLive, At
  <2>4. \A j \in Jobs : j = "tip"
    OBVIOUS
  <2>5. TipFollower \/ Apply("tip") \/ HandleReorg("tip")
    BY <1>5, <2>2, <2>3, <2>4, Zenon DEF Work
  <2>6. reorgs' = reorgs
    BY <1>5, WorkCounts, Zenon
  <2> QED
    BY <1>0, <2>5, <2>6, ApplyForked, HandleForked, TipForked, Zenon
<1> QED
  BY <1>1, <1>2, <1>3, <1>4, <1>5, Zenon DEF Next

LEMMA InitForked ==
  ASSUME Init, "tip" \in Jobs
  PROVE  Forked
<1>1. pc["tip"] = "idle" /\ daemon = [i \in 1 .. InitialTip + 1 |-> 0]
  BY Zenon DEF Init
<1>2. Height(daemon) = InitialTip /\ daemon \in Hash
  <2>1. Len(daemon) = InitialTip + 1
    BY <1>1
  <2>2. SharedTypes
    BY InitTyped, Zenon
  <2> QED
    BY <2>1, <2>2 DEF Height, SharedTypes
<1>3. Recoverable(daemon, cursor, rows)
  <2>1. CASE Fresh
    <3>1. rows = [h \in Heights |-> NoHash] /\ cursor = NoCursor
      BY <2>1, Zenon DEF Init
    <3>2. cursor.hash = NoHash /\ cursor.height = -1
      BY <3>1, CursorParts, Zenon
    <3>3. Height(NoHash) = -1
      BY DEF Height, NoHash
    <3>4. -1 <= Height(daemon)
      BY <1>2
    <3> QED
      BY <3>1, <3>2, <3>3, <3>4, Zenon DEF Recoverable, Abandoned
  <2>2. CASE ~Fresh
    <3>0. InitialTip <= InitialTip
      OBVIOUS
    <3>1. /\ rows = [h \in Heights |-> IF h <= InitialTip THEN OnChain(daemon, h) ELSE NoHash]
          /\ cursor = Cursor(InitialTip, daemon, "live")
      BY <2>2, Zenon DEF Init
    <3>2. cursor.height = InitialTip /\ cursor.hash = daemon
      BY <3>1 DEF Cursor
    <3>3. \A h \in Heights : h <= InitialTip => h <= InitialTip + 1
      BY DEF Heights
    <3>4. \A h \in Heights : rows[h] # NoHash => h <= InitialTip
      BY <3>1, Zenon
    <3>5. OnChain(daemon, InitialTip) = daemon
      BY <1>2, OnChainSelf
    <3>6. OnDaemon(daemon, cursor.height, cursor.hash)
      BY <1>2, <3>2, <3>0, <3>5, Zenon DEF OnDaemon
    <3> QED
      BY <1>2, <3>2, <3>3, <3>4, <3>0, <3>6, Zenon DEF Recoverable, Abandoned
  <2> QED
    BY <2>1, <2>2, Zenon
<1>4. Retreat(daemon, cursor, rows, "idle", at["tip"])
  BY RetreatHandling, Zenon
<1> QED
  BY <1>1, <1>3, <1>4, Zenon DEF Forked

LEMMA InductiveForked == Jobs = {"tip"} => (Safety => [](reorgs <= 1 => Forked))
<1> SUFFICES ASSUME Jobs = {"tip"} PROVE Safety => [](reorgs <= 1 => Forked)
  OBVIOUS
<1> DEFINE I == SharedTypes /\ JobTypes /\ Shape /\ (reorgs = 0 => Straight)
           J == reorgs <= 1 => Forked
<1>1. Init => J
  BY InitForked
<1>2. I /\ I' /\ J /\ [Next]_vars => J'
  BY StepForked
<1>3. Safety => []I
  BY Inductive, PTL
<1> HIDE DEF I, J
<1>4. Safety => []J
  BY <1>1, <1>2, <1>3, PTL DEF Safety
<1> QED
  BY <1>4 DEF J

(* OnlyAbandonedDeleted, with TipFollower as the only writer: up to one    *)
(* reorganisation, whatever throws or crashes, a rollback deletes no row   *)
(* of a block that is on the daemon's chain.                               *)
THEOREM OnlyAbandonedGo == Jobs = {"tip"} => (Safety => OnlyAbandonedDeleted)
<1> SUFFICES ASSUME Jobs = {"tip"} PROVE Safety => OnlyAbandonedDeleted
  OBVIOUS
<1> DEFINE I == SharedTypes /\ JobTypes /\ Shape /\ (reorgs = 0 => Straight)
           J == reorgs <= 1 => Forked
           A == reorgs <= 1 => \A h \in Heights : (rows[h] # NoHash /\ rows'[h] = NoHash) => rows[h] # OnChain(daemon, h)
<1>1. ASSUME I, J, [Next]_vars, reorgs <= 1, NEW h \in Heights, rows[h] # NoHash, rows'[h] = NoHash
      PROVE  rows[h] # OnChain(daemon, h)
  <2>1. UNCHANGED rows \/ (\E j \in Jobs : WriteBlocks(j)) \/ (\E j \in Jobs : DeleteBlocks(j))
    BY <1>1, RowsChange, Zenon
  <2>2. \A j \in Jobs : j = "tip"
    OBVIOUS
  <2>3. CASE WriteBlocks("tip")
    <3>1. PICK b : rows' = [rows EXCEPT ![Height(b)] = IF @ = NoHash THEN b ELSE @]
      BY <2>3, Zenon DEF WriteBlocks
    <3> QED
      BY <1>1, <3>1 DEF SharedTypes
  <2>4. CASE DeleteBlocks("tip")
    <3>1. pc["tip"] = "deleteBlocks" /\ rows' = [k \in Heights |-> IF k > at["tip"].height THEN NoHash ELSE rows[k]]
      BY <2>4, Zenon DEF DeleteBlocks, At
    <3>2. Retreat(daemon, cursor, rows, pc["tip"], at["tip"])
      BY <1>1, Zenon DEF Forked
    <3>3. OffAbove(daemon, rows, at["tip"].height)
      BY <3>1, <3>2, RetreatHandling
    <3>4. h > at["tip"].height
      BY <1>1, <3>1, Zenon
    <3> QED
      BY <1>1, <3>3, <3>4, Zenon DEF OffAbove
  <2> QED
    BY <1>1, <2>1, <2>2, <2>3, <2>4, Zenon
<1>2. I /\ J /\ [Next]_vars => [A]_vars
  BY <1>1, Zenon
<1>3. Safety => []I /\ []J
  BY Inductive, InductiveForked, PTL
<1> HIDE DEF I, J
<1>4. Safety => [][A]_vars
  BY <1>2, <1>3, PTL DEF Safety
<1> QED
  BY <1>4 DEF OnlyAbandonedDeleted

=============================================================================
