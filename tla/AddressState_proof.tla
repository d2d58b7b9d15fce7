------------------------- MODULE AddressState_proof -------------------------
(***************************************************************************)
(* For any addresses, contents and chain, any number of reorganisations,   *)
(* rebuilds and failures: while the history is Clean, the event log at     *)
(* rest is that of the stored chain, and the totals are the sums of the    *)
(* log.                                                                    *)
(*                                                                         *)
(* Both are promises about rest; the invariant behind them, IInv, has to   *)
(* say what the four tables hold at every await.  Its key is Counted: an   *)
(* address has absorbed exactly the logged deltas up to its                *)
(* last_seen_block, in the middle of a batch, of a replay and of a         *)
(* rollback alike, except for the addresses a rollback knows to be dirty.  *)
(***************************************************************************)
EXTENDS AddressState, WellFoundedInduction, TLAPS

-----------------------------------------------------------------------------
(* Max of FiniteSetsExt chooses: that there is something to choose comes   *)
(* from the well-foundedness of the naturals.                              *)

(* A set of naturals with an element has a least one. *)
LEMMA LeastElement ==
  ASSUME NEW S \in SUBSET Nat, S # {}
  PROVE  \E x \in S : \A y \in S : x <= y
<1>1. PICK x \in S : \A y \in S : ~(<<y, x>> \in OpToRel(<, Nat))
  BY NatLessThanWellFounded, WFMin, Zenon
<1>2. \A y \in S : ~(y < x)
  BY <1>1, Zenon DEF OpToRel
<1> QED
  BY <1>2

(* Max is an element and an upper bound of a bounded set that has one. *)
LEMMA GreatestElement ==
  ASSUME NEW n \in Int, NEW m \in Int, NEW S \in SUBSET (m .. n), S # {}
  PROVE  Max(S) \in S /\ \A y \in S : y <= Max(S)
<1> DEFINE T == {k \in Nat : n - k \in S}
<1>1. T # {} /\ T \in SUBSET Nat
  <2>1. PICK s \in S : TRUE
    OBVIOUS
  <2>2. n - (n - s) \in S /\ n - s \in Nat
    OBVIOUS
  <2> QED
    BY <2>2
<1>2. PICK k \in T : \A j \in T : k <= j
  <2> HIDE DEF T
  <2> QED
    BY <1>1, LeastElement
<1>3. \A y \in S : n - k >= y
  <2> TAKE y \in S
  <2>1. n - (n - y) = y /\ n - y \in Nat
    OBVIOUS
  <2>2. n - y \in T
    BY <2>1
  <2> QED
    BY <2>2, <1>2
<1>4. n - k \in S
  BY <1>2
<1> QED
  BY <1>3, <1>4 DEF Max

LEMMA GreatestNatural ==
  ASSUME NEW n \in Nat, NEW S, S \subseteq 0 .. n, S # {}
  PROVE  Max(S) \in S /\ \A y \in S : y <= Max(S)
<1>1. S \in SUBSET (0 .. n) /\ 0 \in Int /\ n \in Int
  OBVIOUS
<1> QED
  BY <1>1, GreatestElement, Zenon

LEMMA MaxOfInterval ==
  ASSUME NEW m \in Int, NEW n \in Int, m <= n
  PROVE  Max(m .. n) = n
<1> DEFINE S == m .. n
<1>1. n \in S /\ S \in SUBSET (m .. n) /\ \A y \in S : y <= n /\ y \in Int
  OBVIOUS
<1> HIDE DEF S
<1>2. Max(S) \in S /\ \A y \in S : y <= Max(S)
  BY <1>1, GreatestElement
<1>3. \A x \in S : (\A y \in S : y <= x) => x = n
  BY <1>1
<1>4. Max(S) = n
  BY <1>2, <1>3, Zenon
<1> QED
  BY <1>4 DEF S

-----------------------------------------------------------------------------
AfterLog == {"readSeen", "upsert", "insertBlocks", "setCursor"}
Applying == AfterLog \cup {"insertLog"}
Absorbed == {"insertBlocks", "setCursor"}
AfterLogCut == {"recompute", "dropEmpty", "moveCursor"}
AfterCut == AfterLogCut \cup {"deleteLog"}
AfterFork == AfterCut \cup {"collect", "deleteBlocks"}
Rolling == AfterFork \cup {"findFork"}

(* The last height of the batch, the last one that is surely in `blocks`,  *)
(* the last one that may be, and the last one that may be in the log.      *)
Last == Max(DOMAIN batch)
Base == IF pc \in AfterCut THEN fork ELSE cursor.height
Stored == IF pc = "setCursor" THEN Last ELSE Base
Edge == IF pc \in AfterLog THEN Last
        ELSE IF pc \in AfterLogCut THEN fork ELSE cursor.height
Counts == IF pc \in Absorbed THEN Last ELSE Base

(* No table knows of a reorganisation that is still to come. *)
Generated ==
  /\ \A h \in Heights : daemon[h].gen <= reorgs /\ blocks[h] <= reorgs
  /\ \A h \in DOMAIN batch : batch[h].gen <= reorgs
  /\ cursor.gen <= reorgs

(* The locals of the indexer, and who runs next to whom. *)
BatchLocal ==
  /\ pc \in Applying =>
       \E last \in cursor.height + 1 .. MaxHeight : DOMAIN batch = cursor.height + 1 .. last
  /\ \A h \in DOMAIN batch : batch[h].gen = daemon[h].gen => batch[h] = daemon[h]

ForkLocal ==
  /\ pc \in Rolling => reorgs > 0
  /\ pc \in AfterFork => fork <= cursor.height /\ (fork # 0 => blocks[fork] # None)

Apart ==
  /\ rebuilds = 0 => admin = "idle"
  /\ ~mixed => pc = "idle" \/ admin = "idle"

Progress == BatchLocal /\ ForkLocal /\ Apart

Rows ==
  /\ \A h \in 1 .. Base : blocks[h] # None
  /\ faults = 0 => \A h \in Heights : h > Stored => blocks[h] = None
  /\ pc = "setCursor" => \A h \in DOMAIN batch : blocks[h] = batch[h].gen

(* The log of an address: up to the cursor, in the batch, above both, and  *)
(* as long as the daemon has never reorganised.                            *)
LogBelow(a) ==
  \A h \in 1 .. Base :
    /\ log[a][h] \in {None, blocks[h]}
    /\ blocks[h] = daemon[h].gen => (log[a][h] # None <=> a \in daemon[h].touches)

LogBatch(a) ==
  pc \in AfterLog => \A h \in DOMAIN batch :
    log[a][h] = IF a \in batch[h].touches THEN batch[h].gen ELSE None

LogAbove(a) == faults = 0 => \A h \in Heights : h > Edge => log[a][h] = None

LogTrue(a) ==
  reorgs = 0 => \A h \in Heights : log[a][h] # None => log[a][h] = 0 /\ a \in daemon[h].touches

LogRows == \A a \in Addresses : LogBelow(a) /\ LogBatch(a) /\ LogAbove(a) /\ LogTrue(a)

(* An address has absorbed the logged deltas up to its last_seen_block,    *)
(* among them all that are below the cursor; that block is one that        *)
(* touched it; and nothing below it is missing from the log.               *)
Once(a) ==
  \A h \in Heights, g \in Generations :
    total[a][<<h, g>>] = IF log[a][h] = g /\ h <= lastSeen[a] THEN 1 ELSE 0
SeenBelow(a) == \A h \in 1 .. Counts : log[a][h] # None => h <= lastSeen[a]
SeenLogged(a) == faults = 0 => lastSeen[a] = 0 \/ log[a][lastSeen[a]] # None
SeenWhole(a) ==
  reorgs = 0 => \A h \in 1 .. lastSeen[a] : a \in daemon[h].touches => log[a][h] # None

Counted(a) == Once(a) /\ SeenBelow(a) /\ SeenLogged(a) /\ SeenWhole(a)

(* Between the two statements of a rebuild. *)
Emptied(a) ==
  lastSeen[a] = 0 /\ \A h \in Heights, g \in Generations : total[a][<<h, g>>] = 0

(* The addresses whose totals a rollback has still to repair. *)
Stale == {a \in dirty : pc = "recompute" \/ (pc = "dropEmpty" /\ Logged(a) = {})}

Totals ==
  /\ admin = "idle" => \A a \in Addresses \ Stale : Counted(a)
  /\ admin = "insert" => \A a \in Addresses : Emptied(a)
  /\ pc = "upsert" => seen = lastSeen
  /\ pc \in {"deleteBlocks", "deleteLog"} => dirty = Touched

IInv ==
  /\ TypeOK /\ Generated /\ Progress
  /\ Clean => Rows /\ LogRows /\ Totals

LEMMA Parameters ==
  /\ Contents \subseteq SUBSET Addresses
  /\ BatchSize \in Nat \ {0} /\ MaxHeight \in Nat \ {0}
  /\ MaxReorgs \in Nat /\ MaxFaults \in Nat /\ MaxRebuilds \in Nat
  BY AddressAssumption DEF AddressAssumption

USE Parameters DEF Heights, Generations, None

-----------------------------------------------------------------------------
(* What the maxima of the model are.                                       *)

LEMMA BatchType ==
  ASSUME TypeOK
  PROVE  /\ DOMAIN batch \subseteq Heights
         /\ \A h \in DOMAIN batch : batch[h] \in Block
<1>1. PICK S \in SUBSET Heights : batch \in [S -> Block]
  BY DEF TypeOK
<1> QED
  BY <1>1

LEMMA BatchIs ==
  ASSUME TypeOK, Progress, pc \in Applying
  PROVE  /\ Last \in cursor.height + 1 .. MaxHeight
         /\ DOMAIN batch = cursor.height + 1 .. Last
<1>1. PICK last \in cursor.height + 1 .. MaxHeight : DOMAIN batch = cursor.height + 1 .. last
  BY DEF Progress, BatchLocal
<1>2. cursor.height \in Nat
  BY DEF TypeOK
<1>3. Max(cursor.height + 1 .. last) = last
  BY <1>1, <1>2, MaxOfInterval
<1> QED
  BY <1>1, <1>3 DEF Last

LEMMA FreshTop ==
  ASSUME TypeOK, NEW a \in Addresses
  PROVE  LET top == Max(Fresh(a) \cup {lastSeen[a]})
         IN  /\ top \in Fresh(a) \cup {lastSeen[a]} /\ top \in 0 .. MaxHeight
             /\ lastSeen[a] <= top
             /\ \A h \in Fresh(a) : h <= top
<1> DEFINE S == Fresh(a) \cup {lastSeen[a]}
<1>1. S \subseteq 0 .. MaxHeight /\ S # {} /\ MaxHeight \in Nat
  BY BatchType DEF TypeOK, Fresh
<1> HIDE DEF S
<1>2. Max(S) \in S /\ \A y \in S : y <= Max(S)
  BY <1>1, GreatestNatural, Zenon
<1> QED
  BY <1>1, <1>2 DEF S

LEMMA LastLoggedTop ==
  ASSUME TypeOK, NEW a \in Addresses
  PROVE  /\ LastLogged(a) \in 0 .. MaxHeight
         /\ Logged(a) # {} => LastLogged(a) \in Logged(a)
         /\ \A h \in Logged(a) : h <= LastLogged(a)
<1> DEFINE S == Logged(a)
<1>1. S \subseteq 0 .. MaxHeight /\ MaxHeight \in Nat
  BY DEF Logged
<1> HIDE DEF S
<1>2. CASE S # {}
  <2>1. Max(S) \in S /\ \A y \in S : y <= Max(S)
    BY <1>1, <1>2, GreatestNatural, Zenon
  <2> QED
    BY <1>1, <1>2, <2>1 DEF S, LastLogged
<1>3. CASE S = {}
  BY <1>3 DEF S, LastLogged
<1> QED
  BY <1>2, <1>3

LEMMA ForkTop ==
  ASSUME TypeOK, FindFork
  PROVE  /\ fork' \in 0 .. cursor.height
         /\ fork' # 0 => blocks[fork'] = daemon[fork'].gen
<1> DEFINE S == {0} \cup {h \in 1 .. cursor.height : blocks[h] = daemon[h].gen}
<1>1. S \subseteq 0 .. cursor.height /\ S # {} /\ cursor.height \in Nat
  BY DEF TypeOK
<1>2. fork' = Max(S)
  BY DEF FindFork
<1> HIDE DEF S
<1>3. Max(S) \in S
  BY <1>1, GreatestNatural, Zenon
<1> QED
  BY <1>1, <1>2, <1>3 DEF S

-----------------------------------------------------------------------------
(* Types.                                                                  *)

LEMMA IsBatch ==
  ASSUME NEW S \in SUBSET Heights, NEW f \in [S -> Block]
  PROVE  f \in UNION {[T -> Block] : T \in SUBSET Heights}
<1> DEFINE F(T) == [T -> Block]
<1>1. f \in F(S)
  OBVIOUS
<1> HIDE DEF F
<1>2. f \in UNION {F(T) : T \in SUBSET Heights}
  BY <1>1, Zenon
<1> QED
  BY <1>2 DEF F

LEMMA NoBatch == << >> \in UNION {[S -> Block] : S \in SUBSET Heights}
<1>1. << >> \in [{} -> Block]
  BY SMT
<1> QED
  BY <1>1, IsBatch

LEMMA InitType == Init => TypeOK
<1> SUFFICES ASSUME Init PROVE TypeOK
  OBVIOUS
<1>1. daemon \in [Heights -> Block]
  BY DEF Init, Block
<1>2. batch \in UNION {[S -> Block] : S \in SUBSET Heights}
  BY NoBatch DEF Init
<1>3. /\ log \in [Addresses -> [Heights -> Generations \cup {None}]]
      /\ blocks \in [Heights -> Generations \cup {None}]
  BY DEF Init, NoLog
<1>4. total \in [Addresses -> [Delta -> Nat]]
  BY DEF Init, NoTotal
<1>5. lastSeen \in [Addresses -> 0 .. MaxHeight] /\ seen \in [Addresses -> 0 .. MaxHeight]
  BY DEF Init, NothingSeen
<1>6. cursor \in [height : 0 .. MaxHeight, gen : Generations]
  BY DEF Init
<1>7. pc \in IndexerSteps /\ admin \in {"idle", "insert"} /\ mixed \in BOOLEAN
  BY DEF Init, IndexerSteps
<1>8. /\ fork \in 0 .. MaxHeight /\ dirty \subseteq Addresses
      /\ reorgs \in 0 .. MaxReorgs /\ faults \in 0 .. MaxFaults /\ rebuilds \in 0 .. MaxRebuilds
  BY DEF Init
<1> QED
  BY <1>1, <1>2, <1>3, <1>4, <1>5, <1>6, <1>7, <1>8, Zenon DEF TypeOK

LEMMA EndsType ==
  ASSUME Ends
  PROVE  /\ pc' \in IndexerSteps
         /\ batch' \in UNION {[S -> Block] : S \in SUBSET Heights}
         /\ seen' \in [Addresses -> 0 .. MaxHeight]
         /\ fork' \in 0 .. MaxHeight /\ dirty' \subseteq Addresses
  BY NoBatch DEF Ends, IndexerSteps, NothingSeen

LEMMA NewChain ==
  ASSUME TypeOK, DaemonReorgs
  PROVE  /\ reorgs' = reorgs + 1 /\ reorgs \in Nat
         /\ daemon' \in [Heights -> Block]
         /\ \A h \in Heights : daemon'[h] = daemon[h] \/ daemon'[h].gen = reorgs'
<1>0. PICK at \in Heights : \E new \in [at .. MaxHeight -> [gen : {reorgs + 1}, touches : Contents]] :
         daemon' = [h \in Heights |-> IF h < at THEN daemon[h] ELSE new[h]]
  BY DEF DaemonReorgs
<1>1. PICK new \in [at .. MaxHeight -> [gen : {reorgs + 1}, touches : Contents]] :
         daemon' = [h \in Heights |-> IF h < at THEN daemon[h] ELSE new[h]]
  BY <1>0
<1>3. reorgs' = reorgs + 1 /\ reorgs \in Nat /\ reorgs + 1 \in Generations
  BY DEF TypeOK, DaemonReorgs
<1>2. \A h \in at .. MaxHeight : new[h] \in Block /\ new[h].gen = reorgs + 1
  BY <1>3 DEF Block
<1>4. \A h \in Heights :
        /\ daemon'[h] \in Block
        /\ daemon'[h] = daemon[h] \/ daemon'[h].gen = reorgs'
  <2> TAKE h \in Heights
  <2>1. CASE h < at
    BY <1>1, <2>1 DEF TypeOK
  <2>2. CASE ~(h < at)
    <3>1. h \in at .. MaxHeight /\ daemon'[h] = new[h]
      BY <1>1, <2>2
    <3> QED
      BY <1>2, <1>3, <3>1
  <2> QED
    BY <2>1, <2>2
<1>5. daemon' \in [Heights -> Block]
  <2>1. daemon' = [h \in Heights |-> daemon'[h]]
    BY <1>1
  <2> QED
    BY <1>4, <2>1
<1> QED
  BY <1>3, <1>4, <1>5

LEMMA NextType == TypeOK /\ Progress /\ [Next]_vars => TypeOK'
<1> SUFFICES ASSUME TypeOK, Progress, [Next]_vars PROVE TypeOK'
  OBVIOUS
<1> USE DEF chain, projection, locals, task
<1>1. CASE UNCHANGED vars
  BY <1>1 DEF vars, TypeOK
<1>2. ASSUME Next PROVE mixed' \in BOOLEAN
  BY <1>2 DEF Next, TypeOK
<1>3. ASSUME Next, Fetch, UNCHANGED task PROVE TypeOK'
  <2>1. batch' \in UNION {[S -> Block] : S \in SUBSET Heights}
    <3>1. CASE UNCHANGED batch
      BY <3>1 DEF TypeOK
    <3>2. ASSUME NEW last \in cursor.height + 1 .. MaxHeight,
                 batch' = [h \in cursor.height + 1 .. last |-> daemon[h]]
          PROVE  batch' \in UNION {[S -> Block] : S \in SUBSET Heights}
      <4>1. cursor.height + 1 .. last \in SUBSET Heights
        BY DEF TypeOK
      <4>2. batch' \in [cursor.height + 1 .. last -> Block]
        BY <3>2, <4>1 DEF TypeOK
      <4> QED
        BY <4>1, <4>2, IsBatch
    <3> QED
      BY <1>3, <3>1, <3>2 DEF Fetch
  <2> QED
    BY <1>2, <1>3, <2>1 DEF Fetch, TypeOK, IndexerSteps
<1>4. ASSUME Next, InsertLog, UNCHANGED task PROVE TypeOK'
  <2>1. log' \in [Addresses -> [Heights -> Generations \cup {None}]]
    <3>1. \A h \in DOMAIN batch : batch[h].gen \in Generations
      BY BatchType DEF Block
    <3>0. log \in [Addresses -> [Heights -> Generations \cup {None}]]
      BY Zenon DEF TypeOK
    <3>2. \A a \in Addresses, h \in Heights : log[a][h] \in Generations \cup {None}
      BY <3>0, Zenon
    <3> HIDE DEF Heights, Generations, None
    <3> QED
      BY <1>4, <3>1, <3>2 DEF InsertLog
  <2> QED
    BY <1>2, <1>4, <2>1 DEF InsertLog, Step, TypeOK, IndexerSteps
<1>5. ASSUME Next, ReadSeen, UNCHANGED task PROVE TypeOK'
  BY <1>2, <1>5 DEF ReadSeen, Step, TypeOK, IndexerSteps
<1>6. ASSUME Next, Upsert, UNCHANGED task PROVE TypeOK'
  <2>1. total' \in [Addresses -> [Delta -> Nat]]
    BY <1>6 DEF Upsert, TypeOK
  <2>2. lastSeen' \in [Addresses -> 0 .. MaxHeight]
    BY <1>6, FreshTop DEF Upsert, TypeOK
  <2> QED
    BY <1>2, <1>6, <2>1, <2>2 DEF Upsert, Step, TypeOK, IndexerSteps
<1>7. ASSUME Next, InsertBlocks, UNCHANGED task PROVE TypeOK'
  <2>1. blocks' \in [Heights -> Generations \cup {None}]
    BY <1>7, BatchType DEF InsertBlocks, TypeOK, Block
  <2> QED
    BY <1>2, <1>7, <2>1 DEF InsertBlocks, Step, TypeOK, IndexerSteps
<1>8. ASSUME Next, SetCursor, UNCHANGED task PROVE TypeOK'
  <2>1. Last \in DOMAIN batch /\ Last \in 0 .. MaxHeight
    BY <1>8, BatchIs DEF SetCursor, TypeOK, Applying, AfterLog
  <2>2. cursor' \in [height : 0 .. MaxHeight, gen : Generations]
    BY <1>8, <2>1, BatchType DEF SetCursor, Last, Block
  <2> QED
    BY <1>2, <1>8, <2>2, EndsType DEF SetCursor, TypeOK
<1>9. ASSUME Next, FindFork, UNCHANGED task PROVE TypeOK'
  <2>1. fork' \in 0 .. MaxHeight
    BY <1>9, ForkTop DEF TypeOK
  <2> QED
    BY <1>2, <1>9, <2>1 DEF FindFork, Step, TypeOK, IndexerSteps
<1>10. ASSUME Next, CollectDirty, UNCHANGED task PROVE TypeOK'
  BY <1>2, <1>10 DEF CollectDirty, Touched, Step, TypeOK, IndexerSteps
<1>11. ASSUME Next, DeleteBlocks, UNCHANGED task PROVE TypeOK'
  BY <1>2, <1>11 DEF DeleteBlocks, Above, Step, TypeOK, IndexerSteps
<1>12. ASSUME Next, DeleteLog, UNCHANGED task PROVE TypeOK'
  BY <1>2, <1>12 DEF DeleteLog, Above, Step, TypeOK, IndexerSteps
<1>13. ASSUME Next, Recompute, UNCHANGED task PROVE TypeOK'
  <2>1. total' \in [Addresses -> [Delta -> Nat]]
    BY <1>13 DEF Recompute, SumOfLog, TypeOK
  <2>2. lastSeen' \in [Addresses -> 0 .. MaxHeight]
    BY <1>13, LastLoggedTop DEF Recompute, TypeOK
  <2> QED
    BY <1>2, <1>13, <2>1, <2>2 DEF Recompute, Step, TypeOK, IndexerSteps
<1>14. ASSUME Next, DropEmpty, UNCHANGED task PROVE TypeOK'
  BY <1>2, <1>14 DEF DropEmpty, NoTotal, Step, TypeOK, IndexerSteps
<1>15. ASSUME Next, MoveCursor, UNCHANGED task PROVE TypeOK'
  <2>1. cursor' \in [height : 0 .. MaxHeight, gen : Generations]
    BY <1>15 DEF MoveCursor, TypeOK, Progress, ForkLocal, AfterFork, AfterCut, AfterLogCut
  <2> QED
    BY <1>2, <1>15, <2>1, EndsType DEF MoveCursor, TypeOK
<1>16. ASSUME Next, RebuildTruncate PROVE TypeOK'
  BY <1>2, <1>16 DEF RebuildTruncate, NoTotal, TypeOK
<1>17. ASSUME Next, RebuildInsert PROVE TypeOK'
  <2>1. total' \in [Addresses -> [Delta -> Nat]]
    <3>1. CASE UNCHANGED projection
      BY <3>1 DEF TypeOK
    <3>2. CASE total' = [a \in Addresses |-> IF Logged(a) = {} THEN total[a] ELSE SumOfLog(a)]
      BY <3>2 DEF SumOfLog, TypeOK
    <3> QED
      BY <1>17, <3>1, <3>2 DEF RebuildInsert
  <2>2. lastSeen' \in [Addresses -> 0 .. MaxHeight]
    <3>1. CASE UNCHANGED projection
      BY <3>1 DEF TypeOK
    <3>2. CASE lastSeen' = [a \in Addresses |->
                 IF Logged(a) = {} THEN lastSeen[a] ELSE LastLogged(a)]
      BY <3>2, LastLoggedTop DEF TypeOK
    <3> QED
      BY <1>17, <3>1, <3>2 DEF RebuildInsert
  <2> QED
    BY <1>2, <1>17, <2>1, <2>2 DEF RebuildInsert, TypeOK
<1>18. ASSUME Next, DaemonReorgs PROVE TypeOK'
  <2>1. daemon' \in [Heights -> Block]
    BY <1>18, NewChain
  <2> QED
    BY <1>2, <1>18, <2>1, SMTT(30) DEF DaemonReorgs, TypeOK
<1>19. ASSUME Next, Throws PROVE TypeOK'
  BY <1>2, <1>19, EndsType DEF Throws, TypeOK
<1>20. ASSUME Next, Crash PROVE TypeOK'
  BY <1>2, <1>20, EndsType DEF Crash, TypeOK
<1> QED
  BY <1>1, <1>3, <1>4, <1>5, <1>6, <1>7, <1>8, <1>9, <1>10, <1>11, <1>12, <1>13, <1>14,
     <1>15, <1>16, <1>17, <1>18, <1>19, <1>20 DEF Next, Indexer

-----------------------------------------------------------------------------
(* The bookkeeping that holds whether the history is Clean or not.         *)

LEMMA InitProgress == Init => Generated /\ Progress
<1> SUFFICES ASSUME Init PROVE Generated /\ Progress
  OBVIOUS
<1>1. DOMAIN batch = {}
  BY SMT DEF Init
<1> QED
  BY <1>1 DEF Init, NoLog, Generated, Progress, BatchLocal, ForkLocal, Apart, Applying, AfterLog, Rolling, AfterFork, AfterCut,
              AfterLogCut

LEMMA EndsLocals ==
  ASSUME Ends
  PROVE  pc' = "idle" /\ DOMAIN batch' = {}
<1>1. batch' = << >> /\ pc' = "idle"
  BY DEF Ends
<1> QED
  BY <1>1, SMT

LEMMA NextGenerated == TypeOK /\ Generated /\ Progress /\ [Next]_vars => Generated'
<1> SUFFICES ASSUME TypeOK, Generated, Progress, [Next]_vars PROVE Generated'
  OBVIOUS
<1> USE DEF chain, projection, locals, task, Step
<1>1. CASE UNCHANGED <<chain, blocks, batch, cursor>>
  BY <1>1 DEF Generated
<1>2. CASE Fetch
  <2>1. CASE UNCHANGED batch
    BY <1>2, <2>1 DEF Fetch, Generated
  <2>2. ASSUME NEW last \in cursor.height + 1 .. MaxHeight,
               batch' = [h \in cursor.height + 1 .. last |-> daemon[h]]
        PROVE  Generated'
    BY <1>2, <2>2 DEF Fetch, Generated, TypeOK
  <2> QED
    BY <1>2, <2>1, <2>2 DEF Fetch
<1>3. CASE InsertBlocks
  BY <1>3 DEF InsertBlocks, Generated
<1>4. CASE SetCursor
  <2>1. Last \in DOMAIN batch
    BY <1>4, BatchIs DEF SetCursor, TypeOK, Applying, AfterLog
  <2> QED
    BY <1>4, <2>1, EndsLocals DEF SetCursor, Generated, Last
<1>5. CASE DeleteBlocks
  BY <1>5 DEF DeleteBlocks, Above, Generated, TypeOK
<1>6. CASE MoveCursor
  <2>1. cursor'.gen = IF fork = 0 THEN 0 ELSE blocks[fork]
    BY <1>6 DEF MoveCursor
  <2>2. cursor'.gen <= reorgs
    BY <2>1 DEF Generated, TypeOK
  <2> QED
    BY <1>6, <2>2, EndsLocals DEF MoveCursor, Generated
<1>7. CASE DaemonReorgs
  <2>1. reorgs' = reorgs + 1 /\ reorgs \in Int
    BY <1>7, NewChain
  <2>2. \A h \in Heights : daemon'[h].gen <= reorgs'
    <3> TAKE h \in Heights
    <3>1. daemon[h].gen <= reorgs /\ daemon[h].gen \in Int
      BY DEF Generated, TypeOK, Block
    <3>2. daemon'[h] = daemon[h] \/ daemon'[h].gen = reorgs'
      BY <1>7, NewChain
    <3> QED
      BY <2>1, <3>1, <3>2
  <2>3. /\ \A h \in Heights : blocks[h] \in Int
        /\ \A h \in DOMAIN batch : batch[h].gen \in Int
        /\ cursor.gen \in Int
    BY BatchType DEF TypeOK, Block
  <2>4. UNCHANGED <<blocks, batch, cursor>>
    BY <1>7 DEF DaemonReorgs
  <2> QED
    BY <2>1, <2>2, <2>3, <2>4 DEF Generated
<1>8. CASE Throws \/ Crash
  BY <1>8, EndsLocals DEF Throws, Crash, Generated
<1> QED
  BY <1>1, <1>2, <1>3, <1>4, <1>5, <1>6, <1>7, <1>8
  DEF Next, Indexer, InsertLog, ReadSeen, Upsert, FindFork, CollectDirty, DeleteLog, Recompute,
      DropEmpty, RebuildTruncate, RebuildInsert, vars

(* The sets of awaits, spelled out. *)
LEMMA Awaits ==
  /\ \A p \in Applying : p \notin Rolling /\ p # "idle"
  /\ \A p : p \in Applying <=> p \in {"insertLog", "readSeen", "upsert", "insertBlocks", "setCursor"}
  /\ \A p : p \in AfterFork <=> p \in {"collect", "deleteBlocks", "deleteLog", "recompute",
                                       "dropEmpty", "moveCursor"}
  /\ \A p : p \in Rolling <=> p \in {"findFork", "collect", "deleteBlocks", "deleteLog",
                                     "recompute", "dropEmpty", "moveCursor"}
  BY DEF Applying, AfterLog, Rolling, AfterFork, AfterCut, AfterLogCut

LEMMA NextApart == TypeOK /\ Apart /\ [Next]_vars => Apart'
<1> SUFFICES ASSUME TypeOK, Apart, [Next]_vars PROVE Apart'
  OBVIOUS
<1>1. CASE UNCHANGED vars
  BY <1>1 DEF vars, task, Apart
<1>2. CASE Next
  <2>1. mixed' \in BOOLEAN /\ (~mixed' => pc' = "idle" \/ admin' = "idle")
    BY <1>2 DEF Next
  <2>2. rebuilds' = 0 => admin' = "idle"
    BY <1>2 DEF Next, task, TypeOK, Apart, RebuildTruncate, RebuildInsert, DaemonReorgs, Throws,
                Crash
  <2> QED
    BY <2>1, <2>2 DEF Apart
<1> QED
  BY <1>1, <1>2

LEMMA NextBatch == TypeOK /\ Generated /\ Progress /\ [Next]_vars => BatchLocal'
<1> SUFFICES ASSUME TypeOK, Generated, Progress, [Next]_vars PROVE BatchLocal'
  OBVIOUS
<1> USE Awaits DEF chain, projection, locals, task
<1>1. CASE UNCHANGED <<chain, batch, cursor, pc>>
  BY <1>1 DEF Progress, BatchLocal
<1>2. CASE Fetch
  <2>1. CASE pc' = "findFork" /\ UNCHANGED batch
    BY <1>2, <2>1 DEF Fetch, Progress, BatchLocal
  <2>2. ASSUME NEW last \in cursor.height + 1 .. MaxHeight,
               batch' = [h \in cursor.height + 1 .. last |-> daemon[h]]
        PROVE  BatchLocal'
    BY <1>2, <2>2 DEF Fetch, BatchLocal
  <2> QED
    BY <1>2, <2>1, <2>2 DEF Fetch
<1>3. CASE InsertLog \/ ReadSeen \/ Upsert \/ InsertBlocks
  <2>1. UNCHANGED <<chain, batch, cursor>> /\ pc \in Applying
    BY <1>3 DEF InsertLog, ReadSeen, Upsert, InsertBlocks, Step
  <2> QED
    BY <2>1 DEF Progress, BatchLocal
<1>4. CASE SetCursor \/ MoveCursor \/ Throws \/ Crash
  BY <1>4, EndsLocals DEF SetCursor, MoveCursor, Throws, Crash, BatchLocal
<1>5. CASE FindFork \/ CollectDirty \/ DeleteBlocks \/ DeleteLog \/ Recompute \/ DropEmpty
  <2>1. UNCHANGED <<chain, batch>> /\ pc' \notin Applying
    BY <1>5 DEF FindFork, CollectDirty, DeleteBlocks, DeleteLog, Recompute, DropEmpty, Step
  <2> QED
    BY <2>1 DEF Progress, BatchLocal
<1>6. CASE DaemonReorgs
  <2>1. UNCHANGED <<batch, cursor, pc>>
    BY <1>6 DEF DaemonReorgs
  <2>2. ASSUME NEW h \in DOMAIN batch, batch[h].gen = daemon'[h].gen
        PROVE  batch[h] = daemon'[h]
    <3>1. h \in Heights /\ batch[h] \in Block
      BY BatchType
    <3>2. batch[h].gen <= reorgs /\ reorgs' = reorgs + 1 /\ reorgs \in Nat
      BY <1>6, NewChain DEF Generated
    <3>3. daemon'[h].gen # reorgs'
      BY <2>2, <3>1, <3>2 DEF Block
    <3>4. daemon'[h] = daemon[h]
      BY <1>6, <3>1, <3>3, NewChain
    <3> QED
      BY <2>2, <3>4 DEF Progress, BatchLocal
  <2> QED
    BY <2>1, <2>2 DEF Progress, BatchLocal
<1> QED
  BY <1>1, <1>2, <1>3, <1>4, <1>5, <1>6
  DEF Next, Indexer, RebuildTruncate, RebuildInsert, vars

LEMMA NextFork == TypeOK /\ Generated /\ Progress /\ [Next]_vars => ForkLocal'
<1> SUFFICES ASSUME TypeOK, Generated, Progress, [Next]_vars PROVE ForkLocal'
  OBVIOUS
<1> USE Awaits DEF chain, projection, locals, task
<1>1. CASE UNCHANGED <<chain, fork, blocks, cursor, pc>>
  BY <1>1 DEF Progress, ForkLocal
<1>2. CASE Fetch
  <2>1. CASE pc' = "findFork"
    <3>1. UNCHANGED reorgs /\ cursor.height \in Heights /\ daemon[cursor.height].gen # cursor.gen
      BY <1>2, <2>1 DEF Fetch, TypeOK
    <3>2. reorgs # 0
      BY <3>1 DEF Generated, TypeOK, Block
    <3> QED
      <4>1. reorgs' > 0
        BY <3>1, <3>2 DEF TypeOK
      <4>2. pc' \notin AfterFork
        BY <2>1
      <4> QED
        BY <4>1, <4>2 DEF ForkLocal
  <2>2. CASE pc' = "insertLog"
    BY <2>2 DEF ForkLocal
  <2> QED
    BY <1>2, <2>1, <2>2 DEF Fetch
<1>3. CASE InsertLog \/ ReadSeen \/ Upsert \/ InsertBlocks
  BY <1>3 DEF InsertLog, ReadSeen, Upsert, InsertBlocks, Step, ForkLocal
<1>4. CASE SetCursor \/ MoveCursor \/ Throws \/ Crash
  BY <1>4, EndsLocals DEF SetCursor, MoveCursor, Throws, Crash, ForkLocal
<1>5. CASE FindFork
  <2>1. /\ fork' \in 0 .. cursor.height
        /\ fork' # 0 => blocks[fork'] = daemon[fork'].gen
    BY <1>5, ForkTop
  <2>2. fork' # 0 => blocks[fork'] # None
    BY <2>1 DEF TypeOK, Block
  <2>3. pc' = "collect" /\ UNCHANGED <<chain, blocks, cursor>> /\ reorgs > 0
    BY <1>5 DEF FindFork, Step, Progress, ForkLocal
  <2> QED
    BY <2>1, <2>2, <2>3 DEF ForkLocal
<1>6. CASE CollectDirty \/ DeleteLog \/ Recompute \/ DropEmpty
  <2>1. UNCHANGED <<chain, fork, blocks, cursor>> /\ pc \in AfterFork
    BY <1>6 DEF CollectDirty, DeleteLog, Recompute, DropEmpty, Step
  <2> QED
    BY <2>1 DEF Progress, ForkLocal
<1>7. CASE DeleteBlocks
  <2>1. UNCHANGED <<chain, fork, cursor>> /\ pc \in AfterFork
    BY <1>7 DEF DeleteBlocks, Step
  <2>2. fork # 0 => blocks'[fork] = blocks[fork]
    BY <1>7 DEF DeleteBlocks, Above, TypeOK
  <2> QED
    BY <2>1, <2>2 DEF Progress, ForkLocal
<1>8. CASE DaemonReorgs
  <2>1. UNCHANGED <<fork, blocks, cursor, pc>>
    BY <1>8 DEF DaemonReorgs
  <2>2. reorgs' > 0
    BY <1>8, NewChain
  <2> QED
    BY <2>1, <2>2 DEF Progress, ForkLocal
<1> QED
  BY <1>1, <1>2, <1>3, <1>4, <1>5, <1>6, <1>7, <1>8
  DEF Next, Indexer, RebuildTruncate, RebuildInsert, vars

-----------------------------------------------------------------------------
(* A step that leaves the history Clean began Clean, and what it rules out.*)
LEMMA CleanStep ==
  ASSUME TypeOK, Progress, [Next]_vars, Clean'
  PROVE  /\ Clean
         /\ pc' # "idle" => admin' = "idle"
         /\ Throws \/ Crash => reorgs = 0 /\ rebuilds = 0 /\ admin = "idle"
         /\ DaemonReorgs => faults = 0
<1> USE DEF chain, projection, locals, task
<1>1. CASE UNCHANGED vars
  <2>1. Clean
    BY <1>1 DEF vars, Clean
  <2>2. pc' # "idle" => admin' = "idle"
    BY <1>1, <2>1 DEF vars, Clean, Progress, Apart
  <2>3. ~Throws /\ ~Crash /\ ~DaemonReorgs
    BY <1>1 DEF vars, Throws, Crash, DaemonReorgs, TypeOK
  <2> QED
    BY <2>1, <2>2, <2>3
<1>2. CASE Next
  <2>1. ~mixed /\ (pc' # "idle" => admin' = "idle")
    BY <1>2 DEF Next, Clean
  <2>2. /\ reorgs \in Nat /\ faults \in Nat /\ rebuilds \in Nat
        /\ reorgs' \in {reorgs, reorgs + 1} /\ faults' \in {faults, faults + 1}
        /\ rebuilds' \in {rebuilds, rebuilds + 1}
    BY <1>2 DEF Next, Indexer, TypeOK, Fetch, InsertLog, ReadSeen, Upsert, InsertBlocks, SetCursor,
                FindFork, CollectDirty, DeleteBlocks, DeleteLog, Recompute, DropEmpty, MoveCursor,
                RebuildTruncate, RebuildInsert, DaemonReorgs, Throws, Crash
  <2>3. faults' = 0 \/ (reorgs' = 0 /\ rebuilds' = 0)
    BY DEF Clean
  <2>4. Clean
    BY <2>1, <2>2, <2>3 DEF Clean
  <2>5. Throws \/ Crash => reorgs = 0 /\ rebuilds = 0 /\ admin = "idle"
    BY <2>2, <2>3 DEF Throws, Crash, Progress, Apart
  <2>6. DaemonReorgs => faults = 0
    BY <2>2, <2>3 DEF DaemonReorgs
  <2> QED
    BY <2>1, <2>4, <2>5, <2>6
<1> QED
  BY <1>1, <1>2

(* A Clean rollback is one that nothing has disturbed. *)
LEMMA RollingUndisturbed ==
  ASSUME TypeOK, Progress, Clean, pc \in Rolling
  PROVE  faults = 0 /\ reorgs # 0
  BY DEF TypeOK, Progress, ForkLocal, Clean

-----------------------------------------------------------------------------
(* `blocks`.                                                               *)

LEMMA RowsFrame ==
  ASSUME Rows, UNCHANGED <<blocks, faults>>, Base' = Base, Stored' = Stored,
         pc' # "setCursor" \/ UNCHANGED <<pc, batch>>
  PROVE  Rows'
  BY DEF Rows

LEMMA NextRows ==
  ASSUME TypeOK, Generated, Progress, Clean, Rows, [Next]_vars, Clean'
  PROVE  Rows'
<1> USE DEF chain, projection, locals, task, Step
<1>1. CASE UNCHANGED vars
  BY <1>1 DEF vars, Rows, Base, Stored, Last
<1>2. CASE Fetch
  <2>1. pc \notin AfterCut /\ pc' \notin AfterCut /\ pc # "setCursor" /\ pc' # "setCursor"
    BY <1>2 DEF Fetch, AfterCut, AfterLogCut
  <2> QED
    BY <1>2, <2>1, RowsFrame DEF Fetch, Base, Stored
<1>3. CASE InsertLog \/ ReadSeen \/ Upsert \/ FindFork \/ CollectDirty
  <2>1. pc \notin AfterCut /\ pc' \notin AfterCut /\ pc # "setCursor" /\ pc' # "setCursor"
    BY <1>3 DEF InsertLog, ReadSeen, Upsert, FindFork, CollectDirty, AfterCut, AfterLogCut
  <2>2. UNCHANGED <<blocks, faults, cursor>>
    BY <1>3 DEF InsertLog, ReadSeen, Upsert, FindFork, CollectDirty
  <2> QED
    BY <2>1, <2>2, RowsFrame DEF Base, Stored
<1>4. CASE DeleteLog \/ Recompute \/ DropEmpty
  <2>1. pc \in AfterCut /\ pc' \in AfterCut /\ pc # "setCursor" /\ pc' # "setCursor"
    BY <1>4 DEF DeleteLog, Recompute, DropEmpty, AfterCut, AfterLogCut
  <2>2. UNCHANGED <<blocks, faults, fork>>
    BY <1>4 DEF DeleteLog, Recompute, DropEmpty
  <2> QED
    BY <2>1, <2>2, RowsFrame DEF Base, Stored
<1>5. CASE RebuildTruncate \/ RebuildInsert \/ DaemonReorgs
  <2>1. UNCHANGED <<blocks, faults, fork, cursor, pc, batch>>
    BY <1>5 DEF RebuildTruncate, RebuildInsert, DaemonReorgs
  <2> QED
    BY <2>1, RowsFrame DEF Base, Stored, Last
<1>6. CASE InsertBlocks
  <2>1. /\ Last \in cursor.height + 1 .. MaxHeight
        /\ DOMAIN batch = cursor.height + 1 .. Last
        /\ cursor.height \in 0 .. MaxHeight
    BY <1>6, BatchIs DEF InsertBlocks, TypeOK, Applying, AfterLog
  <2>2. /\ pc = "insertBlocks" /\ pc' = "setCursor" /\ UNCHANGED <<batch, cursor, faults>>
    BY <1>6 DEF InsertBlocks
  <2>3. Base = cursor.height /\ Stored = cursor.height /\ Base' = cursor.height /\ Stored' = Last
    BY <2>2 DEF Base, Stored, AfterCut, AfterLogCut, Last
  <2>4. \A h \in Heights : blocks'[h] = IF blocks[h] = None /\ h \in DOMAIN batch
                                          THEN batch[h].gen ELSE blocks[h]
    BY <1>6 DEF InsertBlocks
  <2>5. \A h \in DOMAIN batch : blocks[h] \in {None, batch[h].gen}
    <3> TAKE h \in DOMAIN batch
    <3>1. h \in Heights /\ batch[h].gen \in Generations /\ blocks[h] \in Generations \cup {None}
      BY BatchType DEF Block, TypeOK
    <3>2. CASE faults = 0
      BY <2>1, <2>3, <3>1, <3>2 DEF Rows
    <3>3. CASE faults # 0
      <4>1. reorgs = 0 /\ batch[h].gen <= 0 /\ blocks[h] <= 0
        BY <3>1, <3>3 DEF Clean, Generated
      <4> QED
        BY <3>1, <4>1
    <3> QED
      BY <3>2, <3>3
  <2>6. \A h \in 1 .. cursor.height : blocks'[h] # None
    BY <2>1, <2>3, <2>4 DEF Rows
  <2>7. faults' = 0 => \A h \in Heights : h > Last => blocks'[h] = None
    BY <2>1, <2>2, <2>3, <2>4 DEF Rows
  <2>8. \A h \in DOMAIN batch : blocks'[h] = batch[h].gen
    BY <2>4, <2>5, BatchType
  <2> QED
    BY <2>2, <2>3, <2>6, <2>7, <2>8 DEF Rows
<1>7. CASE SetCursor
  <2>1. /\ Last \in cursor.height + 1 .. MaxHeight
        /\ DOMAIN batch = cursor.height + 1 .. Last
        /\ cursor.height \in 0 .. MaxHeight
    BY <1>7, BatchIs DEF SetCursor, TypeOK, Applying, AfterLog
  <2>2. pc = "setCursor" /\ pc' = "idle" /\ cursor'.height = Last /\ UNCHANGED <<blocks, faults>>
    BY <1>7, EndsLocals DEF SetCursor, Last
  <2>3. Base = cursor.height /\ Stored = Last /\ Base' = Last /\ Stored' = Last
    BY <2>2 DEF Base, Stored, AfterCut, AfterLogCut
  <2>4. \A h \in 1 .. Last : blocks[h] # None
    <3> TAKE h \in 1 .. Last
    <3>1. CASE h <= cursor.height
      BY <2>1, <2>3, <3>1 DEF Rows
    <3>2. CASE ~(h <= cursor.height)
      <4>1. h \in DOMAIN batch
        BY <2>1, <3>2
      <4> QED
        BY <2>2, <4>1, BatchType DEF Rows, Block
    <3> QED
      BY <3>1, <3>2
  <2> QED
    BY <2>2, <2>3, <2>4 DEF Rows
<1>8. CASE DeleteBlocks
  <2>1. pc = "deleteBlocks" /\ pc' = "deleteLog" /\ UNCHANGED <<fork, faults, cursor>>
    BY <1>8 DEF DeleteBlocks
  <2>2. Base = cursor.height /\ Base' = fork /\ Stored' = fork
    BY <2>1 DEF Base, Stored, AfterCut, AfterLogCut
  <2>3. fork <= cursor.height /\ fork \in 0 .. MaxHeight /\ cursor.height \in 0 .. MaxHeight
    BY <2>1, Awaits DEF Progress, ForkLocal, TypeOK
  <2>4. \A h \in Heights : blocks'[h] = IF h > fork THEN None ELSE blocks[h]
    BY <1>8 DEF DeleteBlocks, Above
  <2> QED
    BY <2>1, <2>2, <2>3, <2>4 DEF Rows
<1>9. CASE MoveCursor
  <2>1. /\ pc = "moveCursor" /\ pc' = "idle" /\ UNCHANGED <<blocks, faults>>
        /\ cursor'.height = fork
    BY <1>9, EndsLocals DEF MoveCursor
  <2> QED
    BY <2>1, RowsFrame DEF Base, Stored, AfterCut, AfterLogCut
<1>10. CASE Throws \/ Crash
  <2>1. reorgs = 0
    BY <1>10, CleanStep
  <2>2. pc' = "idle" /\ UNCHANGED <<blocks, cursor>> /\ faults' = faults + 1
    BY <1>10, EndsLocals DEF Throws, Crash
  <2>3. pc \notin Rolling
    BY <2>1 DEF Progress, ForkLocal
  <2>4. Base = cursor.height /\ Base' = cursor.height
    BY <2>2, <2>3 DEF Base, Rolling, AfterFork, AfterCut, AfterLogCut
  <2>5. faults' # 0
    BY <2>2 DEF TypeOK
  <2> QED
    BY <2>2, <2>4, <2>5 DEF Rows
<1> QED
  BY <1>1, <1>2, <1>3, <1>4, <1>5, <1>6, <1>7, <1>8, <1>9, <1>10 DEF Next, Indexer

-----------------------------------------------------------------------------
(* `address_balance_history`.                                              *)

LEMMA LogFrame ==
  ASSUME LogRows, UNCHANGED <<log, blocks, daemon, reorgs, faults>>, Base' = Base, Edge' = Edge,
         pc' \notin AfterLog \/ (pc \in AfterLog /\ UNCHANGED batch)
  PROVE  LogRows'
<1> SUFFICES ASSUME NEW a \in Addresses
             PROVE  (LogBelow(a) /\ LogBatch(a) /\ LogAbove(a) /\ LogTrue(a))'
  BY DEF LogRows
<1>1. LogBelow(a) /\ LogBatch(a) /\ LogAbove(a) /\ LogTrue(a)
  BY DEF LogRows
<1>2. LogBelow(a)'
  BY <1>1 DEF LogBelow
<1>3. LogBatch(a)'
  BY <1>1 DEF LogBatch
<1>4. LogAbove(a)' /\ LogTrue(a)'
  BY <1>1 DEF LogAbove, LogTrue
<1> QED
  BY <1>2, <1>3, <1>4

LEMMA InsertLogRows ==
  ASSUME TypeOK, Generated, Progress, Clean, Rows, LogRows, InsertLog, NEW a \in Addresses
  PROVE  (LogBelow(a) /\ LogBatch(a) /\ LogAbove(a) /\ LogTrue(a))'
<1> USE DEF chain, projection, locals, task, Step
<1>1. /\ Last \in cursor.height + 1 .. MaxHeight
      /\ DOMAIN batch = cursor.height + 1 .. Last
      /\ cursor.height \in 0 .. MaxHeight
  BY BatchIs, Awaits DEF InsertLog, TypeOK
<1>2. /\ pc = "insertLog" /\ pc' = "readSeen"
      /\ UNCHANGED <<daemon, reorgs, batch, blocks, cursor, faults, Last>>
  BY DEF InsertLog, Last
<1>3. Base = cursor.height /\ Base' = cursor.height /\ Edge = cursor.height /\ Edge' = Last
  BY <1>2 DEF Base, Edge, AfterCut, AfterLogCut, AfterLog
<1>4. \A h \in Heights :
        log'[a][h] = IF log[a][h] = None /\ h \in DOMAIN batch /\ a \in batch[h].touches
                       THEN batch[h].gen ELSE log[a][h]
  BY DEF InsertLog
<1>5. \A h \in DOMAIN batch : h \in Heights /\ batch[h] \in Block /\ batch[h].gen # None
  BY BatchType DEF Block
<1>6. LogBelow(a) /\ LogAbove(a) /\ LogTrue(a)
  BY DEF LogRows
<1>7. LogBelow(a)'
  <2>1. \A h \in 1 .. cursor.height : log'[a][h] = log[a][h]
    BY <1>1, <1>4
  <2> QED
    BY <1>2, <1>3, <1>6, <2>1 DEF LogBelow
<1>8. reorgs = 0 => \A h \in DOMAIN batch : batch[h] = daemon[h] /\ batch[h].gen = 0
  <2> SUFFICES ASSUME reorgs = 0, NEW h \in DOMAIN batch
               PROVE  batch[h] = daemon[h] /\ batch[h].gen = 0
    OBVIOUS
  <2>1. batch[h].gen = 0 /\ daemon[h].gen = 0
    BY <1>5 DEF Generated, Block, TypeOK
  <2> QED
    BY <2>1 DEF Progress, BatchLocal
<1>9. LogTrue(a)'
  BY <1>2, <1>4, <1>6, <1>8 DEF LogTrue
<1>10. LogAbove(a)'
  BY <1>1, <1>2, <1>3, <1>4, <1>6 DEF LogAbove
<1>11. LogBatch(a)'
  <2> SUFFICES ASSUME NEW h \in DOMAIN batch
               PROVE  log'[a][h] = IF a \in batch[h].touches THEN batch[h].gen ELSE None
    BY <1>2 DEF LogBatch
  <2>1. CASE log[a][h] = None
    BY <1>4, <1>5, <2>1
  <2>2. CASE log[a][h] # None
    <3>1. reorgs = 0
      BY <1>1, <1>3, <1>5, <1>6, <2>2 DEF LogAbove, Clean
    <3>2. log[a][h] = 0 /\ a \in daemon[h].touches
      BY <1>5, <1>6, <2>2, <3>1 DEF LogTrue
    <3> QED
      BY <1>4, <1>5, <1>8, <2>2, <3>1, <3>2
  <2> QED
    BY <2>1, <2>2
<1> QED
  BY <1>7, <1>9, <1>10, <1>11

LEMMA NextLog ==
  ASSUME TypeOK, Generated, Progress, Clean, Rows, LogRows, [Next]_vars, Clean'
  PROVE  LogRows'
<1> USE DEF chain, projection, locals, task, Step
<1>1. CASE UNCHANGED vars
  BY <1>1, LogFrame DEF vars, Base, Edge, Last
<1>2. CASE InsertLog
  BY <1>2, InsertLogRows DEF LogRows
<1>3. CASE Fetch \/ FindFork \/ CollectDirty
  <2>1. /\ UNCHANGED <<log, blocks, daemon, reorgs, faults, cursor>>
        /\ pc \notin AfterCut \cup AfterLog /\ pc' \notin AfterCut \cup AfterLog
    BY <1>3 DEF Fetch, FindFork, CollectDirty, AfterCut, AfterLogCut, AfterLog
  <2> QED
    BY <2>1, LogFrame DEF Base, Edge, AfterCut
<1>4. CASE ReadSeen \/ Upsert
  <2>1. /\ UNCHANGED <<log, blocks, daemon, reorgs, faults, cursor, batch, Last>>
        /\ pc \notin AfterCut /\ pc' \notin AfterCut /\ pc \in AfterLog /\ pc' \in AfterLog
    BY <1>4 DEF ReadSeen, Upsert, AfterCut, AfterLogCut, AfterLog, Last
  <2> QED
    BY <2>1, LogFrame DEF Base, Edge
<1>5. CASE Recompute \/ DropEmpty
  <2>1. /\ UNCHANGED <<log, blocks, daemon, reorgs, faults, fork>>
        /\ pc \in AfterLogCut /\ pc' \in AfterLogCut /\ pc \notin AfterLog /\ pc' \notin AfterLog
    BY <1>5 DEF Recompute, DropEmpty, AfterLogCut, AfterLog
  <2> QED
    BY <2>1, LogFrame DEF Base, Edge, AfterCut
<1>6. CASE MoveCursor
  <2>1. /\ UNCHANGED <<log, blocks, daemon, reorgs, faults>>
        /\ pc = "moveCursor" /\ pc' = "idle" /\ cursor'.height = fork
    BY <1>6, EndsLocals DEF MoveCursor
  <2> QED
    BY <2>1, LogFrame DEF Base, Edge, AfterCut, AfterLogCut, AfterLog
<1>7. CASE RebuildTruncate \/ RebuildInsert
  <2>1. UNCHANGED <<log, blocks, daemon, reorgs, faults, fork, cursor, pc, batch>>
    BY <1>7 DEF RebuildTruncate, RebuildInsert
  <2> QED
    BY <2>1, LogFrame DEF Base, Edge, Last
<1>8. CASE InsertBlocks
  <2>1. /\ pc = "insertBlocks" /\ pc' = "setCursor"
        /\ UNCHANGED <<log, daemon, reorgs, faults, cursor, batch, Last>>
    BY <1>8 DEF InsertBlocks, Last
  <2>2. Base = cursor.height /\ Base' = Base /\ Edge' = Edge /\ pc \in AfterLog
    BY <2>1 DEF Base, Edge, AfterCut, AfterLogCut, AfterLog
  <2>3. \A h \in 1 .. Base : blocks'[h] = blocks[h]
    BY <1>8, <2>2 DEF InsertBlocks, Rows, TypeOK
  <2> SUFFICES ASSUME NEW a \in Addresses
               PROVE  (LogBelow(a) /\ LogBatch(a) /\ LogAbove(a) /\ LogTrue(a))'
    BY DEF LogRows
  <2>4. LogBelow(a)'
    BY <2>1, <2>2, <2>3 DEF LogRows, LogBelow
  <2>5. LogBatch(a)'
    BY <2>1, <2>2 DEF LogRows, LogBatch
  <2>6. LogAbove(a)' /\ LogTrue(a)'
    BY <2>1, <2>2 DEF LogRows, LogAbove, LogTrue
  <2> QED
    BY <2>4, <2>5, <2>6
<1>9. CASE SetCursor
  <2>1. /\ Last \in cursor.height + 1 .. MaxHeight
        /\ DOMAIN batch = cursor.height + 1 .. Last
        /\ cursor.height \in 0 .. MaxHeight
    BY <1>9, BatchIs, Awaits DEF SetCursor, TypeOK
  <2>2. /\ pc = "setCursor" /\ pc' = "idle" /\ cursor'.height = Last
        /\ UNCHANGED <<log, daemon, blocks, faults, reorgs>>
    BY <1>9, EndsLocals DEF SetCursor, Last
  <2>3. Base = cursor.height /\ Base' = Last /\ Edge = Last /\ Edge' = Last
        /\ pc \in AfterLog /\ pc' \notin AfterLog
    BY <2>2 DEF Base, Edge, AfterCut, AfterLogCut, AfterLog
  <2> SUFFICES ASSUME NEW a \in Addresses
               PROVE  (LogBelow(a) /\ LogBatch(a) /\ LogAbove(a) /\ LogTrue(a))'
    BY DEF LogRows
  <2>4. LogBelow(a) /\ LogBatch(a) /\ LogAbove(a) /\ LogTrue(a)
    BY DEF LogRows
  <2>5. ASSUME NEW h \in 1 .. Last
        PROVE  /\ log[a][h] \in {None, blocks[h]}
               /\ blocks[h] = daemon[h].gen => (log[a][h] # None <=> a \in daemon[h].touches)
    <3>1. CASE h \in 1 .. cursor.height
      BY <2>3, <2>4, <3>1 DEF LogBelow
    <3>2. CASE h \notin 1 .. cursor.height
      <4>1. h \in DOMAIN batch
        BY <2>1, <3>2
      <4>2. log[a][h] = IF a \in batch[h].touches THEN batch[h].gen ELSE None
        BY <2>3, <2>4, <4>1 DEF LogBatch
      <4>3. blocks[h] = batch[h].gen /\ batch[h].gen # None
        BY <2>2, <4>1, BatchType DEF Rows, Block
      <4>4. batch[h].gen = daemon[h].gen => batch[h] = daemon[h]
        BY <4>1 DEF Progress, BatchLocal
      <4> QED
        BY <4>2, <4>3, <4>4
    <3> QED
      BY <3>1, <3>2
  <2>6. LogBelow(a)'
    BY <2>2, <2>3, <2>5 DEF LogBelow
  <2>7. LogBatch(a)' /\ LogAbove(a)' /\ LogTrue(a)'
    BY <2>2, <2>3, <2>4 DEF LogBatch, LogAbove, LogTrue
  <2> QED
    BY <2>6, <2>7
<1>10. CASE DeleteBlocks
  <2>1. /\ pc = "deleteBlocks" /\ pc' = "deleteLog"
        /\ UNCHANGED <<log, daemon, reorgs, fork, faults, cursor>>
    BY <1>10 DEF DeleteBlocks
  <2>2. Base = cursor.height /\ Base' = fork /\ Edge' = Edge
        /\ pc' \notin AfterLog
    BY <2>1 DEF Base, Edge, AfterCut, AfterLogCut, AfterLog
  <2>3. fork <= cursor.height /\ fork \in 0 .. MaxHeight /\ cursor.height \in 0 .. MaxHeight
    BY <2>1, Awaits DEF Progress, ForkLocal, TypeOK
  <2>4. \A h \in 1 .. fork : blocks'[h] = blocks[h] /\ h \in 1 .. Base
    BY <1>10, <2>2, <2>3 DEF DeleteBlocks, Above
  <2> SUFFICES ASSUME NEW a \in Addresses
               PROVE  (LogBelow(a) /\ LogBatch(a) /\ LogAbove(a) /\ LogTrue(a))'
    BY DEF LogRows
  <2>5. LogBelow(a)'
    BY <2>1, <2>2, <2>4 DEF LogRows, LogBelow
  <2>6. LogBatch(a)' /\ LogAbove(a)' /\ LogTrue(a)'
    BY <2>1, <2>2 DEF LogRows, LogBatch, LogAbove, LogTrue
  <2> QED
    BY <2>5, <2>6
<1>11. CASE DeleteLog
  <2>1. /\ pc = "deleteLog" /\ pc' = "recompute"
        /\ UNCHANGED <<daemon, reorgs, fork, faults, cursor, blocks>>
    BY <1>11 DEF DeleteLog
  <2>2. Base = fork /\ Base' = fork /\ Edge' = fork /\ pc' \notin AfterLog
    BY <2>1 DEF Base, Edge, AfterCut, AfterLogCut, AfterLog
  <2>3. fork \in 0 .. MaxHeight
    BY DEF TypeOK
  <2>4. reorgs # 0
    BY <2>1, Awaits, RollingUndisturbed
  <2> SUFFICES ASSUME NEW a \in Addresses
               PROVE  (LogBelow(a) /\ LogBatch(a) /\ LogAbove(a) /\ LogTrue(a))'
    BY DEF LogRows
  <2>5. \A h \in Heights : log'[a][h] = IF h > fork THEN None ELSE log[a][h]
    BY <1>11 DEF DeleteLog, Above
  <2>6. LogBelow(a)'
    BY <2>1, <2>2, <2>3, <2>5 DEF LogRows, LogBelow
  <2>7. LogBatch(a)' /\ LogAbove(a)' /\ LogTrue(a)'
    BY <2>1, <2>2, <2>3, <2>4, <2>5 DEF LogBatch, LogAbove, LogTrue
  <2> QED
    BY <2>6, <2>7
<1>12. CASE DaemonReorgs
  <2>1. UNCHANGED <<log, blocks, faults, cursor, pc, batch, fork>>
    BY <1>12 DEF DaemonReorgs
  <2>2. Base' = Base /\ Edge' = Edge
    BY <2>1 DEF Base, Edge, Last
  <2>3. reorgs' # 0
    BY <1>12, NewChain
  <2>4. \A h \in 1 .. Base : h \in Heights
    BY DEF Base, TypeOK
  <2>5. \A h \in Heights : blocks[h] = daemon'[h].gen => daemon'[h] = daemon[h]
    <3> TAKE h \in Heights
    <3>1. blocks[h] <= reorgs /\ blocks[h] \in Int /\ reorgs' = reorgs + 1 /\ reorgs \in Int
      BY <1>12, NewChain DEF Generated, TypeOK
    <3> QED
      BY <1>12, <3>1, NewChain
  <2> SUFFICES ASSUME NEW a \in Addresses
               PROVE  (LogBelow(a) /\ LogBatch(a) /\ LogAbove(a) /\ LogTrue(a))'
    BY DEF LogRows
  <2>6. LogBelow(a)'
    BY <2>1, <2>2, <2>4, <2>5 DEF LogRows, LogBelow
  <2>7. LogBatch(a)' /\ LogAbove(a)' /\ LogTrue(a)'
    BY <2>1, <2>2, <2>3 DEF LogRows, LogBatch, LogAbove, LogTrue
  <2> QED
    BY <2>6, <2>7
<1>13. CASE Throws \/ Crash
  <2>1. reorgs = 0
    BY <1>13, CleanStep
  <2>2. /\ pc' = "idle" /\ UNCHANGED <<blocks, log, daemon, reorgs, cursor>> /\ faults' # 0
    BY <1>13, EndsLocals DEF Throws, Crash, TypeOK
  <2>3. pc \notin Rolling
    BY <2>1 DEF Progress, ForkLocal
  <2>4. Base = cursor.height /\ Base' = cursor.height /\ pc' \notin AfterLog
    BY <2>2, <2>3 DEF Base, Rolling, AfterFork, AfterCut, AfterLogCut, AfterLog
  <2> SUFFICES ASSUME NEW a \in Addresses
               PROVE  (LogBelow(a) /\ LogBatch(a) /\ LogAbove(a) /\ LogTrue(a))'
    BY DEF LogRows
  <2>5. LogBelow(a)'
    BY <2>2, <2>4 DEF LogRows, LogBelow
  <2>6. LogBatch(a)' /\ LogAbove(a)' /\ LogTrue(a)'
    BY <2>2, <2>4 DEF LogRows, LogBatch, LogAbove, LogTrue
  <2> QED
    BY <2>5, <2>6
<1> QED
  BY <1>1, <1>2, <1>3, <1>4, <1>5, <1>6, <1>7, <1>8, <1>9, <1>10, <1>11, <1>12, <1>13
  DEF Next, Indexer

-----------------------------------------------------------------------------
(* `address_state`.                                                        *)

LEMMA CountedFrame ==
  ASSUME NEW a \in Addresses, Counted(a),
         total'[a] = total[a], lastSeen'[a] = lastSeen[a], log'[a] = log[a],
         \A h \in 1 .. Counts' : h \in 1 .. Counts,
         faults' = 0 => faults = 0,
         reorgs' = 0 => reorgs = 0 /\ daemon' = daemon
  PROVE  Counted(a)'
<1>1. Once(a)'
  <2> SUFFICES ASSUME NEW h \in Heights, NEW g \in Generations
               PROVE  total'[a][<<h, g>>] = IF log'[a][h] = g /\ h <= lastSeen'[a] THEN 1 ELSE 0
    BY DEF Once
  <2>1. total[a][<<h, g>>] = IF log[a][h] = g /\ h <= lastSeen[a] THEN 1 ELSE 0
    BY DEF Counted, Once
  <2> QED
    BY <2>1
<1>2. SeenBelow(a)'
  BY DEF Counted, SeenBelow
<1>3. SeenLogged(a)'
  BY DEF Counted, SeenLogged
<1>4. SeenWhole(a)'
  BY DEF Counted, SeenWhole
<1> QED
  BY <1>1, <1>2, <1>3, <1>4 DEF Counted

(* A new row of the log is above last_seen_block: it is not counted yet. *)
LEMMA InsertLogCounted ==
  ASSUME TypeOK, Generated, Progress, Clean, Rows, LogRows, InsertLog,
         NEW a \in Addresses, Counted(a)
  PROVE  Counted(a)'
<1> USE DEF chain, projection, locals, task, Step
<1>1. /\ Last \in cursor.height + 1 .. MaxHeight
      /\ DOMAIN batch = cursor.height + 1 .. Last
      /\ cursor.height \in 0 .. MaxHeight
  BY BatchIs, Awaits DEF InsertLog, TypeOK
<1>2. /\ pc = "insertLog" /\ pc' = "readSeen"
      /\ UNCHANGED <<daemon, reorgs, total, lastSeen, cursor, faults>>
  BY DEF InsertLog
<1>3. Edge = cursor.height /\ Counts = cursor.height /\ Counts' = cursor.height
  BY <1>2 DEF Edge, Counts, Absorbed, Base, AfterCut, AfterLogCut, AfterLog
<1>4. \A h \in Heights :
        log'[a][h] = IF log[a][h] = None /\ h \in DOMAIN batch /\ a \in batch[h].touches
                       THEN batch[h].gen ELSE log[a][h]
  BY DEF InsertLog
<1>5. lastSeen[a] \in 0 .. MaxHeight /\ \A h \in Heights : log[a][h] \in Generations \cup {None}
  BY DEF TypeOK
<1>6. LogAbove(a) /\ Once(a) /\ SeenBelow(a) /\ SeenLogged(a) /\ SeenWhole(a)
  BY DEF LogRows, Counted
<1>7. ASSUME NEW h \in DOMAIN batch, log[a][h] = None, a \in batch[h].touches
      PROVE  h > lastSeen[a]
  <2>1. h \in Heights /\ h > cursor.height /\ batch[h] \in Block
    BY <1>1, BatchType
  <2>2. CASE faults = 0
    <3>1. lastSeen[a] <= cursor.height
      BY <1>1, <1>3, <1>5, <1>6, <2>2 DEF SeenLogged, LogAbove
    <3> QED
      BY <1>1, <1>5, <2>1, <3>1
  <2>3. CASE faults # 0
    <3>1. reorgs = 0
      BY <2>3 DEF Clean
    <3>2. batch[h].gen = 0 /\ daemon[h].gen = 0
      BY <2>1, <3>1 DEF Generated, Block, TypeOK
    <3>3. batch[h] = daemon[h]
      BY <3>2 DEF Progress, BatchLocal
    <3> QED
      BY <1>5, <1>6, <1>7, <2>1, <3>1, <3>3 DEF SeenWhole
  <2> QED
    BY <2>2, <2>3
<1>8. \A h \in DOMAIN batch : batch[h].gen # None
  BY BatchType DEF Block
<1>9. Once(a)'
  <2> SUFFICES ASSUME NEW h \in Heights, NEW g \in Generations
               PROVE  total[a][<<h, g>>] = IF log'[a][h] = g /\ h <= lastSeen[a] THEN 1 ELSE 0
    BY <1>2 DEF Once
  <2>1. total[a][<<h, g>>] = IF log[a][h] = g /\ h <= lastSeen[a] THEN 1 ELSE 0
    BY <1>6 DEF Once
  <2>2. CASE log'[a][h] = log[a][h]
    BY <2>1, <2>2
  <2>3. CASE log'[a][h] # log[a][h]
    <3>1. log[a][h] = None /\ ~(h <= lastSeen[a])
      BY <1>4, <1>5, <1>7, <2>3
    <3> QED
      BY <2>1, <3>1
  <2> QED
    BY <2>2, <2>3
<1>10. \A h \in Heights : log[a][h] # None => log'[a][h] = log[a][h]
  BY <1>4
<1>11. SeenBelow(a)'
  <2>1. \A h \in 1 .. cursor.height : log'[a][h] = log[a][h]
    BY <1>1, <1>4
  <2> QED
    BY <1>2, <1>3, <1>6, <2>1 DEF SeenBelow
<1>12. SeenLogged(a)' /\ SeenWhole(a)'
  BY <1>2, <1>5, <1>6, <1>10 DEF SeenLogged, SeenWhole
<1> QED
  BY <1>9, <1>11, <1>12 DEF Counted

(* The upsert adds the deltas above last_seen_block and raises it to the   *)
(* last of them: between the two there is nothing else to count.           *)
LEMMA UpsertCounted ==
  ASSUME TypeOK, Generated, Progress, Clean, Rows, LogRows, Upsert, seen = lastSeen,
         NEW a \in Addresses, Counted(a)
  PROVE  Counted(a)'
<1> USE DEF chain, projection, locals, task, Step
<1> DEFINE top == lastSeen'[a]
<1>1. /\ Last \in cursor.height + 1 .. MaxHeight
      /\ DOMAIN batch = cursor.height + 1 .. Last
      /\ cursor.height \in 0 .. MaxHeight
  BY BatchIs, Awaits DEF Upsert, TypeOK
<1>2. /\ pc = "upsert" /\ pc' = "insertBlocks"
      /\ UNCHANGED <<daemon, reorgs, log, cursor, faults, batch, Last>>
  BY DEF Upsert, Last
<1>3. Base = cursor.height /\ Counts = cursor.height /\ Counts' = Last /\ pc \in AfterLog
  BY <1>2 DEF Counts, Absorbed, Base, AfterCut, AfterLogCut, AfterLog
<1>4. lastSeen[a] \in 0 .. MaxHeight /\ \A h \in Heights : log[a][h] \in Generations \cup {None}
  BY DEF TypeOK
<1>5. /\ top \in 0 .. MaxHeight /\ lastSeen[a] <= top
      /\ top # lastSeen[a] => top \in Fresh(a)
      /\ \A h \in Fresh(a) : h <= top
  BY FreshTop DEF Upsert
<1>6. \A h : h \in Fresh(a) <=> h \in DOMAIN batch /\ a \in batch[h].touches /\ h > lastSeen[a]
  BY DEF Fresh
<1>7. \A h \in DOMAIN batch : h \in Heights /\ batch[h].gen \in Generations
  BY BatchType DEF Block
<1>8. \A h \in DOMAIN batch : log[a][h] = IF a \in batch[h].touches THEN batch[h].gen ELSE None
  BY <1>3 DEF LogRows, LogBatch
<1>9. Once(a) /\ SeenBelow(a) /\ SeenLogged(a) /\ SeenWhole(a)
  BY DEF Counted
<1>10. \A h \in Heights, g \in Generations :
         total'[a][<<h, g>>] = IF h \in Fresh(a) /\ batch[h].gen = g
                                 THEN total[a][<<h, g>>] + 1 ELSE total[a][<<h, g>>]
  BY DEF Upsert, Delta
<1> HIDE DEF top
<1>11. \A h \in Heights \ Fresh(a) : log[a][h] # None => (h <= top <=> h <= lastSeen[a])
  <2> SUFFICES ASSUME NEW h \in Heights \ Fresh(a), log[a][h] # None
               PROVE  h <= top <=> h <= lastSeen[a]
    OBVIOUS
  <2>1. CASE h \in DOMAIN batch
    BY <1>4, <1>5, <1>6, <1>8, <2>1
  <2>2. CASE h \in 1 .. cursor.height
    BY <1>3, <1>4, <1>5, <1>9, <2>2 DEF SeenBelow
  <2>3. CASE h > Last
    BY <1>1, <1>4, <1>5, <1>6, <2>3
  <2> QED
    BY <1>1, <2>1, <2>2, <2>3
<1>12. Once(a)'
  <2> SUFFICES ASSUME NEW h \in Heights, NEW g \in Generations
               PROVE  total'[a][<<h, g>>] = IF log[a][h] = g /\ h <= top THEN 1 ELSE 0
    BY <1>2 DEF Once, top
  <2>1. total[a][<<h, g>>] = IF log[a][h] = g /\ h <= lastSeen[a] THEN 1 ELSE 0
    BY <1>9 DEF Once
  <2>2. CASE h \in Fresh(a)
    <3>1. log[a][h] = batch[h].gen /\ h <= top /\ ~(h <= lastSeen[a])
      BY <1>4, <1>5, <1>6, <1>8, <2>2
    <3> QED
      BY <1>10, <2>1, <2>2, <3>1
  <2>3. CASE h \notin Fresh(a)
    <3>1. log[a][h] = g => (h <= top <=> h <= lastSeen[a])
      BY <1>11, <2>3
    <3> QED
      BY <1>10, <2>1, <2>3, <3>1
  <2> QED
    BY <2>2, <2>3
<1>13. SeenBelow(a)'
  <2> SUFFICES ASSUME NEW h \in 1 .. Last, log[a][h] # None
               PROVE  h <= top
    BY <1>2, <1>3 DEF SeenBelow, top
  <2>1. CASE h \in DOMAIN batch
    BY <1>1, <1>4, <1>5, <1>6, <1>8, <2>1
  <2>2. CASE h \in 1 .. cursor.height
    BY <1>3, <1>4, <1>5, <1>9, <2>2 DEF SeenBelow
  <2> QED
    BY <1>1, <2>1, <2>2
<1>14. SeenLogged(a)'
  <2>1. CASE top = lastSeen[a]
    BY <1>2, <1>9, <2>1 DEF SeenLogged, top
  <2>2. CASE top # lastSeen[a]
    <3>1. top \in DOMAIN batch /\ a \in batch[top].touches
      BY <1>5, <1>6, <2>2
    <3>2. log[a][top] # None
      BY <1>7, <1>8, <3>1
    <3> QED
      BY <1>2, <3>2 DEF SeenLogged, top
  <2> QED
    BY <2>1, <2>2
<1>15. SeenWhole(a)'
  <2> SUFFICES ASSUME reorgs = 0, NEW h \in 1 .. top, a \in daemon[h].touches
               PROVE  log[a][h] # None
    BY <1>2 DEF SeenWhole, top
  <2>1. CASE h <= lastSeen[a]
    BY <1>4, <1>9, <2>1 DEF SeenWhole
  <2>2. CASE ~(h <= lastSeen[a])
    <3>1. h \in 1 .. Last /\ h \in Heights
      BY <1>1, <1>4, <1>5, <1>6, <2>2
    <3>2. CASE h \in 1 .. cursor.height
      <4>1. blocks[h] # None /\ LogBelow(a)
        BY <1>3, <3>2 DEF Rows, LogRows
      <4>2. blocks[h] = 0
        BY <3>1, <4>1 DEF Generated, TypeOK
      <4>3. daemon[h].gen = 0
        BY <3>1 DEF Generated, TypeOK, Block
      <4> QED
        BY <1>3, <3>2, <4>1, <4>2, <4>3 DEF LogBelow
    <3>3. CASE h \in DOMAIN batch
      <4>1. batch[h].gen = 0 /\ daemon[h].gen = 0
        BY <1>7, <3>1, <3>3 DEF Generated, TypeOK, Block
      <4>2. batch[h] = daemon[h]
        BY <3>3, <4>1 DEF Progress, BatchLocal
      <4> QED
        BY <1>7, <1>8, <3>3, <4>2
    <3> QED
      BY <1>1, <3>1, <3>2, <3>3
  <2> QED
    BY <2>1, <2>2, <1>4, <1>5
<1> QED
  BY <1>12, <1>13, <1>14, <1>15 DEF Counted

(* The totals recomputed from the log of an address. *)
LEMMA RepairedCounted ==
  ASSUME TypeOK, NEW a \in Addresses, UNCHANGED <<log, daemon, reorgs>>, Logged(a) # {},
         total'[a] = SumOfLog(a), lastSeen'[a] = LastLogged(a),
         \A h \in 1 .. Counts' : h \in Heights,
         reorgs = 0 => \A h \in 1 .. LastLogged(a) : a \in daemon[h].touches => log[a][h] # None
  PROVE  Counted(a)'
<1>1. /\ LastLogged(a) \in Logged(a)
      /\ \A h \in Heights : log[a][h] # None => h <= LastLogged(a)
  BY LastLoggedTop DEF Logged
<1>2. Once(a)'
  <2> SUFFICES ASSUME NEW h \in Heights, NEW g \in Generations
               PROVE  total'[a][<<h, g>>] = IF log[a][h] = g /\ h <= lastSeen'[a] THEN 1 ELSE 0
    BY DEF Once
  <2>1. total'[a][<<h, g>>] = IF log[a][h] = g THEN 1 ELSE 0
    BY DEF SumOfLog, Delta
  <2>2. log[a][h] = g => h <= lastSeen'[a]
    BY <1>1
  <2> QED
    BY <2>1, <2>2
<1>3. SeenBelow(a)'
  BY <1>1 DEF SeenBelow
<1>4. SeenLogged(a)' /\ SeenWhole(a)'
  BY <1>1 DEF SeenLogged, SeenWhole, Logged
<1> QED
  BY <1>2, <1>3, <1>4 DEF Counted

(* No row, and nothing logged: there is nothing to count. *)
LEMMA EmptyCounted ==
  ASSUME TypeOK, NEW a \in Addresses, UNCHANGED <<log, daemon, reorgs>>, Logged(a) = {},
         Emptied(a)', \A h \in 1 .. Counts' : h \in Heights
  PROVE  Counted(a)'
<1>1. \A h \in Heights : log[a][h] = None
  BY DEF Logged
<1>2. Once(a)'
  <2> SUFFICES ASSUME NEW h \in Heights, NEW g \in Generations
               PROVE  total'[a][<<h, g>>] = IF log[a][h] = g /\ h <= lastSeen'[a] THEN 1 ELSE 0
    BY DEF Once
  <2>1. total'[a][<<h, g>>] = 0 /\ log[a][h] # g
    BY <1>1 DEF Emptied
  <2> QED
    BY <2>1
<1>3. SeenBelow(a)' /\ SeenLogged(a)' /\ SeenWhole(a)'
  BY <1>1 DEF SeenBelow, SeenLogged, SeenWhole, Emptied
<1> QED
  BY <1>2, <1>3 DEF Counted

LEMMA CountsInRange == TypeOK /\ Progress => Counts \in 0 .. MaxHeight
<1> SUFFICES ASSUME TypeOK, Progress PROVE Counts \in 0 .. MaxHeight
  OBVIOUS
<1>1. CASE pc \in Absorbed
  BY <1>1, BatchIs DEF Absorbed, Applying, AfterLog, Counts, TypeOK
<1>2. CASE pc \notin Absorbed
  BY <1>2 DEF Counts, Base, TypeOK
<1> QED
  BY <1>1, <1>2

LEMMA CountsStayInRange == TypeOK' /\ Progress' => (Counts \in 0 .. MaxHeight)'
  BY CountsInRange, PTL

(* Outside a rollback no address is stale. *)
LEMMA NoneStale ==
  /\ pc \notin {"recompute", "dropEmpty"} => Stale = {}
  /\ pc' \notin {"recompute", "dropEmpty"} => Stale' = {}
  BY DEF Stale

(* What is left of Totals when the step is not one of a rollback's first   *)
(* half: the totals of each address.                                       *)
LEMMA TotalsOf ==
  ASSUME admin' = "idle", pc' \notin {"upsert", "deleteBlocks", "deleteLog"},
         \A a \in Addresses : a \notin Stale' => Counted(a)'
  PROVE  Totals'
  BY DEF Totals

LEMMA NextTotals ==
  ASSUME TypeOK, Generated, Progress, Clean, Rows, LogRows, Totals, [Next]_vars,
         TypeOK', Progress', Clean'
  PROVE  Totals'
<1> USE DEF chain, projection, locals, task, Step
<1>0. pc' # "idle" => admin' = "idle"
  BY CleanStep
<1>1. CASE UNCHANGED vars
  <2>1. UNCHANGED <<Stale, Counts, Touched>>
    BY <1>1 DEF vars, Stale, Counts, Base, Last, Touched, Logged
  <2>2. \A a \in Addresses : Counted(a) => Counted(a)'
    BY <1>1, <2>1, CountedFrame DEF vars
  <2>3. \A a \in Addresses : Emptied(a) => Emptied(a)'
    BY <1>1 DEF vars, Emptied
  <2> QED
    BY <1>1, <2>1, <2>2, <2>3 DEF vars, Totals
<1>2. CASE Next /\ Indexer /\ UNCHANGED task
  <2>1. admin = "idle" /\ admin' = "idle"
    <3>1. CASE pc = "idle"
      <4>1. pc' # "idle"
        BY <1>2, <3>1
        DEF Indexer, Fetch, InsertLog, ReadSeen, Upsert, InsertBlocks, SetCursor, FindFork,
            CollectDirty, DeleteBlocks, DeleteLog, Recompute, DropEmpty, MoveCursor
      <4> QED
        BY <1>0, <1>2, <4>1
    <3>2. CASE pc # "idle"
      BY <1>2, <3>2 DEF Clean, Progress, Apart
    <3> QED
      BY <3>1, <3>2
  <2>2. \A a \in Addresses : a \notin Stale => Counted(a)
    BY <2>1 DEF Totals
  <2>3. Counts \in 0 .. MaxHeight /\ Counts' \in 0 .. MaxHeight
    BY CountsInRange, CountsStayInRange
  <2>4. CASE Fetch
    <3>1. /\ UNCHANGED <<chain, log, projection, cursor, faults>>
          /\ pc = "idle" /\ pc' \in {"findFork", "insertLog"}
      BY <2>4 DEF Fetch
    <3>2. Counts = cursor.height /\ Counts' = cursor.height
      BY <3>1 DEF Counts, Absorbed, Base, AfterCut, AfterLogCut
    <3>3. \A a \in Addresses : Counted(a)'
      BY <2>2, <3>1, <3>2, NoneStale, CountedFrame
    <3> QED
      BY <2>1, <3>1, <3>3, TotalsOf
  <2>5. CASE InsertLog
    <3>1. pc = "insertLog" /\ pc' = "readSeen"
      BY <2>5 DEF InsertLog
    <3>2. \A a \in Addresses : Counted(a)'
      BY <2>2, <2>5, <3>1, NoneStale, InsertLogCounted
    <3> QED
      BY <2>1, <3>1, <3>2, TotalsOf
  <2>6. CASE ReadSeen
    <3>1. /\ pc = "readSeen" /\ pc' = "upsert" /\ seen' = lastSeen
          /\ UNCHANGED <<chain, log, projection, cursor, faults>>
      BY <2>6 DEF ReadSeen
    <3>2. Counts = cursor.height /\ Counts' = cursor.height
      BY <3>1 DEF Counts, Absorbed, Base, AfterCut, AfterLogCut
    <3>3. \A a \in Addresses : Counted(a)'
      BY <2>2, <3>1, <3>2, NoneStale, CountedFrame
    <3> QED
      BY <2>1, <3>1, <3>3 DEF Totals
  <2>7. CASE Upsert
    <3>1. pc = "upsert" /\ pc' = "insertBlocks" /\ seen = lastSeen
      BY <2>7 DEF Upsert, Totals
    <3>2. \A a \in Addresses : Counted(a)'
      BY <2>2, <2>7, <3>1, NoneStale, UpsertCounted
    <3> QED
      BY <2>1, <3>1, <3>2, TotalsOf
  <2>8. CASE InsertBlocks
    <3>1. /\ pc = "insertBlocks" /\ pc' = "setCursor"
          /\ UNCHANGED <<chain, log, projection, cursor, faults, batch, Last>>
      BY <2>8 DEF InsertBlocks, Last
    <3>2. Counts = Last /\ Counts' = Last
      BY <3>1 DEF Counts, Absorbed
    <3>3. \A a \in Addresses : Counted(a)'
      BY <2>2, <3>1, <3>2, NoneStale, CountedFrame
    <3> QED
      BY <2>1, <3>1, <3>3, TotalsOf
  <2>9. CASE SetCursor
    <3>1. /\ pc = "setCursor" /\ pc' = "idle" /\ cursor'.height = Last
          /\ UNCHANGED <<chain, log, projection, faults>>
      BY <2>9, EndsLocals DEF SetCursor, Last
    <3>2. Counts = Last /\ Counts' = Last
      BY <3>1 DEF Counts, Absorbed, Base, AfterCut, AfterLogCut
    <3>3. \A a \in Addresses : Counted(a)'
      BY <2>2, <3>1, <3>2, NoneStale, CountedFrame
    <3> QED
      BY <2>1, <3>1, <3>3, TotalsOf
  <2>10. CASE FindFork
    <3>1. /\ pc = "findFork" /\ pc' = "collect"
          /\ UNCHANGED <<chain, log, projection, cursor, faults>>
      BY <2>10 DEF FindFork
    <3>2. Counts = cursor.height /\ Counts' = cursor.height
      BY <3>1 DEF Counts, Absorbed, Base, AfterCut, AfterLogCut
    <3>3. \A a \in Addresses : Counted(a)'
      BY <2>2, <3>1, <3>2, NoneStale, CountedFrame
    <3> QED
      BY <2>1, <3>1, <3>3, TotalsOf
  <2>11. CASE CollectDirty
    <3>1. /\ pc = "collect" /\ pc' = "deleteBlocks" /\ dirty' = Touched
          /\ UNCHANGED <<chain, log, projection, cursor, faults, fork>>
      BY <2>11 DEF CollectDirty
    <3>2. Counts = cursor.height /\ Counts' = cursor.height /\ Touched' = Touched
      BY <3>1 DEF Counts, Absorbed, Base, AfterCut, AfterLogCut, Touched, Logged
    <3>3. \A a \in Addresses : Counted(a)'
      BY <2>2, <3>1, <3>2, NoneStale, CountedFrame
    <3> QED
      BY <2>1, <3>1, <3>2, <3>3 DEF Totals
  <2>12. CASE DeleteBlocks
    <3>1. /\ pc = "deleteBlocks" /\ pc' = "deleteLog"
          /\ UNCHANGED <<chain, log, projection, cursor, faults, fork, dirty>>
      BY <2>12 DEF DeleteBlocks
    <3>2. Counts = cursor.height /\ Counts' = fork /\ Touched' = Touched
      BY <3>1 DEF Counts, Absorbed, Base, AfterCut, AfterLogCut, Touched, Logged
    <3>3. \A h \in 1 .. Counts' : h \in 1 .. Counts
      BY <2>3, <3>1, <3>2, Awaits DEF Progress, ForkLocal
    <3>4. \A a \in Addresses : Counted(a)'
      BY <2>2, <3>1, <3>3, NoneStale, CountedFrame
    <3> QED
      BY <2>1, <3>1, <3>2, <3>4 DEF Totals
  <2>13. CASE DeleteLog
    <3>1. /\ pc = "deleteLog" /\ pc' = "recompute" /\ dirty = Touched
          /\ UNCHANGED <<chain, projection, cursor, faults, fork, dirty>>
      BY <2>13 DEF DeleteLog, Totals
    <3>2. Counts = fork /\ Counts' = fork
      BY <3>1 DEF Counts, Absorbed, Base, AfterCut, AfterLogCut
    <3>3. ASSUME NEW a \in Addresses, a \notin Stale' PROVE Counted(a)'
      <4>1. \A h \in Heights : h > fork => log[a][h] = None
        BY <3>1, <3>3 DEF Stale, Touched, Logged
      <4>2. log[a] = [h \in Heights |-> log[a][h]]
        BY DEF TypeOK
      <4>3. log'[a] = [h \in Heights |-> IF h > fork THEN None ELSE log[a][h]]
        BY <2>13 DEF DeleteLog, Above
      <4>4. log'[a] = log[a]
        BY <4>1, <4>2, <4>3
      <4> QED
        BY <2>2, <3>1, <3>2, <4>4, NoneStale, CountedFrame
    <3> QED
      BY <2>1, <3>1, <3>3, TotalsOf
  <2>14. CASE Recompute
    <3>1. /\ pc = "recompute" /\ pc' = "dropEmpty"
          /\ UNCHANGED <<chain, log, cursor, faults, fork, dirty>>
      BY <2>14 DEF Recompute
    <3>2. Counts = fork /\ Counts' = fork
      BY <3>1 DEF Counts, Absorbed, Base, AfterCut, AfterLogCut
    <3>3. ASSUME NEW a \in Addresses, a \notin Stale' PROVE Counted(a)'
      <4>1. CASE a \notin dirty
        <5>1. total'[a] = total[a] /\ lastSeen'[a] = lastSeen[a] /\ a \notin Stale
          BY <2>14, <4>1 DEF Recompute, Stale
        <5> QED
          BY <2>2, <3>1, <3>2, <5>1, CountedFrame
      <4>2. CASE a \in dirty
        <5>1. Logged(a) # {}
          BY <3>1, <3>3, <4>2 DEF Stale, Logged
        <5>2. total'[a] = SumOfLog(a) /\ lastSeen'[a] = LastLogged(a)
          BY <2>14, <4>2, <5>1 DEF Recompute
        <5>3. reorgs # 0
          BY <3>1, Awaits, RollingUndisturbed
        <5>4. \A h \in 1 .. Counts' : h \in Heights
          BY <2>3
        <5> QED
          BY <3>1, <5>1, <5>2, <5>3, <5>4, RepairedCounted
      <4> QED
        BY <4>1, <4>2
    <3> QED
      BY <2>1, <3>1, <3>3, TotalsOf
  <2>15. CASE DropEmpty
    <3>1. /\ pc = "dropEmpty" /\ pc' = "moveCursor"
          /\ UNCHANGED <<chain, log, cursor, faults, fork, dirty>>
      BY <2>15 DEF DropEmpty
    <3>2. Counts = fork /\ Counts' = fork
      BY <3>1 DEF Counts, Absorbed, Base, AfterCut, AfterLogCut
    <3>3. ASSUME NEW a \in Addresses PROVE Counted(a)'
      <4>1. CASE a \in dirty /\ Logged(a) = {}
        <5>1. lastSeen'[a] = 0 /\ total'[a] = NoTotal
          BY <2>15, <4>1 DEF DropEmpty
        <5>2. Emptied(a)'
          BY <5>1 DEF Emptied, NoTotal, Delta
        <5>3. \A h \in 1 .. Counts' : h \in Heights
          BY <2>3
        <5> QED
          BY <3>1, <4>1, <5>2, <5>3, EmptyCounted
      <4>2. CASE ~(a \in dirty /\ Logged(a) = {})
        <5>1. total'[a] = total[a] /\ lastSeen'[a] = lastSeen[a] /\ a \notin Stale
          BY <2>15, <3>1, <4>2 DEF DropEmpty, Stale
        <5> QED
          BY <2>2, <3>1, <3>2, <5>1, CountedFrame
      <4> QED
        BY <4>1, <4>2
    <3> QED
      BY <2>1, <3>1, <3>3, TotalsOf
  <2>16. CASE MoveCursor
    <3>1. /\ pc = "moveCursor" /\ pc' = "idle" /\ cursor'.height = fork
          /\ UNCHANGED <<chain, log, projection, faults>>
      BY <2>16, EndsLocals DEF MoveCursor
    <3>2. Counts = fork /\ Counts' = fork
      BY <3>1 DEF Counts, Absorbed, Base, AfterCut, AfterLogCut
    <3>3. \A a \in Addresses : Counted(a)'
      BY <2>2, <3>1, <3>2, NoneStale, CountedFrame
    <3> QED
      BY <2>1, <3>1, <3>3, TotalsOf
  <2> QED
    BY <1>2, <2>4, <2>5, <2>6, <2>7, <2>8, <2>9, <2>10, <2>11, <2>12, <2>13, <2>14, <2>15, <2>16
    DEF Indexer
<1>3. CASE RebuildTruncate
  <2>1. admin' = "insert" /\ pc' = "idle"
    BY <1>0, <1>3 DEF RebuildTruncate
  <2>2. \A a \in Addresses : Emptied(a)'
    BY <1>3 DEF RebuildTruncate, Emptied, NoTotal, Delta
  <2> QED
    BY <2>1, <2>2 DEF Totals
<1>4. CASE RebuildInsert
  <2>1. /\ admin = "insert" /\ admin' = "idle"
        /\ UNCHANGED <<chain, log, blocks, cursor, pc, faults>>
    BY <1>4 DEF RebuildInsert
  <2>2. pc = "idle" /\ rebuilds # 0
    BY <2>1 DEF Clean, Progress, Apart
  <2>3. faults = 0
    BY <2>2 DEF Clean
  <2>4. \A a \in Addresses : Emptied(a)
    BY <2>1 DEF Totals
  <2>5. /\ total' = [a \in Addresses |-> IF Logged(a) = {} THEN total[a] ELSE SumOfLog(a)]
        /\ lastSeen' = [a \in Addresses |->
             IF Logged(a) = {} THEN lastSeen[a] ELSE LastLogged(a)]
    BY <1>4, <2>4 DEF RebuildInsert, Emptied
  <2>6. Base = cursor.height /\ Edge = cursor.height
    BY <2>2 DEF Base, Edge, AfterCut, AfterLogCut, AfterLog
  <2>7. \A h \in 1 .. Counts' : h \in Heights
    BY CountsStayInRange
  <2>8. ASSUME NEW a \in Addresses PROVE Counted(a)'
    <3>1. CASE Logged(a) = {}
      <4>1. Emptied(a)'
        BY <2>4, <2>5, <3>1 DEF Emptied
      <4> QED
        BY <2>1, <2>7, <3>1, <4>1, EmptyCounted
    <3>2. CASE Logged(a) # {}
      <4>1. LastLogged(a) \in Heights /\ log[a][LastLogged(a)] # None
        BY <3>2, LastLoggedTop DEF Logged
      <4>2. LastLogged(a) <= cursor.height /\ cursor.height \in 0 .. MaxHeight
        <5>1. ~(LastLogged(a) > cursor.height)
          BY <2>3, <2>6, <4>1 DEF LogRows, LogAbove
        <5>2. cursor.height \in 0 .. MaxHeight
          BY DEF TypeOK
        <5> QED
          BY <4>1, <5>1, <5>2
      <4>3. ASSUME reorgs = 0, NEW h \in 1 .. LastLogged(a), a \in daemon[h].touches
            PROVE  log[a][h] # None
        <5>1. h \in 1 .. cursor.height /\ h \in Heights
          BY <4>1, <4>2
        <5>2. blocks[h] # None /\ LogBelow(a)
          BY <2>6, <5>1 DEF Rows, LogRows
        <5>3. blocks[h] = 0
          BY <4>3, <5>1, <5>2, SMTT(30) DEF Generated, TypeOK
        <5>4. daemon[h].gen = 0
          <6>1. daemon[h] \in Block
            BY <5>1 DEF TypeOK
          <6> QED
            BY <4>3, <5>1, <6>1 DEF Generated, Block
        <5> QED
          BY <2>6, <4>3, <5>1, <5>2, <5>3, <5>4 DEF LogBelow
      <4>4. total'[a] = SumOfLog(a) /\ lastSeen'[a] = LastLogged(a)
        BY <2>5, <3>2
      <4> QED
        BY <2>1, <2>7, <3>2, <4>3, <4>4, RepairedCounted
    <3> QED
      BY <3>1, <3>2
  <2> QED
    BY <2>1, <2>2, <2>8, TotalsOf
<1>5. CASE DaemonReorgs
  <2>1. UNCHANGED <<log, projection, cursor, pc, locals, admin, faults>>
    BY <1>5 DEF DaemonReorgs
  <2>2. reorgs' # 0
    BY <1>5, NewChain
  <2>3. UNCHANGED <<Stale, Counts, Touched>>
    BY <2>1 DEF Stale, Counts, Base, Last, Touched, Logged
  <2>4. \A a \in Addresses : Counted(a) => Counted(a)'
    BY <2>1, <2>2, <2>3, CountedFrame
  <2>5. \A a \in Addresses : Emptied(a) => Emptied(a)'
    BY <2>1 DEF Emptied
  <2> QED
    BY <2>1, <2>3, <2>4, <2>5 DEF Totals
<1>6. CASE Throws \/ Crash
  <2>1. reorgs = 0 /\ admin = "idle"
    BY <1>6, CleanStep
  <2>2. /\ pc' = "idle" /\ UNCHANGED <<log, projection, chain, cursor>> /\ faults' # 0
        /\ admin' = "idle"
    BY <1>6, <2>1, EndsLocals DEF Throws, Crash, TypeOK
  <2>3. pc \notin Rolling
    BY <2>1 DEF Progress, ForkLocal
  <2>4. Counts' = cursor.height
    BY <2>2 DEF Counts, Absorbed, Base, AfterCut, AfterLogCut
  <2>5. \A h \in 1 .. Counts' : h \in 1 .. Counts
    <3>1. CASE pc \in Absorbed
      <4>1. Last \in cursor.height + 1 .. MaxHeight /\ Counts = Last /\ cursor.height \in Nat
        BY <3>1, BatchIs DEF Absorbed, Applying, AfterLog, Counts, TypeOK
      <4> QED
        BY <2>4, <4>1
    <3>2. CASE pc \notin Absorbed
      BY <2>3, <2>4, <3>2 DEF Counts, Base, Rolling, AfterFork
    <3> QED
      BY <3>1, <3>2
  <2>6. Stale = {}
    BY <2>3, NoneStale, Awaits
  <2>7. \A a \in Addresses : Counted(a)
    BY <2>1, <2>6 DEF Totals
  <2>8. \A a \in Addresses : Counted(a)'
    BY <2>2, <2>5, <2>7, CountedFrame
  <2> QED
    BY <2>2, <2>8, TotalsOf
<1> QED
  BY <1>1, <1>2, <1>3, <1>4, <1>5, <1>6 DEF Next

-----------------------------------------------------------------------------
(* The invariant, and what follows from it.                                *)

LEMMA InitInvariant == Init => IInv
<1> SUFFICES ASSUME Init PROVE IInv
  OBVIOUS
<1>1. TypeOK /\ Generated /\ Progress
  BY InitType, InitProgress
<1>2. Base = 0 /\ Stored = 0 /\ Edge = 0 /\ Counts = 0 /\ Stale = {} /\ pc = "idle"
  BY DEF Init, Base, Stored, Edge, Counts, Stale, Absorbed, AfterCut, AfterLogCut, AfterLog
<1>3. Rows
  BY <1>2 DEF Init, Rows, NoLog
<1>4. LogRows
  BY <1>2 DEF Init, LogRows, LogBelow, LogBatch, LogAbove, LogTrue, NoLog, AfterLog
<1>5. \A a \in Addresses : Counted(a)
  BY <1>2 DEF Init, Counted, Once, SeenBelow, SeenLogged, SeenWhole, NoLog, NoTotal, NothingSeen,
              Delta
<1>6. Totals
  BY <1>2, <1>5 DEF Totals, Init
<1> QED
  BY <1>1, <1>3, <1>4, <1>6 DEF IInv

LEMMA NextInvariant == IInv /\ [Next]_vars => IInv'
<1> SUFFICES ASSUME IInv, [Next]_vars PROVE IInv'
  OBVIOUS
<1>1. TypeOK /\ Generated /\ Progress
  BY DEF IInv
<1>2. TypeOK' /\ Generated' /\ Progress'
  BY <1>1, NextType, NextGenerated, NextBatch, NextFork, NextApart DEF Progress
<1>3. ASSUME Clean' PROVE Rows' /\ LogRows' /\ Totals'
  <2>1. Clean
    BY <1>1, <1>3, CleanStep
  <2>2. Rows /\ LogRows /\ Totals
    BY <2>1 DEF IInv
  <2> QED
    BY <1>1, <1>2, <1>3, <2>1, <2>2, NextRows, NextLog, NextTotals
<1> QED
  BY <1>2, <1>3 DEF IInv

LEMMA AddressInvariant == Safety => []IInv
  BY InitInvariant, NextInvariant, PTL DEF Safety

(* applyBlocks(), the reorganisation handler and the rebuild keep to the   *)
(* types of the tables, whatever fails and whoever overlaps.               *)
THEOREM AddressTypes == Safety => []TypeOK
<1>1. IInv => TypeOK
  BY DEF IInv
<1> QED
  BY <1>1, AddressInvariant, PTL

(* Between ticks the event log is that of the stored chain, after any      *)
(* number of rollbacks, and after any number of ticks cut short on a chain *)
(* that has never reorganised.                                             *)
THEOREM LogFollowsTheBlocks == Safety => []LogFollowsBlocks
<1>1. IInv => LogFollowsBlocks
  <2> SUFFICES ASSUME IInv, Clean, AtRest, NEW a \in Addresses
               PROVE  \A h \in 1 .. cursor.height :
                        /\ log[a][h] \in {None, blocks[h]}
                        /\ blocks[h] = daemon[h].gen =>
                             (log[a][h] # None <=> a \in daemon[h].touches)
    BY DEF LogFollowsBlocks
  <2>1. Base = cursor.height
    BY DEF AtRest, Base, AfterCut, AfterLogCut
  <2>2. LogBelow(a)
    BY DEF IInv, LogRows
  <2> QED
    BY <2>1, <2>2 DEF LogBelow
<1> QED
  BY <1>1, AddressInvariant, PTL

(* Between ticks and rebuilds every logged delta up to the cursor is       *)
(* counted once, and no other is: a replay counts nothing twice, and a     *)
(* rollback forgets exactly what it deleted.                               *)
THEOREM TotalsAreSums == Safety => []ProjectionExact
<1>1. IInv => ProjectionExact
  <2> SUFFICES ASSUME IInv, Clean, AtRest, NEW a \in Addresses, NEW d \in Delta
               PROVE  IF d[1] <= cursor.height THEN total[a][d] = SumOfLog(a)[d]
                                               ELSE total[a][d] <= SumOfLog(a)[d]
    BY DEF ProjectionExact, Exact
  <2>1. d[1] \in Heights /\ d[2] \in Generations /\ d = <<d[1], d[2]>>
    BY DEF Delta
  <2>2. SumOfLog(a)[d] = IF log[a][d[1]] = d[2] THEN 1 ELSE 0
    BY DEF SumOfLog
  <2>3. Counts = cursor.height /\ Stale = {}
    BY DEF AtRest, Counts, Base, Absorbed, AfterCut, AfterLogCut, Stale
  <2>4. Counted(a)
    BY <2>3 DEF IInv, AtRest, Totals
  <2>5. total[a][d] = IF log[a][d[1]] = d[2] /\ d[1] <= lastSeen[a] THEN 1 ELSE 0
    BY <2>1, <2>4 DEF Counted, Once
  <2>6. d[1] <= cursor.height /\ log[a][d[1]] = d[2] => d[1] <= lastSeen[a]
    <3>1. \A h \in 1 .. cursor.height : log[a][h] # None => h <= lastSeen[a]
      BY <2>3, <2>4 DEF Counted, SeenBelow
    <3>2. cursor.height \in Nat
      BY DEF IInv, TypeOK
    <3> QED
      BY <2>1, <3>1, <3>2
  <2> QED
    BY <2>2, <2>5, <2>6
<1> QED
  BY <1>1, AddressInvariant, PTL
=============================================================================
