----------------------------- MODULE Rollups_proof -----------------------------
(***************************************************************************)
(* For every chain, every width of the buckets and any number of callers   *)
(* that coalesce: until a statement throws or the process dies, a bucket   *)
(* that is not the sum of its rows lies in a window that is pending, being *)
(* rebuilt, or about to be asked for.                                      *)
(*                                                                         *)
(* The property is nearly inductive.  Missing is where the windows come    *)
(* from: a rollback has read the least time of the rows it deletes before  *)
(* it deletes them, and a window that is asked for or taken has a time.    *)
(*                                                                         *)
(* Second, the rollups per superblock: with no reorganisation and no fault *)
(* they have every superblock below the tip once nobody is at work.        *)
(***************************************************************************)
EXTENDS Rollups, SequenceTheorems, WellFoundedInduction, TLAPS

-----------------------------------------------------------------------------
(* Max or Min of FiniteSetsExt chooses: that there is something to choose  *)
(* comes from the well-foundedness of the naturals.                        *)

(* A set of naturals with an element has a least one. *)
LEMMA LeastElement ==
  ASSUME NEW S \in SUBSET Nat, S # {}
  PROVE  \E x \in S : \A y \in S : x <= y
<1>1. PICK x \in S : \A y \in S : ~(<<y, x>> \in OpToRel(<, Nat))
  BY NatLessThanWellFounded, WFMin, Zenon
<1>2. \A y \in S : ~(y < x)
  BY <1>1, Zenon DEF OpToRel
<1> QED
  BY <1>2

(* Max is an element and an upper bound of a bounded set that has one. *)
LEMMA GreatestElement ==
  ASSUME NEW n \in Int, NEW m \in Int, NEW S \in SUBSET (m .. n), S # {}
  PROVE  Max(S) \in S /\ \A y \in S : y <= Max(S)
<1> DEFINE T == {k \in Nat : n - k \in S}
<1>1. T # {} /\ T \in SUBSET Nat
  <2>1. PICK s \in S : TRUE
    OBVIOUS
  <2>2. n - (n - s) \in S /\ n - s \in Nat
    OBVIOUS
  <2> QED
    BY <2>2
<1>2. PICK k \in T : \A j \in T : k <= j
  <2> HIDE DEF T
  <2> QED
    BY <1>1, LeastElement
<1>3. \A y \in S : n - k >= y
  <2> TAKE y \in S
  <2>1. n - (n - y) = y /\ n - y \in Nat
    OBVIOUS
  <2>2. n - y \in T
    BY <2>1
  <2> QED
    BY <2>2, <1>2
<1>4. n - k \in S
  BY <1>2
<1> QED
  BY <1>3, <1>4 DEF Max

LEMMA GreatestNatural ==
  ASSUME NEW n \in Nat, NEW S, S \subseteq 0 .. n, S # {}
  PROVE  Max(S) \in S /\ \A y \in S : y <= Max(S)
<1>1. S \in SUBSET (0 .. n) /\ 0 \in Int /\ n \in Int
  OBVIOUS
<1> QED
  BY <1>1, GreatestElement, Zenon

LEMMA LeastNatural ==
  ASSUME NEW S, S \subseteq Nat, S # {}
  PROVE  Min(S) \in S /\ \A y \in S : Min(S) <= y
<1>1. \E x \in S : \A y \in S : x <= y
  BY LeastElement
<1> QED
  BY <1>1, Zenon DEF Min

-----------------------------------------------------------------------------
(* Between its read and its DELETE a rollback knows the least time above   *)
(* the fork; who asks for a refresh, and who runs one, has a floor.        *)
Windows ==
  /\ ix.pc \in {"refresh", "deleteRows"} => ix.t \in Times /\ ix.h \in 1 .. MaxHeight
  /\ ix.pc = "deleteRows" => /\ ix.h <= Height
                             /\ \A i \in 1 .. Height : i >= ix.h => ix.t <= blocks[i].time

LEMMA Parameters ==
  /\ MaxHeight \in Nat \ {0} /\ MaxTime \in Nat /\ YearSpan \in Nat \ {0}
  /\ Fine \in Nat \ {0} /\ Coarse \in Nat \ {0} /\ MaxReorgs \in Nat /\ MaxFaults \in Nat
  BY RollupsAssumption DEF RollupsAssumption

USE Parameters

-----------------------------------------------------------------------------
(* Buckets.                                                                *)

LEMMA DivMonotone ==
  ASSUME NEW a \in Nat, NEW b \in Nat, NEW g \in Nat \ {0}, a <= b
  PROVE  a \div g \in Nat /\ a \div g <= b \div g
  BY Z3

LEMMA DivSmaller ==
  ASSUME NEW a \in Nat, NEW g \in Nat \ {0}
  PROVE  a \div g \in 0 .. a
  BY Z3

LEMMA Grains == Tables = {1, 2} /\ \A i \in Tables : Gran[i] \in Nat \ {0}
  BY DEF Tables, Gran

LEMMA Divisors ==
  ASSUME NEW i \in Tables
  PROVE  Gran[i] \in Nat \ {0}
  BY Grains, Zenon

LEMMA BucketsAreNatural ==
  ASSUME NEW i \in Tables, NEW b \in Buckets(i)
  PROVE  b \in Nat /\ b \in Times
<1>1. Gran[i] \in Nat \ {0}
  BY Divisors
<1>2. PICK t \in Times : b = t \div Gran[i]
  BY Zenon DEF Buckets
<1>3. t \in Nat /\ t <= MaxTime
  BY DEF Times
<1>4. t \div Gran[i] \in 0 .. t
  BY <1>1, <1>3, DivSmaller, Zenon
<1> QED
  BY <1>2, <1>3, <1>4 DEF Times

-----------------------------------------------------------------------------
(* Types.                                                                  *)

Bounds == [y : Years, lo : Heights, hi : Heights]
Stage == {"idle", "delete", "insert", "find", "deleteStats", "insertStats",
          "years", "deleteYear", "insertYear", "deleteAll", "insertAll"}
Pass == [pc : Stage, at : 0 .. 2, t : Times, h : 0 .. MaxHeight + 1,
         hLo : 0 .. MaxHeight, years : SUBSET Bounds]
Indexer == [pc : {"idle", "refresh", "wait", "deleteRows"}, t : 0 .. Nowhere, h : 0 .. MaxHeight + 1]

(* A pass that has just begun. *)
Begun(t, h) == [pc |-> "delete", at |-> 1, t |-> t, h |-> h, hLo |-> 0, years |-> {}]

LEMMA Starting ==
  ASSUME NEW c, NEW t, NEW h
  PROVE  StartPass(c, t, h) = [pass EXCEPT ![c] = Begun(t, h)]
  BY DEF StartPass, Begun

(* What a pass or the indexer turns into keeps its fields in their ranges. *)
LEMMA PassRecords ==
  /\ Idle \in Pass /\ \A t \in Times, h \in 0 .. MaxHeight + 1 : Begun(t, h) \in Pass
<1>1. Idle \in Pass
  BY DEF Pass, Stage, Idle, Times
<1>2. \A t \in Times, h \in 0 .. MaxHeight + 1 : Begun(t, h) \in Pass
  BY DEF Pass, Stage, Begun
<1> QED
  BY <1>1, <1>2, Zenon

LEMMA PassUpdates ==
  ASSUME NEW q \in Pass, NEW p \in Stage
  PROVE  /\ [q EXCEPT !.pc = p] \in Pass
         /\ \A a \in 0 .. 2 : [q EXCEPT !.pc = p, !.at = a] \in Pass
         /\ \A a \in 0 .. MaxHeight : [q EXCEPT !.pc = p, !.hLo = a] \in Pass
         /\ \A a \in SUBSET Bounds : [q EXCEPT !.years = a, !.pc = p] \in Pass
  BY DEF Pass, Stage

LEMMA IndexerRecords ==
  /\ Resting \in Indexer /\ [Resting EXCEPT !.pc = "wait"] \in Indexer
  /\ \A q \in Indexer : [q EXCEPT !.pc = "refresh"] \in Indexer
  BY DEF Indexer, Resting, Nowhere

BaseTypes == blocks \in Seq(Block) /\ (\A i \in 1 .. Height : blocks[i].h = i) /\ reorgs \in 0 .. MaxReorgs
TableTypes ==
  /\ rollup \in [Tables -> [Times -> SUBSET Block]]
  /\ stats \in [Heights -> Block \cup {NoBlock}]
  /\ totals \in [Years \cup {0} -> SUBSET Block]
PassTypes ==
  /\ from \in 0 .. Nowhere /\ fromHeight \in 0 .. MaxHeight + 1 /\ running \in BOOLEAN
  /\ pass \in [Caller -> Pass]
IndexerTypes == ix \in Indexer /\ faults \in 0 .. MaxFaults
Types == BaseTypes /\ TableTypes /\ PassTypes /\ IndexerTypes

IInv == Types /\ Windows /\ StaleIsCovered

LEMMA Typed == TypeOK <=> Types
  BY DEF TypeOK, Types, BaseTypes, TableTypes, PassTypes, IndexerTypes, Pass, Stage, Bounds, Indexer

(* The rows are blocks, one at each height up to the top. *)
LEMMA RowsAreBlocks ==
  ASSUME Types
  PROVE  /\ Height \in 0 .. MaxHeight
         /\ \A i \in 1 .. Height : blocks[i] \in Block /\ blocks[i].h = i
         /\ Rows \subseteq Block /\ Superblocks \subseteq Block
         /\ \A r \in Rows : r = blocks[r.h] /\ r.h \in 1 .. Height
<1>1. blocks \in Seq(Block) /\ \A i \in 1 .. Height : blocks[i].h = i
  BY Zenon DEF Types, BaseTypes
<1>2. Len(blocks) \in Nat /\ \A i \in 1 .. Len(blocks) : blocks[i] \in Block
  BY <1>1
<1>3. \A i \in 1 .. Height : blocks[i] \in Block /\ blocks[i].h = i
  BY <1>1, <1>2, Zenon DEF Height
<1>4. \A i \in 1 .. Height : i \in 1 .. MaxHeight
  <2> TAKE i \in 1 .. Height
  <2>1. blocks[i].h \in Heights
    BY <1>3, Zenon DEF Block
  <2> QED
    BY <2>1, <1>3, Zenon DEF Heights
<1>5. Height \in 0 .. MaxHeight
  BY <1>2, <1>4 DEF Height
<1>6. Rows \subseteq Block /\ Superblocks \subseteq Block
  BY <1>3, Zenon DEF Rows, Superblocks
<1>7. \A r \in Rows : r = blocks[r.h] /\ r.h \in 1 .. Height
  BY <1>3, Zenon DEF Rows
<1> QED
  BY <1>3, <1>5, <1>6, <1>7, Zenon

LEMMA InitTypes == Init => Types
<1> SUFFICES ASSUME Init PROVE Types
  OBVIOUS
<1>1. blocks \in Seq(Block) /\ (\A i \in 1 .. Height : blocks[i].h = i) /\ reorgs \in 0 .. MaxReorgs
  BY DEF Init, Height
<1>2. rollup \in [Tables -> [Times -> SUBSET Block]]
  BY DEF Init
<1>3. stats \in [Heights -> Block \cup {NoBlock}] /\ totals \in [Years \cup {0} -> SUBSET Block]
  BY DEF Init
<1>4. from \in 0 .. Nowhere /\ fromHeight \in 0 .. MaxHeight + 1
  BY DEF Init, Nowhere
<1>5. running \in BOOLEAN
  BY Zenon DEF Init
<1>6. pass \in [Caller -> Pass] /\ ix \in Indexer
  BY PassRecords, IndexerRecords, Zenon DEF Init
<1>7. faults \in 0 .. MaxFaults
  BY DEF Init
<1> QED
  BY <1>1, <1>2, <1>3, <1>4, <1>5, <1>6, <1>7, Zenon
     DEF Types, BaseTypes, TableTypes, PassTypes, IndexerTypes

(* A step of one caller leaves the passes of the others alone. *)
LEMMA OnePass ==
  ASSUME PassTypes, NEW c \in Caller, NEW q \in Pass, pass' = [pass EXCEPT ![c] = q]
  PROVE  /\ (pass \in [Caller -> Pass])'
         /\ pass'[c] = q /\ \A d \in Caller \ {c} : pass'[d] = pass[d]
<1>1. pass \in [Caller -> Pass]
  BY Zenon DEF PassTypes
<1> QED
  BY <1>1

LEMMA OneStage ==
  ASSUME PassTypes, NEW c \in Caller, NEW p \in Stage, Goto(c, p)
  PROVE  /\ PassTypes'
         /\ pass'[c] = [pass[c] EXCEPT !.pc = p]
         /\ \A d \in Caller \ {c} : pass'[d] = pass[d]
         /\ from' = from
<1>1. pass[c] \in Pass
  BY Zenon DEF PassTypes
<1>2. [pass[c] EXCEPT !.pc = p] \in Pass
  BY <1>1, PassUpdates, Zenon
<1>3. pass' = [pass EXCEPT ![c] = [pass[c] EXCEPT !.pc = p]] /\ UNCHANGED window
  BY DEF Goto
<1>4. /\ (pass \in [Caller -> Pass])'
      /\ pass'[c] = [pass[c] EXCEPT !.pc = p] /\ \A d \in Caller \ {c} : pass'[d] = pass[d]
  BY <1>2, <1>3, OnePass, Zenon
<1>5. (from \in 0 .. Nowhere /\ fromHeight \in 0 .. MaxHeight + 1 /\ running \in BOOLEAN)'
  BY <1>3, Zenon DEF window, PassTypes, Nowhere
<1> QED
  BY <1>3, <1>4, <1>5, Zenon DEF PassTypes, window

(* What the end of a pass leaves: nothing, or the pass over what has become pending. *)
LEMMA DoneTypes ==
  ASSUME PassTypes, NEW c \in Caller, PassDone(c)
  PROVE  /\ PassTypes'
         /\ \A d \in Caller \ {c} : pass'[d] = pass[d]
         /\ \/ from = Nowhere /\ from' = from
            \/ from \in Times /\ pass'[c] = Begun(from, fromHeight)
<1>1. CASE from = Nowhere
  <2>1. running' = FALSE /\ pass' = [pass EXCEPT ![c] = Idle] /\ from' = from /\ fromHeight' = fromHeight
    BY <1>1, Zenon DEF PassDone
  <2>2. (pass \in [Caller -> Pass])' /\ \A d \in Caller \ {c} : pass'[d] = pass[d]
    BY <2>1, PassRecords, OnePass, Zenon
  <2>3. (from \in 0 .. Nowhere /\ fromHeight \in 0 .. MaxHeight + 1 /\ running \in BOOLEAN)'
    BY <2>1, Zenon DEF PassTypes, Nowhere
  <2> QED
    BY <1>1, <2>1, <2>2, <2>3, Zenon DEF PassTypes
<1>2. CASE from # Nowhere
  <2>1. pass' = [pass EXCEPT ![c] = Begun(from, fromHeight)]
    BY <1>2, Starting, Zenon DEF PassDone
  <2>2. from' = Nowhere /\ fromHeight' = MaxHeight + 1 /\ running' = running
    BY <1>2, Zenon DEF PassDone
  <2>3. from \in Times /\ fromHeight \in 0 .. MaxHeight + 1
    BY <1>2 DEF PassTypes, Times, Nowhere
  <2>4. Begun(from, fromHeight) \in Pass
    BY <2>3, PassRecords, Zenon
  <2>5. /\ (pass \in [Caller -> Pass])' /\ pass'[c] = Begun(from, fromHeight)
        /\ \A d \in Caller \ {c} : pass'[d] = pass[d]
    BY <2>1, <2>4, OnePass, Zenon
  <2>6. Nowhere \in 0 .. Nowhere /\ MaxHeight + 1 \in 0 .. MaxHeight + 1
    BY DEF Nowhere
  <2>7. (from \in 0 .. Nowhere /\ fromHeight \in 0 .. MaxHeight + 1)'
    BY <2>2, <2>6, Zenon DEF Nowhere
  <2>8. (running \in BOOLEAN)'
    BY <2>2, Zenon DEF PassTypes
  <2> QED
    BY <2>3, <2>5, <2>7, <2>8, Zenon DEF PassTypes
<1> QED
  BY <1>1, <1>2, Zenon

(* A statement of a pass keeps the types. *)
LEMMA TablesAlone ==
  ASSUME Types, TableTypes', PassTypes', UNCHANGED <<base, ix, faults>>
  PROVE  Types'
<1>1. BaseTypes'
  BY Zenon DEF Types, BaseTypes, base, Height
<1>2. IndexerTypes'
  BY Zenon DEF Types, IndexerTypes
<1> QED
  BY <1>1, <1>2, Zenon DEF Types

LEMMA RollupStepTypes ==
  ASSUME Types, NEW c \in Caller, Delete(c) \/ Insert(c)
  PROVE  Types'
<1>1. UNCHANGED <<base, stats, totals, ix, faults>>
  BY Zenon DEF Delete, Insert
<1>2. rollup \in [Tables -> [Times -> SUBSET Block]] /\ PassTypes /\ Rows \subseteq Block
  BY RowsAreBlocks, Zenon DEF Types, TableTypes
<1>3. CASE Delete(c)
  <2>1. rollup' = [rollup EXCEPT ![pass[c].at] =
                     [b \in Times |-> IF b >= Floor(c) THEN {} ELSE rollup[pass[c].at][b]]]
    BY <1>3 DEF Delete
  <2>2. rollup' \in [Tables -> [Times -> SUBSET Block]]
    <3>1. CASE pass[c].at \in Tables
      <4>1. [b \in Times |-> IF b >= Floor(c) THEN {} ELSE rollup[pass[c].at][b]] \in [Times -> SUBSET Block]
        BY <1>2, <3>1
      <4> QED
        BY <1>2, <2>1, <3>1, <4>1
    <3>2. CASE pass[c].at \notin Tables
      BY <1>2, <2>1, <3>2
    <3> QED
      BY <3>1, <3>2
  <2>3. "insert" \in Stage
    BY DEF Stage
  <2>4. PassTypes'
    BY <1>2, <1>3, <2>3, OneStage, Zenon DEF Delete
  <2>5. TableTypes'
    BY <1>1, <2>2, Zenon DEF Types, TableTypes
  <2> QED
    BY <1>1, <2>4, <2>5, TablesAlone, Zenon
<1>4. CASE Insert(c)
  <2> DEFINE i == pass[c].at
             new == [b \in Times |-> IF b >= Floor(c) THEN {r \in Rows : r.time \div Gran[i] = b}
                                                      ELSE rollup[i][b]]
  <2>1. rollup' = [rollup EXCEPT ![i] = new]
    BY <1>4 DEF Insert
  <2>2. rollup' \in [Tables -> [Times -> SUBSET Block]]
    <3>1. CASE i \in Tables
      <4>1. \A b \in Times : {r \in Rows : r.time \div Gran[i] = b} \in SUBSET Block
        BY <1>2, Zenon
      <4>2. new \in [Times -> SUBSET Block]
        BY <1>2, <3>1, <4>1
      <4> HIDE DEF new, i
      <4> QED
        BY <1>2, <2>1, <3>1, <4>2
    <3>2. CASE i \notin Tables
      <4> HIDE DEF new, i
      <4> QED
        BY <1>2, <2>1, <3>2
    <3> QED
      BY <3>1, <3>2
  <2>3. TableTypes'
    BY <1>1, <2>2, Zenon DEF Types, TableTypes
  <2>4. PassTypes'
    <3>1. CASE ~(pass[c].at < 2)
      <4>1. Goto(c, "find") /\ "find" \in Stage
        BY <1>4, <3>1 DEF Insert, Stage
      <4> QED
        BY <1>2, <4>1, OneStage, Zenon
    <3>2. CASE pass[c].at < 2
      <4>1. pass' = [pass EXCEPT ![c].pc = "delete", ![c].at = @ + 1] /\ UNCHANGED window
        BY <1>4, <3>2, Zenon DEF Insert
      <4>2. pass[c] \in Pass /\ pass \in [Caller -> Pass]
        BY <1>2, Zenon DEF PassTypes
      <4>3. pass[c].at \in 0 .. 2
        BY <4>2 DEF Pass
      <4>4. pass[c].at + 1 \in 0 .. 2 /\ "delete" \in Stage
        BY <3>2, <4>3 DEF Stage
      <4>5. [pass[c] EXCEPT !.pc = "delete", !.at = pass[c].at + 1] \in Pass
        BY <4>2, <4>4, PassUpdates, Zenon
      <4>6. pass' = [pass EXCEPT ![c] = [pass[c] EXCEPT !.pc = "delete", !.at = pass[c].at + 1]]
        BY <4>1, <4>2
      <4>7. (pass \in [Caller -> Pass])'
        BY <1>2, <4>5, <4>6, OnePass, Zenon
      <4> QED
        BY <1>2, <4>1, <4>7, Zenon DEF PassTypes, window, Nowhere
    <3> QED
      BY <3>1, <3>2, Zenon
  <2> QED
    BY <1>1, <2>3, <2>4, TablesAlone, Zenon
<1> QED
  BY <1>3, <1>4, Zenon

SuperblockStep(c) ==
  \/ Find(c) \/ DeleteStats(c) \/ InsertStats(c) \/ FindYears(c)
  \/ DeleteYear(c) \/ InsertYear(c) \/ DeleteAll(c) \/ InsertAll(c)

(* A set of superblocks has a first and a last one. *)
LEMMA HeightsOfSuperblocks ==
  ASSUME Types, NEW S \in SUBSET Superblocks, S # {}
  PROVE  /\ Min({s.h : s \in S}) \in Heights /\ Max({s.h : s \in S}) \in Heights
<1> DEFINE H == {s.h : s \in S}
<1>0. \A s \in S : s \in Block
  BY RowsAreBlocks, Zenon
<1>1. H \subseteq Heights /\ H # {}
  BY <1>0 DEF Block
<1>2. H \subseteq Nat /\ H \subseteq 0 .. MaxHeight /\ MaxHeight \in Nat
  BY <1>1 DEF Heights
<1> HIDE DEF H
<1>3. Min(H) \in H
  BY <1>1, <1>2, LeastNatural, Zenon
<1>4. Max(H) \in H
  BY <1>1, <1>2, GreatestNatural, Zenon
<1> QED
  BY <1>1, <1>3, <1>4, Zenon DEF H

LEMMA FindTypes ==
  ASSUME Types, NEW c \in Caller, Find(c)
  PROVE  /\ Types' /\ \A d \in Caller \ {c} : pass'[d] = pass[d]
         /\ \/ from' = from
            \/ from \in Times /\ pass'[c] = Begun(from, fromHeight)
<1> DEFINE S == {s \in Superblocks : s.h >= pass[c].h}
           above == {s.h : s \in S}
<1>0. UNCHANGED <<base, tables, ix, faults>> /\ PassTypes /\ TableTypes
  BY Zenon DEF Find, Types
<1>1. TableTypes'
  BY <1>0, Zenon DEF tables, TableTypes
<1>2. CASE above = {}
  <2>1. PassDone(c)
    BY <1>2, Zenon DEF Find
  <2> QED
    BY <1>0, <1>1, <2>1, DoneTypes, TablesAlone, Zenon
<1>3. CASE above # {}
  <2>1. pass' = [pass EXCEPT ![c].pc = "deleteStats", ![c].hLo = Min(above)] /\ UNCHANGED window
    BY <1>3, Zenon DEF Find
  <2>2. pass[c] \in Pass /\ pass \in [Caller -> Pass]
    BY <1>0, Zenon DEF PassTypes
  <2>3. S \in SUBSET Superblocks /\ S # {}
    BY <1>3, Zenon
  <2>4. Min(above) \in Heights
    <3> HIDE DEF S
    <3> QED
      BY <2>3, HeightsOfSuperblocks, Zenon
  <2>5. Min(above) \in 0 .. MaxHeight /\ "deleteStats" \in Stage
    BY <2>4 DEF Heights, Stage
  <2> DEFINE m == Min(above)
  <2> HIDE DEF m
  <2>6. [pass[c] EXCEPT !.pc = "deleteStats", !.hLo = m] \in Pass
    BY <2>2, <2>5, PassUpdates, Zenon DEF m
  <2>7. pass' = [pass EXCEPT ![c] = [pass[c] EXCEPT !.pc = "deleteStats", !.hLo = m]]
    BY <2>1, <2>2 DEF m
  <2>8. (pass \in [Caller -> Pass])' /\ \A d \in Caller \ {c} : pass'[d] = pass[d]
    BY <1>0, <2>6, <2>7, OnePass, Zenon
  <2>9. PassTypes' /\ from' = from
    BY <1>0, <2>1, <2>8, Zenon DEF PassTypes, window, Nowhere
  <2> QED
    BY <1>0, <1>1, <2>8, <2>9, TablesAlone, Zenon
<1> QED
  BY <1>2, <1>3, Zenon

LEMMA FindYearsTypes ==
  ASSUME Types, NEW c \in Caller, FindYears(c)
  PROVE  /\ Types' /\ from' = from /\ \A d \in Caller \ {c} : pass'[d] = pass[d]
<1> DEFINE of(y) == {s.h : s \in {b \in Superblocks : Year(b.time) = y}}
           found == {Year(s.time) : s \in {b \in Superblocks : b.h >= pass[c].hLo}}
           ys == {[y |-> y, lo |-> Min(of(y)), hi |-> Max(of(y))] : y \in found}
           next == IF ys = {} THEN "deleteAll" ELSE "deleteYear"
<1>0. /\ UNCHANGED <<base, tables, window, ix, faults>> /\ PassTypes /\ TableTypes
      /\ pass' = [pass EXCEPT ![c].years = ys, ![c].pc = next]
  BY Zenon DEF FindYears, Types
<1>1. TableTypes'
  BY <1>0, Zenon DEF tables, TableTypes
<1>2. \A y \in found : y \in Years /\ Min(of(y)) \in Heights /\ Max(of(y)) \in Heights
  <2> TAKE y \in found
  <2> DEFINE S == {b \in Superblocks : Year(b.time) = y}
  <2>1. S \in SUBSET Superblocks /\ S # {}
    BY Zenon
  <2>2. PICK s \in Superblocks : y = Year(s.time)
    BY Zenon
  <2>3. s.time \in Times
    BY RowsAreBlocks, Zenon DEF Block
  <2>4. y \in Years
    BY <2>2, <2>3, Zenon DEF Years
  <2> HIDE DEF S
  <2>5. Min({s_1.h : s_1 \in S}) \in Heights /\ Max({s_1.h : s_1 \in S}) \in Heights
    BY <2>1, HeightsOfSuperblocks, Zenon
  <2> QED
    BY <2>4, <2>5, Zenon DEF S
<1> HIDE DEF of, found
<1>3. ys \in SUBSET Bounds
  BY <1>2 DEF Bounds
<1>4. next \in Stage
  BY DEF Stage
<1> HIDE DEF ys, next
<1>5. pass[c] \in Pass /\ pass \in [Caller -> Pass]
  BY <1>0, Zenon DEF PassTypes
<1>6. [pass[c] EXCEPT !.years = ys, !.pc = next] \in Pass
  BY <1>3, <1>4, <1>5, PassUpdates, Zenon
<1>7. pass' = [pass EXCEPT ![c] = [pass[c] EXCEPT !.years = ys, !.pc = next]]
  BY <1>0, <1>5
<1>8. (pass \in [Caller -> Pass])' /\ \A d \in Caller \ {c} : pass'[d] = pass[d]
  BY <1>0, <1>6, <1>7, OnePass, Zenon
<1>9. PassTypes' /\ from' = from
  BY <1>0, <1>8, Zenon DEF PassTypes, window, Nowhere
<1> QED
  BY <1>0, <1>1, <1>8, <1>9, TablesAlone, Zenon

LEMMA StatsTypes ==
  ASSUME Types, NEW c \in Caller, DeleteStats(c) \/ InsertStats(c)
  PROVE  /\ Types' /\ from' = from /\ \A d \in Caller \ {c} : pass'[d] = pass[d]
<1>0. UNCHANGED <<base, rollup, totals, ix, faults>> /\ PassTypes /\ stats \in [Heights -> Block \cup {NoBlock}]
  BY Zenon DEF DeleteStats, InsertStats, Types, TableTypes
<1>1. stats' \in [Heights -> Block \cup {NoBlock}]
  <2>1. CASE DeleteStats(c)
    <3>1. stats' = [h \in Heights |-> IF h >= pass[c].hLo THEN NoBlock ELSE stats[h]]
      BY <2>1, Zenon DEF DeleteStats
    <3> QED
      BY <1>0, <3>1
  <2>2. CASE InsertStats(c)
    <3>1. stats' = [h \in Heights |->
            IF h >= pass[c].hLo /\ \E s \in Superblocks : s.h = h THEN blocks[h] ELSE stats[h]]
      BY <2>2, Zenon DEF InsertStats
    <3>2. \A s \in Superblocks : blocks[s.h] \in Block
      <4> TAKE s \in Superblocks
      <4>1. s \in Rows
        BY Zenon DEF Superblocks
      <4> QED
        BY <4>1, RowsAreBlocks, Zenon
    <3>3. \A h \in Heights :
            (IF h >= pass[c].hLo /\ \E s \in Superblocks : s.h = h THEN blocks[h] ELSE stats[h])
              \in Block \cup {NoBlock}
      BY <1>0, <3>2, Zenon
    <3> QED
      BY <3>1, <3>3, Zenon
  <2> QED
    BY <2>1, <2>2
<1>2. TableTypes'
  BY <1>0, <1>1, Zenon DEF Types, TableTypes
<1>3. /\ PassTypes' /\ from' = from /\ \A d \in Caller \ {c} : pass'[d] = pass[d]
  <2>1. "insertStats" \in Stage /\ "years" \in Stage
    BY DEF Stage
  <2> QED
    BY <1>0, <2>1, OneStage, Zenon DEF DeleteStats, InsertStats
<1> QED
  BY <1>0, <1>2, <1>3, TablesAlone, Zenon

LEMMA YearTypes ==
  ASSUME Types, NEW c \in Caller, DeleteYear(c) \/ InsertYear(c) \/ DeleteAll(c)
  PROVE  /\ Types' /\ from' = from /\ \A d \in Caller \ {c} : pass'[d] = pass[d]
<1>0. UNCHANGED <<base, rollup, stats, ix, faults>> /\ PassTypes /\ totals \in [Years \cup {0} -> SUBSET Block]
  BY Zenon DEF DeleteYear, InsertYear, DeleteAll, Types, TableTypes
<1>1. totals' \in [Years \cup {0} -> SUBSET Block]
  <2>1. \A y, S : S \subseteq Superblocks => [totals EXCEPT ![y] = S] \in [Years \cup {0} -> SUBSET Block]
    <3> TAKE y, S
    <3> HAVE S \subseteq Superblocks
    <3>1. S \in SUBSET Block
      BY RowsAreBlocks, Zenon
    <3> QED
      BY <1>0, <3>1
  <2>2. PICK y, S : S \subseteq Superblocks /\ totals' = [totals EXCEPT ![y] = S]
    <3>1. CASE DeleteYear(c)
      BY <3>1, Zenon DEF DeleteYear
    <3>2. CASE InsertYear(c)
      <4>1. totals' = [totals EXCEPT ![First(c).y] = {s \in Superblocks : s.h \in First(c).lo .. First(c).hi}]
        BY <3>2, Zenon DEF InsertYear
      <4> QED
        BY <4>1, Zenon
    <3>3. CASE DeleteAll(c)
      BY <3>3, Zenon DEF DeleteAll
    <3> QED
      BY <3>1, <3>2, <3>3, Zenon
  <2> QED
    BY <2>1, <2>2, Zenon
<1>2. TableTypes'
  BY <1>0, <1>1, Zenon DEF Types, TableTypes
<1>3. /\ PassTypes' /\ from' = from /\ \A d \in Caller \ {c} : pass'[d] = pass[d]
  <2>1. CASE DeleteYear(c) \/ DeleteAll(c)
    <3>1. "insertYear" \in Stage /\ "insertAll" \in Stage
      BY DEF Stage
    <3> QED
      BY <1>0, <2>1, <3>1, OneStage, Zenon DEF DeleteYear, DeleteAll
  <2>2. CASE InsertYear(c)
    <3> DEFINE rest == pass[c].years \ {First(c)}
               next == IF rest = {} THEN "deleteAll" ELSE "deleteYear"
    <3>1. pass' = [pass EXCEPT ![c].years = rest, ![c].pc = next] /\ UNCHANGED window
      BY <2>2, Zenon DEF InsertYear
    <3>2. pass[c] \in Pass /\ pass \in [Caller -> Pass]
      BY <1>0, Zenon DEF PassTypes
    <3>3. rest \in SUBSET Bounds /\ next \in Stage
      BY <3>2 DEF Pass, Stage
    <3> HIDE DEF rest, next
    <3>4. [pass[c] EXCEPT !.years = rest, !.pc = next] \in Pass
      BY <3>2, <3>3, PassUpdates, Zenon
    <3>5. pass' = [pass EXCEPT ![c] = [pass[c] EXCEPT !.years = rest, !.pc = next]]
      BY <3>1, <3>2
    <3>6. (pass \in [Caller -> Pass])' /\ \A d \in Caller \ {c} : pass'[d] = pass[d]
      BY <1>0, <3>4, <3>5, OnePass, Zenon
    <3> QED
      BY <1>0, <3>1, <3>6, Zenon DEF PassTypes, window, Nowhere
  <2> QED
    BY <2>1, <2>2, DeleteYear(c) \/ InsertYear(c) \/ DeleteAll(c), Zenon
<1> QED
  BY <1>0, <1>2, <1>3, TablesAlone, Zenon

LEMMA InsertAllTypes ==
  ASSUME Types, NEW c \in Caller, InsertAll(c)
  PROVE  /\ Types' /\ \A d \in Caller \ {c} : pass'[d] = pass[d]
         /\ \/ from' = from
            \/ from \in Times /\ pass'[c] = Begun(from, fromHeight)
<1>0. /\ UNCHANGED <<base, rollup, stats, ix, faults>> /\ PassDone(c)
      /\ PassTypes /\ totals \in [Years \cup {0} -> SUBSET Block]
  BY Zenon DEF InsertAll, Types, TableTypes
<1>1. totals' = [totals EXCEPT ![0] = UNION {totals[y] : y \in Years}]
  BY Zenon DEF InsertAll
<1>2. \A y \in Years : totals[y] \subseteq Block
  BY <1>0, Zenon
<1>3. UNION {totals[y] : y \in Years} \in SUBSET Block
  BY <1>2, Zenon
<1>4. (totals \in [Years \cup {0} -> SUBSET Block])'
  BY <1>0, <1>1, <1>3
<1>5. TableTypes'
  BY <1>0, <1>4, Zenon DEF Types, TableTypes
<1> QED
  BY <1>0, <1>5, DoneTypes, TablesAlone, Zenon

(* The statements on the superblock tables. *)
LEMMA SuperblockStepTypes ==
  ASSUME Types, NEW c \in Caller, SuperblockStep(c)
  PROVE  /\ Types' /\ \A d \in Caller \ {c} : pass'[d] = pass[d]
         /\ \/ from' = from
            \/ from \in Times /\ pass'[c] = Begun(from, fromHeight)
  BY FindTypes, FindYearsTypes, StatsTypes, YearTypes, InsertAllTypes, Zenon DEF SuperblockStep

-----------------------------------------------------------------------------
(* What the indexer does to the rows.                                      *)

(* A batch adds rows on the top, none of them earlier than the floor that  *)
(* is asked for.                                                           *)
LEMMA ApplyRows ==
  ASSUME Types, Apply
  PROVE  /\ Types'
         /\ ix'.pc = "refresh" /\ ix'.t \in Times /\ ix'.h \in 1 .. MaxHeight
         /\ Rows \subseteq Rows' /\ \A r \in Rows' : r \in Rows \/ (r.time \in Times /\ ix'.t <= r.time)
         /\ ix'.h = Height + 1 /\ Height <= Height' /\ \A i \in 1 .. Height : blocks'[i] = blocks[i]
<1>1. PICK n \in 1 .. Earlier(2, MaxHeight - Height) :
        \E ts \in [1 .. n -> Times], sb \in [1 .. n -> BOOLEAN] :
          /\ blocks' = blocks \o [i \in 1 .. n |->
               [h |-> Height + i, time |-> ts[i], sb |-> sb[i], gen |-> reorgs]]
          /\ ix' = [pc |-> "refresh", t |-> Min({ts[i] : i \in 1 .. n}), h |-> Height + 1]
  BY Zenon DEF Apply
<1>2. PICK ts \in [1 .. n -> Times], sb \in [1 .. n -> BOOLEAN] :
          /\ blocks' = blocks \o [i \in 1 .. n |->
               [h |-> Height + i, time |-> ts[i], sb |-> sb[i], gen |-> reorgs]]
          /\ ix' = [pc |-> "refresh", t |-> Min({ts[i] : i \in 1 .. n}), h |-> Height + 1]
  BY <1>1, Zenon
<1>0. UNCHANGED <<reorgs, tables, window, pass, faults>>
  BY Zenon DEF Apply
<1>3. Height \in 0 .. MaxHeight /\ reorgs \in 0 .. MaxReorgs /\ blocks \in Seq(Block)
  BY RowsAreBlocks, Zenon DEF Types, BaseTypes
<1>4. n \in Nat \ {0} /\ Height + n <= MaxHeight
  BY <1>1, <1>3 DEF Earlier
<1> DEFINE new == [i \in 1 .. n |-> [h |-> Height + i, time |-> ts[i], sb |-> sb[i], gen |-> reorgs]]
<1>5. \A i \in 1 .. n : new[i] \in Block /\ new[i].h = Height + i /\ new[i].time = ts[i] /\ ts[i] \in Times
  <2> TAKE i \in 1 .. n
  <2>1. ts[i] \in Times /\ sb[i] \in BOOLEAN /\ Height + i \in Heights
    BY <1>2, <1>3, <1>4 DEF Heights
  <2>2. new[i] = [h |-> Height + i, time |-> ts[i], sb |-> sb[i], gen |-> reorgs]
    BY Zenon
  <2> HIDE DEF new
  <2> QED
    BY <1>3, <2>1, <2>2 DEF Block
<1>6. new \in [1 .. n -> Block]
  BY <1>5, Zenon
<1>7. new \in Seq(Block) /\ Len(new) = n
  <2> HIDE DEF new
  <2> QED
    BY <1>4, <1>6
<1>8. blocks' = blocks \o new
  BY <1>2, Zenon
<1> HIDE DEF new
<1>9. /\ (blocks \in Seq(Block))' /\ Height' = Height + n
      /\ \A i \in 1 .. Height : blocks'[i] = blocks[i]
      /\ \A i \in Height + 1 .. Height + n : blocks'[i] = new[i - Height] /\ i - Height \in 1 .. n
  <2>1. Len(blocks) \in Nat
    BY <1>3
  <2> QED
    BY <1>3, <1>4, <1>7, <1>8, <2>1 DEF Height
<1>10. BaseTypes'
  <2>1. \A i \in 1 .. Height' : blocks'[i].h = i
    <3> TAKE i \in 1 .. Height'
    <3>1. CASE i \in 1 .. Height
      <4>1. blocks[i].h = i
        BY <3>1, RowsAreBlocks, Zenon
      <4> QED
        BY <1>9, <3>1, <4>1, Zenon
    <3>2. CASE i \in Height + 1 .. Height + n
      <4>1. blocks'[i].h = Height + (i - Height)
        BY <1>5, <1>9, <3>2, Zenon
      <4> QED
        BY <1>3, <3>2, <4>1
    <3> QED
      BY <1>3, <1>4, <1>9, <3>1, <3>2
  <2> QED
    BY <1>0, <1>3, <1>9, <2>1, Zenon DEF BaseTypes
<1> DEFINE T == {ts[i] : i \in 1 .. n}
<1>11. T \subseteq Nat /\ T # {} /\ T \subseteq Times
  <2>1. 1 \in 1 .. n
    BY <1>4
  <2>2. ts[1] \in T
    BY <2>1, Zenon
  <2>3. T \subseteq Times
    BY <1>2, Zenon
  <2> HIDE DEF T
  <2> QED
    BY <2>2, <2>3 DEF Times
<1> HIDE DEF T
<1>12. Min(T) \in T /\ \A t \in T : Min(T) <= t
  BY <1>11, LeastNatural, Zenon
<1>13. ix' = [pc |-> "refresh", t |-> Min(T), h |-> Height + 1]
  BY <1>2, Zenon DEF T
<1>14. ix'.pc = "refresh" /\ ix'.t \in Times /\ ix'.h \in 1 .. MaxHeight /\ (ix \in Indexer)'
  <2>0. Min(T) \in Times
    BY <1>11, <1>12, Zenon
  <2>1. Min(T) \in Times /\ Height + 1 \in 1 .. MaxHeight
    BY <1>3, <1>4, <2>0
  <2> QED
    BY <1>13, <2>1 DEF Indexer, Times, Nowhere
<1>15. Types'
  BY <1>0, <1>10, <1>14, Zenon
     DEF Types, TableTypes, PassTypes, IndexerTypes, tables, window, Nowhere
<1>16. \A i \in 1 .. Height' : blocks'[i] \in Rows \/ (blocks'[i].time \in Times /\ ix'.t <= blocks'[i].time)
  <2> TAKE i \in 1 .. Height'
  <2>1. CASE i \in 1 .. Height
    BY <1>9, <2>1, Zenon DEF Rows
  <2>2. CASE i \in Height + 1 .. Height + n
    <3>1. blocks'[i].time = ts[i - Height] /\ ts[i - Height] \in Times /\ i - Height \in 1 .. n
      BY <1>5, <1>9, <2>2, Zenon
    <3>2. ts[i - Height] \in T
      BY <3>1, Zenon DEF T
    <3>3. Min(T) <= ts[i - Height] /\ ix'.t = Min(T)
      BY <1>12, <1>13, <3>2, Zenon
    <3> QED
      BY <3>1, <3>3, Zenon
  <2> QED
    BY <1>3, <1>4, <1>9, <2>1, <2>2
<1>17. \A r \in Rows' : r \in Rows \/ (r.time \in Times /\ ix'.t <= r.time)
  BY <1>16, Zenon DEF Rows
<1>18. Rows \subseteq Rows'
  <2>1. \A i \in 1 .. Height : i \in 1 .. Height'
    BY <1>3, <1>4, <1>9
  <2> QED
    BY <1>9, <2>1, Zenon DEF Rows
<1>19. ix'.h = Height + 1
  BY <1>13
<1>20. Height <= Height'
  BY <1>3, <1>4, <1>9
<1> QED
  BY <1>9, <1>14, <1>15, <1>17, <1>18, <1>19, <1>20, Zenon

(* A rollback knows the least time above the fork before it deletes. *)
LEMMA RollBackFloor ==
  ASSUME Types, RollBack
  PROVE  /\ Types' /\ ix'.pc = "deleteRows" /\ ix'.t \in Times
         /\ ix'.h \in 1 .. MaxHeight /\ ix'.h <= Height
         /\ \A i \in 1 .. Height : i >= ix'.h => ix'.t <= blocks[i].time
<1>0. /\ UNCHANGED <<blocks, tables, window, pass, faults>>
      /\ reorgs < MaxReorgs /\ Height > 0 /\ reorgs' = reorgs + 1
  BY Zenon DEF RollBack
<1>1. PICK fork \in 0 .. Height - 1 :
        ix' = [pc |-> "deleteRows", t |-> Min({blocks[i].time : i \in fork + 1 .. Height}), h |-> fork + 1]
  BY Zenon DEF RollBack
<1>2. Height \in 0 .. MaxHeight /\ \A i \in 1 .. Height : blocks[i] \in Block
  BY RowsAreBlocks, Zenon
<1> DEFINE T == {blocks[i].time : i \in fork + 1 .. Height}
<1>3. \A i \in fork + 1 .. Height : i \in 1 .. Height
  BY <1>1, <1>2
<1>4. T \subseteq Times
  BY <1>2, <1>3, Zenon DEF Block
<1>5. T # {}
  <2>1. Height \in fork + 1 .. Height
    BY <1>1, <1>2
  <2> QED
    BY <2>1, Zenon
<1>6. \A i \in fork + 1 .. Height : blocks[i].time \in T
  BY Zenon
<1>7. ix' = [pc |-> "deleteRows", t |-> Min(T), h |-> fork + 1]
  BY <1>1, Zenon
<1> HIDE DEF T
<1>8. T \subseteq Nat
  BY <1>4 DEF Times
<1>9. Min(T) \in T /\ \A t \in T : Min(T) <= t
  BY <1>5, <1>8, LeastNatural, Zenon
<1>10. Min(T) \in Times
  BY <1>4, <1>9, Zenon
<1>11. /\ ix'.pc = "deleteRows" /\ ix'.t \in Times /\ ix'.t = Min(T)
       /\ ix'.h \in 1 .. MaxHeight /\ ix'.h <= Height /\ ix'.h = fork + 1
       /\ (ix \in Indexer)'
  BY <1>1, <1>2, <1>7, <1>10 DEF Indexer, Times, Nowhere
<1>12. \A i \in 1 .. Height : i >= ix'.h => ix'.t <= blocks[i].time
  <2> TAKE i \in 1 .. Height
  <2> HAVE i >= ix'.h
  <2>1. i \in fork + 1 .. Height
    BY <1>1, <1>2, <1>11
  <2> QED
    BY <1>6, <1>9, <1>11, <2>1, Zenon
<1>13. BaseTypes'
  <2>1. reorgs' \in 0 .. MaxReorgs
    BY <1>0 DEF Types, BaseTypes
  <2> QED
    BY <1>0, <2>1, Zenon DEF Types, BaseTypes, Height
<1>14. Types'
  BY <1>0, <1>11, <1>13, Zenon
     DEF Types, TableTypes, PassTypes, IndexerTypes, tables, window, Nowhere
<1> QED
  BY <1>11, <1>12, <1>14, Zenon

(* What the DELETE of a rollback removes is no earlier than the floor that *)
(* is asked for.                                                           *)
LEMMA DeletedRows ==
  ASSUME Types, Windows, DeleteRows
  PROVE  /\ Types' /\ ix'.pc = "refresh" /\ ix'.t \in Times /\ ix'.h \in 1 .. MaxHeight
         /\ Rows' \subseteq Rows /\ \A r \in Rows : r \in Rows' \/ ix'.t <= r.time
<1>0. /\ UNCHANGED <<reorgs, tables, window, pass, faults>> /\ ix.pc = "deleteRows"
      /\ blocks' = SubSeq(blocks, 1, ix.h - 1) /\ ix' = [ix EXCEPT !.pc = "refresh"]
  BY Zenon DEF DeleteRows
<1>1. /\ ix.t \in Times /\ ix.h \in 1 .. MaxHeight /\ ix.h <= Height
      /\ \A i \in 1 .. Height : i >= ix.h => ix.t <= blocks[i].time
  BY <1>0, Zenon DEF Windows
<1>2. Height \in 0 .. MaxHeight /\ blocks \in Seq(Block) /\ \A i \in 1 .. Height : blocks[i].h = i
  BY RowsAreBlocks, Zenon DEF Types, BaseTypes
<1>3. ix \in Indexer
  BY Zenon DEF Types, IndexerTypes
<1>4. /\ ix'.pc = "refresh" /\ ix'.t = ix.t /\ ix'.h = ix.h /\ (ix \in Indexer)'
  BY <1>0, <1>3 DEF Indexer
<1>5. /\ (blocks \in Seq(Block))' /\ Height' = ix.h - 1
      /\ \A i \in 1 .. ix.h - 1 : blocks'[i] = blocks[i] /\ i \in 1 .. Height
  <2>1. Len(blocks) \in Nat /\ ix.h - 1 \in 0 .. Len(blocks)
    BY <1>1, <1>2 DEF Height
  <2> DEFINE m == ix.h - 1
  <2> HIDE DEF m
  <2>2. m \in 0 .. Len(blocks) /\ blocks' = SubSeq(blocks, 1, m)
    BY <1>0, <2>1, Zenon DEF m
  <2>3. blocks' \in Seq(Block) /\ Len(blocks') = m /\ \A i \in 1 .. m : blocks'[i] = blocks[i]
    BY <1>2, <2>1, <2>2
  <2> QED
    BY <2>1, <2>2, <2>3 DEF Height, m
<1>6. BaseTypes'
  <2>1. reorgs' \in 0 .. MaxReorgs
    BY <1>0, Zenon DEF Types, BaseTypes
  <2>2. \A i \in 1 .. Height' : blocks'[i].h = i
    BY <1>2, <1>5, Zenon
  <2> QED
    BY <1>5, <2>1, <2>2, Zenon DEF BaseTypes
<1>7. Types'
  BY <1>0, <1>4, <1>6, Zenon
     DEF Types, TableTypes, PassTypes, IndexerTypes, tables, window, Nowhere
<1>8. Rows' \subseteq Rows
  BY <1>5, Zenon DEF Rows
<1>9. \A i \in 1 .. Height : blocks[i] \in Rows' \/ ix'.t <= blocks[i].time
  <2> TAKE i \in 1 .. Height
  <2>1. CASE i \in 1 .. ix.h - 1
    BY <1>5, <2>1, Zenon DEF Rows
  <2>2. CASE i >= ix.h
    BY <1>1, <1>4, <2>2, Zenon
  <2> QED
    BY <1>1, <1>2, <2>1, <2>2
<1>10. \A r \in Rows : r \in Rows' \/ ix'.t <= r.time
  BY <1>9, Zenon DEF Rows
<1> QED
  BY <1>1, <1>4, <1>7, <1>8, <1>10, Zenon

-----------------------------------------------------------------------------
(* Who covers a stale bucket: the pending window, a pass, or the indexer.  *)

Pending(i, b) == from # Nowhere /\ b >= from \div Gran[i]
Passing(i, b) == \E c \in Caller : Ahead(c, i, b)
Asked(i, b) == ix.pc = "refresh" /\ b >= ix.t \div Gran[i]

LEMMA Coverage ==
  StaleIsCovered <=>
    (faults = 0 => \A i \in Tables : \A b \in Buckets(i) :
                     Exact(i, b) \/ Pending(i, b) \/ Passing(i, b) \/ Asked(i, b))
  BY Zenon DEF StaleIsCovered, Pending, Passing, Asked

(* Everything from the floor of a pass that has begun lies before it. *)
LEMMA BegunCovers ==
  ASSUME NEW c \in Caller, NEW t \in Times, NEW h, NEW i \in Tables, NEW b \in Nat,
         pass'[c] = Begun(t, h), b >= t \div Gran[i]
  PROVE  Passing(i, b)'
<1>1. pass'[c].pc = "delete" /\ pass'[c].at = 1 /\ pass'[c].t = t
  BY DEF Begun
<1>2. 1 <= i
  BY DEF Tables
<1>3. Ahead(c, i, b)'
  BY <1>1, <1>2 DEF Ahead
<1> QED
  BY <1>3, Zenon DEF Passing

(* Of two floors the earlier one covers what either does. *)
LEMMA EarlierCovers ==
  ASSUME NEW f \in 0 .. Nowhere, NEW t \in Times, NEW i \in Tables, NEW b \in Nat
  PROVE  /\ Earlier(f, t) \in Times
         /\ b >= t \div Gran[i] => b >= Earlier(f, t) \div Gran[i]
         /\ b >= f \div Gran[i] => b >= Earlier(f, t) \div Gran[i]
<1>1. f \in Nat /\ t \in Nat /\ Gran[i] \in Nat \ {0}
  BY Divisors DEF Nowhere, Times
<1>2. Earlier(f, t) \in Times /\ Earlier(f, t) \in Nat /\ Earlier(f, t) <= f /\ Earlier(f, t) <= t
  BY DEF Earlier, Times, Nowhere
<1> DEFINE e == Earlier(f, t)
           g == Gran[i]
<1> HIDE DEF e, g
<1>3. e \in Nat /\ g \in Nat \ {0} /\ e <= f /\ e <= t
  BY <1>1, <1>2, Zenon DEF e, g
<1>4. e \div g \in Nat /\ e \div g <= f \div g /\ e \div g <= t \div g
  BY <1>1, <1>3, DivMonotone, Zenon
<1>5. f \div g \in Nat /\ t \div g \in Nat
  BY <1>1, <1>3, DivMonotone
<1> DEFINE fd == f \div g  td == t \div g  ed == e \div g
<1>6. fd \in Nat /\ td \in Nat /\ ed \in Nat /\ ed <= fd /\ ed <= td
  BY <1>4, <1>5
<1> HIDE DEF fd, td, ed
<1>7. (b >= td => b >= ed) /\ (b >= fd => b >= ed)
  BY <1>6
<1> QED
  BY <1>2, <1>7, Zenon DEF fd, td, ed, e, g

(* A refresh that is asked for covers what was asked, and what was covered *)
(* before: it lowers the pending window, or takes it along.                *)
LEMMA RequestCovers ==
  ASSUME PassTypes, NEW c \in Caller, NEW t \in Times, NEW h \in 0 .. MaxHeight + 1, Request(c, t, h)
  PROVE  /\ PassTypes'
         /\ \A i \in Tables, b \in Nat :
              b >= t \div Gran[i] \/ Pending(i, b) \/ Passing(i, b) => Pending(i, b)' \/ Passing(i, b)'
<1>0. /\ from \in 0 .. Nowhere /\ fromHeight \in 0 .. MaxHeight + 1 /\ running \in BOOLEAN
      /\ pass \in [Caller -> Pass]
  BY Zenon DEF PassTypes
<1>1. Earlier(from, t) \in Times /\ Earlier(from, t) \in 0 .. Nowhere /\ Earlier(from, t) # Nowhere
  BY <1>0 DEF Earlier, Times, Nowhere
<1>2. Earlier(fromHeight, h) \in 0 .. MaxHeight + 1
  BY <1>0 DEF Earlier
<1>3. CASE running
  <2>1. from' = Earlier(from, t) /\ fromHeight' = Earlier(fromHeight, h) /\ UNCHANGED <<running, pass>>
    BY <1>3, Zenon DEF Request
  <2>2. PassTypes'
    BY <1>0, <1>1, <1>2, <2>1, Zenon DEF PassTypes, Nowhere
  <2>3. ASSUME NEW i \in Tables, NEW b \in Nat, b >= t \div Gran[i] \/ Pending(i, b) \/ Passing(i, b)
        PROVE  Pending(i, b)' \/ Passing(i, b)'
    <3>1. CASE Passing(i, b)
      BY <2>1, <3>1, Zenon DEF Passing, Ahead
    <3>2. CASE b >= t \div Gran[i] \/ Pending(i, b)
      <4>1. b >= Earlier(from, t) \div Gran[i]
        BY <1>0, <3>2, EarlierCovers, Zenon DEF Pending
      <4> QED
        BY <1>1, <2>1, <4>1, Zenon DEF Pending, Nowhere
    <3> QED
      BY <2>3, <3>1, <3>2, Zenon
  <2> QED
    BY <2>2, <2>3, Zenon
<1>4. CASE ~running
  <2>1. /\ pass[c] = Idle /\ running' = TRUE /\ from' = Nowhere /\ fromHeight' = MaxHeight + 1
        /\ pass' = [pass EXCEPT ![c] = Begun(Earlier(from, t), Earlier(fromHeight, h))]
    BY <1>4, Starting, Zenon DEF Request
  <2>2. Begun(Earlier(from, t), Earlier(fromHeight, h)) \in Pass
    BY <1>1, <1>2, PassRecords, Zenon
  <2>3. /\ (pass \in [Caller -> Pass])' /\ pass'[c] = Begun(Earlier(from, t), Earlier(fromHeight, h))
        /\ \A d \in Caller \ {c} : pass'[d] = pass[d]
    BY <2>1, <2>2, OnePass, Zenon
  <2>4. Nowhere \in 0 .. Nowhere /\ MaxHeight + 1 \in 0 .. MaxHeight + 1
    BY DEF Nowhere
  <2>5. PassTypes'
    <3>1. (from \in 0 .. Nowhere /\ fromHeight \in 0 .. MaxHeight + 1)'
      BY <2>1, <2>4, Zenon DEF Nowhere
    <3>2. (running \in BOOLEAN)'
      BY <2>1, Zenon
    <3> QED
      BY <2>3, <3>1, <3>2, Zenon DEF PassTypes
  <2>7. ASSUME NEW i \in Tables, NEW b \in Nat, b >= t \div Gran[i] \/ Pending(i, b) \/ Passing(i, b)
        PROVE  Pending(i, b)' \/ Passing(i, b)'
    <3>1. CASE Passing(i, b)
      <4>1. PICK d \in Caller : Ahead(d, i, b)
        BY <3>1, Zenon DEF Passing
      <4>2. d # c
        BY <2>1, <4>1 DEF Ahead, Idle
      <4>3. Ahead(d, i, b)'
        BY <2>3, <4>1, <4>2, Zenon DEF Ahead
      <4> QED
        BY <4>3, Zenon DEF Passing
    <3>2. CASE b >= t \div Gran[i] \/ Pending(i, b)
      <4>1. b >= Earlier(from, t) \div Gran[i]
        BY <1>0, <3>2, EarlierCovers, Zenon DEF Pending
      <4> QED
        BY <1>1, <2>3, <4>1, BegunCovers, Zenon
    <3> QED
      BY <2>7, <3>1, <3>2, Zenon
  <2> QED
    BY <2>5, <2>7, Zenon
<1> QED
  BY <1>3, <1>4, Zenon

-----------------------------------------------------------------------------
(* The steps.                                                              *)

LEMMA RefreshStep ==
  ASSUME Types, Windows, Refresh
  PROVE  /\ Types' /\ ix'.pc \in {"wait", "idle"}
         /\ \A i \in Tables, b \in Nat :
              Asked(i, b) \/ Pending(i, b) \/ Passing(i, b) => Pending(i, b)' \/ Passing(i, b)'
<1>0. UNCHANGED <<base, tables, faults>> /\ PassTypes /\ ix.pc = "refresh"
  BY Zenon DEF Refresh, Types
<1>1. PICK c \in Caller : Request(c, ix.t, ix.h) /\ ix' \in {Resting, [Resting EXCEPT !.pc = "wait"]}
  BY Zenon DEF Refresh, Caller
<1>2. ix.t \in Times /\ ix.h \in 0 .. MaxHeight + 1
  <2>1. ix.t \in Times /\ ix.h \in 1 .. MaxHeight
    BY <1>0, Zenon DEF Windows
  <2> QED
    BY <2>1
<1>3. /\ PassTypes'
      /\ \A i \in Tables, b \in Nat :
           b >= ix.t \div Gran[i] \/ Pending(i, b) \/ Passing(i, b) => Pending(i, b)' \/ Passing(i, b)'
  BY <1>0, <1>1, <1>2, RequestCovers, Zenon
<1>4. (ix \in Indexer)' /\ ix'.pc \in {"wait", "idle"}
  <2>1. ix' \in Indexer
    BY <1>1, IndexerRecords, Zenon
  <2> QED
    BY <1>1, <2>1 DEF Resting
<1>5. Types'
  BY <1>0, <1>3, <1>4, Zenon DEF Types, BaseTypes, TableTypes, IndexerTypes, base, tables, Height
<1> QED
  BY <1>3, <1>4, <1>5, Zenon DEF Asked

(* The passes are gone with the process, or the one that throws is. *)
LEMMA FaultTypes ==
  ASSUME Types, Crash \/ \E c \in Caller : PassThrows(c)
  PROVE  /\ Types' /\ faults' # 0 /\ (ix' = Resting \/ ix' = ix) /\ blocks' = blocks
<1>0. /\ UNCHANGED <<base, tables>> /\ faults < MaxFaults /\ faults' = faults + 1
      /\ PassTypes /\ faults \in 0 .. MaxFaults /\ ix \in Indexer
  BY Zenon DEF Crash, PassThrows, Types, IndexerTypes
<1>1. faults' \in 0 .. MaxFaults /\ faults' # 0
  BY <1>0
<1>2. CASE Crash
  <2>1. /\ from' = Nowhere /\ fromHeight' = MaxHeight + 1 /\ running' = FALSE
        /\ pass' = [c \in Caller |-> Idle] /\ ix' = Resting
    BY <1>2, Zenon DEF Crash
  <2>2. Nowhere \in 0 .. Nowhere /\ MaxHeight + 1 \in 0 .. MaxHeight + 1
    BY DEF Nowhere
  <2>3. (from \in 0 .. Nowhere /\ fromHeight \in 0 .. MaxHeight + 1)'
    BY <2>1, <2>2, Zenon DEF Nowhere
  <2>4. (running \in BOOLEAN)'
    BY <2>1, Zenon
  <2>5. (pass \in [Caller -> Pass])' /\ (ix \in Indexer)'
    BY <2>1, PassRecords, IndexerRecords, Zenon
  <2>6. Types'
    BY <1>0, <1>1, <2>3, <2>4, <2>5, Zenon
       DEF Types, BaseTypes, TableTypes, PassTypes, IndexerTypes, base, tables, Height
  <2> QED
    BY <1>0, <1>1, <2>1, <2>6, Zenon DEF base
<1>3. CASE \E c \in Caller : PassThrows(c)
  <2>1. PICK c \in Caller : PassThrows(c)
    BY <1>3, Zenon
  <2>2. running' = FALSE /\ pass' = [pass EXCEPT ![c] = Idle] /\ UNCHANGED <<from, fromHeight, ix>>
    BY <2>1, Zenon DEF PassThrows
  <2>3. (pass \in [Caller -> Pass])'
    BY <1>0, <2>2, PassRecords, OnePass, Zenon
  <2>4. Types'
    BY <1>0, <1>1, <2>2, <2>3, Zenon
       DEF Types, BaseTypes, TableTypes, PassTypes, IndexerTypes, base, tables, Height, Nowhere
  <2> QED
    BY <1>0, <1>1, <2>2, <2>4, Zenon DEF base
<1> QED
  BY <1>2, <1>3, Zenon

LEMMA ReturnTypes ==
  ASSUME Types, RefreshReturns
  PROVE  Types' /\ ix' = Resting /\ ix.pc = "wait" /\ UNCHANGED <<blocks, tables, window, pass, faults>>
<1>1. /\ ix' = Resting /\ ix.pc = "wait" /\ UNCHANGED <<base, tables, window, pass, faults>>
  BY Zenon DEF RefreshReturns
<1> QED
  BY <1>1, IndexerRecords, Zenon
     DEF Types, BaseTypes, TableTypes, PassTypes, IndexerTypes, base, tables, window, Height, Nowhere

(* Windows hold: the indexer alone writes ix and blocks. *)
LEMMA WindowsHold ==
  ASSUME Types, Windows, [Next]_vars
  PROVE  Types' /\ Windows'
<1>1. CASE Apply
  <2>1. Types' /\ ix'.pc = "refresh" /\ ix'.t \in Times /\ ix'.h \in 1 .. MaxHeight
    BY <1>1, ApplyRows, Zenon
  <2> QED
    BY <2>1 DEF Windows
<1>2. CASE Refresh
  <2>1. Types' /\ ix'.pc \in {"wait", "idle"}
    BY <1>2, RefreshStep, Zenon
  <2> QED
    BY <2>1 DEF Windows
<1>3. CASE RefreshReturns
  <2>1. Types' /\ ix' = Resting
    BY <1>3, ReturnTypes, Zenon
  <2> QED
    BY <2>1 DEF Windows, Resting
<1>4. CASE RollBack
  <2>1. /\ Types' /\ ix'.pc = "deleteRows" /\ ix'.t \in Times
        /\ ix'.h \in 1 .. MaxHeight /\ ix'.h <= Height /\ blocks' = blocks
        /\ \A i \in 1 .. Height : i >= ix'.h => ix'.t <= blocks[i].time
    BY <1>4, RollBackFloor, Zenon DEF RollBack
  <2> QED
    BY <2>1, Zenon DEF Windows, Height
<1>5. CASE DeleteRows
  <2>1. Types' /\ ix'.pc = "refresh" /\ ix'.t \in Times /\ ix'.h \in 1 .. MaxHeight
    BY <1>5, DeletedRows, Zenon
  <2> QED
    BY <2>1 DEF Windows
<1>6. CASE Crash \/ \E c \in Caller : PassThrows(c)
  <2>1. Types' /\ (ix' = Resting \/ ix' = ix) /\ blocks' = blocks
    BY <1>6, FaultTypes, Zenon
  <2>2. CASE ix' = Resting
    BY <2>1, <2>2 DEF Windows, Resting
  <2>3. CASE ix' = ix
    BY <2>1, <2>3, Zenon DEF Windows, Height
  <2> QED
    BY <2>1, <2>2, <2>3, Zenon
<1>7. ASSUME NEW c \in Caller, PassStep(c) PROVE Types' /\ Windows'
  <2>1. Delete(c) \/ Insert(c) \/ SuperblockStep(c)
    BY <1>7, Zenon DEF PassStep, SuperblockStep
  <2>2. Types'
    BY <2>1, RollupStepTypes, SuperblockStepTypes, Zenon
  <2>3. UNCHANGED <<blocks, ix>>
    BY <2>1, Zenon DEF Delete, Insert, SuperblockStep, Find, DeleteStats, InsertStats, FindYears,
                       DeleteYear, InsertYear, DeleteAll, InsertAll, base
  <2> QED
    BY <2>2, <2>3, Zenon DEF Windows, Height
<1>8. CASE UNCHANGED vars
  <2>1. Types'
    BY <1>8, Zenon DEF vars, Types, BaseTypes, TableTypes, PassTypes, IndexerTypes, Height, Nowhere
  <2> QED
    BY <1>8, <2>1, Zenon DEF vars, Windows, Height
<1> QED
  BY <1>1, <1>2, <1>3, <1>4, <1>5, <1>6, <1>7, <1>8, Zenon DEF Next, IndexerStep

-----------------------------------------------------------------------------
(* A stale bucket stays covered.                                           *)

CoveredAt(i, b) == Exact(i, b) \/ Pending(i, b) \/ Passing(i, b) \/ Asked(i, b)

(* Rows that come and go no earlier than a floor leave the buckets below   *)
(* it as they are.                                                         *)
LEMMA BelowTheFloor ==
  ASSUME NEW i \in Tables, NEW b \in Nat, NEW t \in Times, Rows \subseteq Block, Rows' \subseteq Block,
         ~(b >= t \div Gran[i]), rollup' = rollup,
         \A r \in Rows \cup Rows' : (r \in Rows /\ r \in Rows') \/ t <= r.time,
         Exact(i, b)
  PROVE  Exact(i, b)'
<1>1. \A r \in Block : r.time \in Nat /\ t \in Nat /\ Gran[i] \in Nat \ {0}
  BY Divisors DEF Block, Times
<1>2. \A r \in Block : t <= r.time => r.time \div Gran[i] # b
  <2> TAKE r \in Block
  <2> HAVE t <= r.time
  <2> DEFINE g == Gran[i]  x == r.time
  <2>1. t \in Nat /\ x \in Nat /\ g \in Nat \ {0} /\ t <= x
    BY <1>1, Zenon
  <2> HIDE DEF g, x
  <2>2. t \div g \in Nat /\ t \div g <= x \div g
    BY <2>1, DivMonotone, Zenon
  <2>3. x \div g \in Nat /\ ~(b >= t \div g)
    BY <2>1, DivMonotone DEF g
  <2> DEFINE td == t \div g  xd == x \div g
  <2>4. td \in Nat /\ xd \in Nat /\ td <= xd /\ ~(b >= td)
    BY <2>2, <2>3
  <2> HIDE DEF td, xd
  <2>5. xd # b
    BY <2>4
  <2> QED
    BY <2>5, Zenon DEF xd, x, g
<1>3. \A r : (r \in Rows /\ r.time \div Gran[i] = b) <=> (r \in Rows' /\ r.time \div Gran[i] = b)
  BY <1>2, Zenon
<1>4. {r \in Rows : r.time \div Gran[i] = b} = {r \in Rows' : r.time \div Gran[i] = b}
  BY <1>3, Zenon
<1> QED
  BY <1>4, Zenon DEF Exact

LEMMA PassCovers ==
  ASSUME Types, NEW c \in Caller, Delete(c) \/ Insert(c), NEW i \in Tables, NEW b \in Times, CoveredAt(i, b)
  PROVE  CoveredAt(i, b)'
<1>0. /\ UNCHANGED <<base, ix>> /\ rollup \in [Tables -> [Times -> SUBSET Block]]
      /\ PassTypes /\ pass[c] \in Pass /\ pass \in [Caller -> Pass] /\ b \in Nat
  BY DEF Delete, Insert, Types, TableTypes, PassTypes, Times
<1>1. Rows' = Rows /\ (Asked(i, b) => Asked(i, b)')
  BY <1>0, Zenon DEF Rows, Height, base, Asked
<1> DEFINE a == pass[c].at
           In == b >= pass[c].t \div Gran[a] /\ i = a
<1>2. CASE Delete(c)
  <2>1. /\ rollup' = [rollup EXCEPT ![a] = [x \in Times |-> IF x >= Floor(c) THEN {} ELSE rollup[a][x]]]
        /\ Goto(c, "insert") /\ pass[c].pc = "delete"
    BY <1>2 DEF Delete, At
  <2>2. "insert" \in Stage
    BY DEF Stage
  <2>3. /\ pass'[c] = [pass[c] EXCEPT !.pc = "insert"] /\ from' = from
        /\ \A d \in Caller \ {c} : pass'[d] = pass[d]
    BY <1>0, <2>1, <2>2, OneStage, Zenon
  <2>4. pass'[c].pc = "insert" /\ pass'[c].at = a /\ pass'[c].t = pass[c].t
    BY <1>0, <2>3 DEF Pass
  <2>5. \A d \in Caller : Ahead(d, i, b) => Ahead(d, i, b)'
    <3> TAKE d \in Caller
    <3>1. CASE d = c
      BY <2>4, <3>1, Zenon DEF Ahead
    <3>2. CASE d # c
      BY <2>3, <3>2, Zenon DEF Ahead
    <3> QED
      BY <3>1, <3>2
  <2>6. (Pending(i, b) => Pending(i, b)') /\ (Passing(i, b) => Passing(i, b)')
    BY <2>3, <2>5, Zenon DEF Pending, Passing, Nowhere
  <2>7. CASE In
    <3>1. a <= i /\ b >= pass'[c].t \div Gran[i]
      BY <2>4, <2>7 DEF Tables
    <3>2. Ahead(c, i, b)'
      BY <2>4, <3>1, Zenon DEF Ahead
    <3> QED
      BY <3>2, Zenon DEF CoveredAt, Passing
  <2>8. CASE ~In
    <3>1. rollup'[i][b] = rollup[i][b]
      <4>1. CASE i # a
        <5> HIDE DEF a
        <5> QED
          BY <1>0, <2>1, <4>1
      <4>2. CASE i = a /\ ~(b >= Floor(c))
        <5> DEFINE new == [x \in Times |-> IF x >= Floor(c) THEN {} ELSE rollup[a][x]]
        <5>1. new[b] = rollup[i][b]
          BY <4>2, Zenon
        <5> HIDE DEF new, a
        <5>2. rollup'[i] = new
          BY <1>0, <2>1, <4>2 DEF new
        <5> QED
          BY <5>1, <5>2, Zenon
      <4> QED
        BY <2>8, <4>1, <4>2, Zenon DEF Floor
    <3>2. Exact(i, b) => Exact(i, b)'
      BY <1>1, <3>1, Zenon DEF Exact
    <3> QED
      BY <1>1, <2>6, <3>2, Zenon DEF CoveredAt
  <2> QED
    BY <2>7, <2>8, Zenon
<1>3. CASE Insert(c)
  <2> DEFINE new == [x \in Times |-> IF x >= Floor(c) THEN {r \in Rows : r.time \div Gran[a] = x} ELSE rollup[a][x]]
  <2>1. rollup' = [rollup EXCEPT ![a] = new] /\ pass[c].pc = "insert"
    BY <1>3 DEF Insert, At
  <2>2. CASE In
    <3>1. new[b] = {r \in Rows : r.time \div Gran[i] = b}
      BY <2>2, Zenon DEF Floor
    <3> HIDE DEF new
    <3>2. rollup'[i] = new
      <4> HIDE DEF a
      <4>1. i = a
        BY <2>2, Zenon
      <4> QED
        BY <1>0, <2>1, <4>1
    <3>3. Exact(i, b)'
      BY <1>1, <3>1, <3>2, Zenon DEF Exact
    <3> QED
      BY <3>3, Zenon DEF CoveredAt
  <2>3. CASE ~In
    <3>1. rollup'[i][b] = rollup[i][b]
      <4>1. CASE i # a
        <5> HIDE DEF a, new
        <5> QED
          BY <1>0, <2>1, <4>1
      <4>2. CASE i = a /\ ~(b >= Floor(c))
        <5>1. new[b] = rollup[i][b]
          BY <4>2, Zenon
        <5> HIDE DEF new, a
        <5>2. rollup'[i] = new
          BY <1>0, <2>1, <4>2
        <5> QED
          BY <5>1, <5>2, Zenon
      <4> QED
        BY <2>3, <4>1, <4>2, Zenon DEF Floor
    <3>2. Exact(i, b) => Exact(i, b)'
      BY <1>1, <3>1, Zenon DEF Exact
    <3>3. CASE a < 2
      <4>1. pass' = [pass EXCEPT ![c].pc = "delete", ![c].at = @ + 1] /\ UNCHANGED window
        BY <1>3, <3>3, Zenon DEF Insert
      <4>2. a \in 0 .. 2
        BY <1>0 DEF Pass
      <4>3. /\ pass'[c].pc = "delete" /\ pass'[c].at = a + 1 /\ pass'[c].t = pass[c].t
            /\ \A d \in Caller \ {c} : pass'[d] = pass[d]
        BY <1>0, <4>1 DEF Pass
      <4>4. Ahead(c, i, b) => Ahead(c, i, b)'
        <5> HAVE Ahead(c, i, b)
        <5>1. a <= i /\ b >= pass[c].t \div Gran[i]
          BY Zenon DEF Ahead
        <5>2. a # i
          BY <2>3, <5>1
        <5>3. a + 1 <= i
          BY <4>2, <5>1, <5>2 DEF Tables
        <5> QED
          BY <4>3, <5>1, <5>3, Zenon DEF Ahead
      <4>5. \A d \in Caller : Ahead(d, i, b) => Ahead(d, i, b)'
        BY <4>3, <4>4, Zenon DEF Ahead
      <4>6. (Pending(i, b) => Pending(i, b)') /\ (Passing(i, b) => Passing(i, b)')
        BY <4>1, <4>5, Zenon DEF Pending, Passing, Nowhere, window
      <4> QED
        BY <1>1, <3>2, <4>6, Zenon DEF CoveredAt
    <3>4. CASE ~(a < 2)
      <4>1. Goto(c, "find") /\ "find" \in Stage
        BY <1>3, <3>4 DEF Insert, Stage
      <4>2. from' = from /\ \A d \in Caller \ {c} : pass'[d] = pass[d]
        BY <1>0, <4>1, OneStage, Zenon
      <4>3. ~Ahead(c, i, b)
        <5>1. a \in 0 .. 2
          BY <1>0 DEF Pass
        <5>2. a <= i => i = a
          BY <3>4, <5>1 DEF Tables
        <5> QED
          BY <2>3, <5>2, Zenon DEF Ahead
      <4>4. \A d \in Caller : Ahead(d, i, b) => Ahead(d, i, b)'
        BY <4>2, <4>3, Zenon DEF Ahead
      <4>5. (Pending(i, b) => Pending(i, b)') /\ (Passing(i, b) => Passing(i, b)')
        BY <4>2, <4>4, Zenon DEF Pending, Passing, Nowhere
      <4> QED
        BY <1>1, <3>2, <4>5, Zenon DEF CoveredAt
    <3> QED
      BY <3>3, <3>4, Zenon
  <2> QED
    BY <2>2, <2>3, Zenon
<1> QED
  BY <1>2, <1>3, Zenon

LEMMA OthersCover ==
  ASSUME Types, NEW c \in Caller, SuperblockStep(c), NEW i \in Tables, NEW b \in Nat, CoveredAt(i, b)
  PROVE  CoveredAt(i, b)'
<1>1. UNCHANGED <<blocks, rollup, ix>> /\ pass[c].pc \notin {"delete", "insert"}
  BY Zenon DEF SuperblockStep, Find, DeleteStats, InsertStats, FindYears, DeleteYear, InsertYear,
               DeleteAll, InsertAll, At, base, tables
<1>2. (Exact(i, b) => Exact(i, b)') /\ (Asked(i, b) => Asked(i, b)')
  BY <1>1, Zenon DEF Exact, Rows, Height, Asked
<1>3. /\ \A d \in Caller \ {c} : pass'[d] = pass[d]
      /\ from' = from \/ (from \in Times /\ pass'[c] = Begun(from, fromHeight))
  BY SuperblockStepTypes, Zenon
<1>4. Passing(i, b) => Passing(i, b)'
  <2> HAVE Passing(i, b)
  <2>1. PICK d \in Caller : Ahead(d, i, b)
    BY Zenon DEF Passing
  <2>2. d # c
    BY <1>1, <2>1, Zenon DEF Ahead
  <2>3. Ahead(d, i, b)'
    BY <1>3, <2>1, <2>2, Zenon DEF Ahead
  <2> QED
    BY <2>3, Zenon DEF Passing
<1>5. Pending(i, b) => Pending(i, b)' \/ Passing(i, b)'
  BY <1>3, BegunCovers, Zenon DEF Pending, Nowhere
<1> QED
  BY <1>2, <1>4, <1>5, Zenon DEF CoveredAt

LEMMA IndexerCovers ==
  ASSUME Types, Windows, Types', IndexerStep, NEW i \in Tables, NEW b \in Nat, CoveredAt(i, b)
  PROVE  CoveredAt(i, b)'
<1>1. Rows \subseteq Block /\ Rows' \subseteq Block
  <2>1. blocks' \in Seq(Block)
    BY Zenon DEF Types, BaseTypes
  <2>2. \A k \in 1 .. Len(blocks') : blocks'[k] \in Block
    BY <2>1
  <2> QED
    BY <2>2, RowsAreBlocks, Zenon DEF Rows, Height
<1>2. ASSUME UNCHANGED <<tables, window, pass>> PROVE
        (Pending(i, b) \/ Passing(i, b) => Pending(i, b)' \/ Passing(i, b)') /\ rollup' = rollup
  BY <1>2, Zenon DEF Pending, Passing, Ahead, Nowhere, tables, window
<1>3. ASSUME NEW t \in Times, UNCHANGED <<tables, window, pass>>, ix'.pc = "refresh", ix'.t = t,
             ix.pc # "refresh",
             \A r \in Rows \cup Rows' : (r \in Rows /\ r \in Rows') \/ t <= r.time
      PROVE  CoveredAt(i, b)'
  <2>1. CASE b >= t \div Gran[i]
    BY <1>3, <2>1, Zenon DEF CoveredAt, Asked
  <2>2. CASE ~(b >= t \div Gran[i])
    <3>1. Exact(i, b) => Exact(i, b)'
      BY <1>1, <1>2, <1>3, <2>2, BelowTheFloor, Zenon
    <3>2. ~Asked(i, b)
      BY <1>3, Zenon DEF Asked
    <3> QED
      BY <1>2, <1>3, <3>1, <3>2, Zenon DEF CoveredAt
  <2> QED
    BY <2>1, <2>2, Zenon
<1>4. CASE Apply
  <2>1. UNCHANGED <<tables, window, pass>> /\ ix.pc # "refresh"
    BY <1>4 DEF Apply, Resting
  <2>2. /\ ix'.pc = "refresh" /\ ix'.t \in Times
        /\ \A r \in Rows \cup Rows' : (r \in Rows /\ r \in Rows') \/ ix'.t <= r.time
    BY <1>4, ApplyRows, Zenon
  <2> QED
    BY <1>3, <2>1, <2>2, Zenon
<1>5. CASE DeleteRows
  <2>1. UNCHANGED <<tables, window, pass>> /\ ix.pc # "refresh"
    BY <1>5 DEF DeleteRows
  <2>2. /\ ix'.pc = "refresh" /\ ix'.t \in Times
        /\ \A r \in Rows \cup Rows' : (r \in Rows /\ r \in Rows') \/ ix'.t <= r.time
    BY <1>5, DeletedRows, Zenon
  <2> QED
    BY <1>3, <2>1, <2>2, Zenon
<1>6. CASE Refresh
  <2>1. UNCHANGED <<blocks, rollup>>
    BY <1>6, Zenon DEF Refresh, base, tables
  <2>2. Exact(i, b) => Exact(i, b)'
    BY <2>1, Zenon DEF Exact, Rows, Height
  <2> QED
    BY <1>6, <2>2, RefreshStep, Zenon DEF CoveredAt
<1>7. CASE RefreshReturns \/ RollBack
  <2>1. UNCHANGED <<blocks, tables, window, pass>> /\ ix.pc # "refresh"
    BY <1>7 DEF RefreshReturns, RollBack, Resting, base
  <2>2. Exact(i, b) => Exact(i, b)'
    BY <2>1, Zenon DEF Exact, Rows, Height, tables
  <2> QED
    BY <1>2, <2>1, <2>2, Zenon DEF CoveredAt, Asked
<1> QED
  BY <1>4, <1>5, <1>6, <1>7, Zenon DEF IndexerStep

LEMMA InvariantInit == Init => IInv
<1> SUFFICES ASSUME Init PROVE IInv
  OBVIOUS
<1>1. Types
  BY InitTypes, Zenon
<1>2. Windows
  BY DEF Init, Windows, Resting
<1>3. ASSUME NEW i \in Tables, NEW b \in Buckets(i) PROVE Exact(i, b)
  <2>1. Rows = {}
    BY DEF Init, Rows, Height
  <2>2. b \in Times
    BY BucketsAreNatural, Zenon
  <2>3. rollup[i][b] = {}
    BY <2>2 DEF Init
  <2> QED
    BY <2>1, <2>3, Zenon DEF Exact
<1>4. StaleIsCovered
  BY <1>3, Zenon DEF StaleIsCovered
<1> QED
  BY <1>1, <1>2, <1>4, Zenon DEF IInv

LEMMA InvariantStep == IInv /\ [Next]_vars => IInv'
<1> SUFFICES ASSUME IInv, [Next]_vars PROVE IInv'
  OBVIOUS
<1>0. Types /\ Windows /\ StaleIsCovered
  BY Zenon DEF IInv
<1>1. Types' /\ Windows'
  BY <1>0, WindowsHold, Zenon
<1>2. ASSUME faults' = 0, NEW i \in Tables, NEW b \in Buckets(i) PROVE CoveredAt(i, b)'
  <2>1. b \in Nat /\ b \in Times
    BY BucketsAreNatural, Zenon
  <2>2. ~Crash /\ ~(\E c \in Caller : PassThrows(c))
    BY <1>0, <1>2, FaultTypes, Zenon
  <2>3. faults = 0
    BY <1>2, <2>2, Zenon DEF Next, IndexerStep, Apply, Refresh, RefreshReturns, RollBack, DeleteRows, PassStep,
       Delete, Insert, Find, DeleteStats, InsertStats, FindYears, DeleteYear, InsertYear, DeleteAll, InsertAll, vars
  <2>4. CoveredAt(i, b)
    BY <1>0, <2>3, Coverage, Zenon DEF CoveredAt
  <2>5. CASE IndexerStep
    BY <1>0, <1>1, <2>1, <2>4, <2>5, IndexerCovers, Zenon
  <2>6. ASSUME NEW c \in Caller, PassStep(c) PROVE CoveredAt(i, b)'
    <3>1. Delete(c) \/ Insert(c) \/ SuperblockStep(c)
      BY <2>6, Zenon DEF PassStep, SuperblockStep
    <3> QED
      BY <1>0, <2>1, <2>4, <3>1, PassCovers, OthersCover, Zenon
  <2>7. CASE UNCHANGED vars
    BY <2>4, <2>7, Zenon DEF vars, CoveredAt, Exact, Rows, Height, Pending, Passing, Ahead, Asked, Nowhere
  <2> QED
    BY <2>2, <2>5, <2>6, <2>7, Zenon DEF Next
<1>3. StaleIsCovered'
  BY <1>2, Zenon DEF StaleIsCovered, CoveredAt, Pending, Passing, Asked, Buckets, Times, Gran, Tables, Caller
<1> QED
  BY <1>0, <1>1, <1>3, Zenon DEF IInv

(* Every variable of the rollups keeps its type. *)
THEOREM RollupTypes == Safety => []TypeOK
<1>1. IInv => TypeOK
  BY Typed, Zenon DEF IInv
<1> QED
  BY <1>1, InvariantInit, InvariantStep, PTL DEF Safety

(* RollupMaintainer: a bucket that is not the sum of its rows is going to be *)
(* rebuilt, whatever order block times have, wherever a rollback cuts, and   *)
(* however many callers were folded into one pass.                           *)
THEOREM StaleBucketsCovered == Safety => []StaleIsCovered
<1>1. IInv => StaleIsCovered
  BY Zenon DEF IInv
<1> QED
  BY <1>1, InvariantInit, InvariantStep, PTL DEF Safety

-----------------------------------------------------------------------------
(* Superblocks: without a rollback, what their tables lack is due.         *)

(* The superblocks are in the order of their times. *)
InOrder(S) == \A r, s \in S : r.h < s.h => r.time <= s.time

(* What is pending, or about to be asked for: heights from f on, and from  *)
(* that of the indexer on.                                                 *)
Later(h, f, x) == h >= f \/ (x.pc = "refresh" /\ h >= x.h)

(* What a pass has before it. *)
StatsAhead(q, h) ==
  \/ q.pc \in {"delete", "insert", "find"} /\ h >= q.h
  \/ q.pc \in {"deleteStats", "insertStats"} /\ h >= q.hLo
YearAhead(q, S, y) ==
  \/ q.pc \in {"delete", "insert", "find"} /\ \E s \in S : s.h >= q.h /\ Year(s.time) = y
  \/ q.pc \in {"deleteStats", "insertStats", "years"} /\ \E s \in S : s.h >= q.hLo /\ Year(s.time) = y
  \/ q.pc \in {"deleteYear", "insertYear"} /\ \E r \in q.years : r.y = y

Wanted(S, B, h) == IF \E s \in S : s.h = h THEN B[h] ELSE NoBlock

StatsDue(S, B, st, f, x, q) ==
  \A h \in Heights : \/ st[h] = Wanted(S, B, h)
                     \/ st[h] = NoBlock /\ (Later(h, f, x) \/ StatsAhead(q, h))
TotalsDue(S, tt, f, x, q) ==
  \A s \in S : s \in tt[Year(s.time)] \/ Later(s.h, f, x) \/ YearAhead(q, S, Year(s.time))
NoneElse(S, tt) == \A y \in Years : \A s \in tt[y] : s \in S /\ Year(s.time) = y
YearsFound(S, n, f, x, q) ==
  q.pc \in {"deleteYear", "insertYear"} =>
    /\ q.years # {}
    /\ \A r \in q.years : /\ r.hi <= n
                          /\ \A s \in S : s.h \in r.lo .. r.hi => Year(s.time) = r.y
                          /\ \A s \in S : Year(s.time) = r.y => s.h \in r.lo .. r.hi \/ Later(s.h, f, x)
SumDue(tt, q) ==
  q.pc \in {"deleteYear", "insertYear", "deleteAll", "insertAll"} \/ tt[0] = UNION {tt[y] : y \in Years}

Due(S, B, n, st, tt, f, x, q) ==
  /\ StatsDue(S, B, st, f, x, q) /\ TotalsDue(S, tt, f, x, q) /\ NoneElse(S, tt)
  /\ YearsFound(S, n, f, x, q) /\ SumDue(tt, q)

LEMMA IdleDue ==
  ASSUME NEW S, NEW B, NEW n, NEW st, NEW tt, NEW f, NEW x
  PROVE  /\ \A h : ~StatsAhead(Idle, h)
         /\ \A y : ~YearAhead(Idle, S, y)
         /\ YearsFound(S, n, f, x, Idle)
         /\ SumDue(tt, Idle) <=> tt[0] = UNION {tt[y] : y \in Years}
<1>1. Idle.pc = "idle"
  BY DEF Idle
<1> QED
  BY <1>1 DEF StatsAhead, YearAhead, YearsFound, SumDue

(* More becomes pending, nothing else changes. *)
LEMMA LaterDue ==
  ASSUME NEW S \in SUBSET Block, NEW B, NEW n, NEW st, NEW tt, NEW f, NEW x, NEW g, NEW z, NEW q,
         \A h \in Heights : Later(h, f, x) => Later(h, g, z), Due(S, B, n, st, tt, f, x, q)
  PROVE  Due(S, B, n, st, tt, g, z, q)
<1>1. \A s \in S : s.h \in Heights
  BY DEF Block
<1>2. StatsDue(S, B, st, g, z, q)
  BY Zenon DEF Due, StatsDue
<1>3. TotalsDue(S, tt, g, z, q)
  BY <1>1, Zenon DEF Due, TotalsDue
<1>4. YearsFound(S, n, g, z, q)
  BY <1>1, Zenon DEF Due, YearsFound
<1> QED
  BY <1>2, <1>3, <1>4, Zenon DEF Due

(* A pass begins with what was pending. *)
LEMMA BegunDue ==
  ASSUME NEW S \in SUBSET Block, NEW B, NEW n, NEW st, NEW tt, NEW f, NEW x, NEW g, NEW z, NEW t, NEW m,
         \A h \in Heights : Later(h, f, x) => h >= m \/ Later(h, g, z), Due(S, B, n, st, tt, f, x, Idle)
  PROVE  Due(S, B, n, st, tt, g, z, Begun(t, m))
<1> DEFINE q == Begun(t, m)
<1>0. q.pc = "delete" /\ q.h = m
  BY DEF Begun
<1> HIDE DEF q
<1>1. \A s \in S : s.h \in Heights
  BY DEF Block
<1>2. /\ \A h : h >= m => StatsAhead(q, h)
      /\ \A s \in S : s.h >= m => YearAhead(q, S, Year(s.time))
  BY <1>0, Zenon DEF StatsAhead, YearAhead
<1>3. StatsDue(S, B, st, g, z, q)
  BY <1>2, IdleDue, Zenon DEF Due, StatsDue
<1>4. TotalsDue(S, tt, g, z, q)
  BY <1>1, <1>2, IdleDue, Zenon DEF Due, TotalsDue
<1>5. YearsFound(S, n, g, z, q) /\ SumDue(tt, q)
  <2>1. tt[0] = UNION {tt[y] : y \in Years}
    BY IdleDue, Zenon DEF Due
  <2> QED
    BY <1>0, <2>1 DEF YearsFound, SumDue
<1> QED
  BY <1>3, <1>4, <1>5, Zenon DEF Due, q

(* The rollups keyed by time come first. *)
LEMMA BucketsDue ==
  ASSUME NEW S, NEW B, NEW n, NEW st, NEW tt, NEW f, NEW x, NEW q, NEW r, q.pc \in {"delete", "insert"},
         r.pc \in {"delete", "insert", "find"}, r.h = q.h, Due(S, B, n, st, tt, f, x, q)
  PROVE  Due(S, B, n, st, tt, f, x, r)
<1>1. \A h : StatsAhead(q, h) => StatsAhead(r, h)
  BY DEF StatsAhead
<1>2. \A y : YearAhead(q, S, y) => YearAhead(r, S, y)
  BY DEF YearAhead
<1>3. SumDue(tt, q) => SumDue(tt, r)
  BY DEF SumDue
<1>4. YearsFound(S, n, f, x, r)
  BY DEF YearsFound
<1> QED
  BY <1>1, <1>2, <1>3, <1>4, Zenon DEF Due, StatsDue, TotalsDue

LEMMA FoundNoneDue ==
  ASSUME NEW S \in SUBSET Block, NEW B, NEW n, NEW st, NEW tt, NEW f, NEW x, NEW q, q.pc = "find",
         \A s \in S : ~(s.h >= q.h), Due(S, B, n, st, tt, f, x, q)
  PROVE  Due(S, B, n, st, tt, f, x, Idle)
<1>1. \A h : StatsAhead(q, h) => h >= q.h
  BY DEF StatsAhead
<1>2. \A h : h >= q.h => Wanted(S, B, h) = NoBlock
  BY Zenon DEF Wanted
<1>3. \A y : ~YearAhead(q, S, y)
  BY DEF YearAhead
<1>4. SumDue(tt, q) => SumDue(tt, Idle)
  BY IdleDue DEF SumDue
<1>5. StatsDue(S, B, st, f, x, Idle)
  BY <1>1, <1>2, Zenon DEF Due, StatsDue
<1>6. TotalsDue(S, tt, f, x, Idle)
  BY <1>3, Zenon DEF Due, TotalsDue
<1> QED
  BY <1>4, <1>5, <1>6, IdleDue, Zenon DEF Due

LEMMA FoundDue ==
  ASSUME NEW S \in SUBSET Block, NEW B, NEW n, NEW st, NEW tt, NEW f, NEW x, NEW q, NEW r, q.pc = "find",
         \A s \in S : s.h >= q.h => s.h >= r.hLo, r.pc = "deleteStats",
         q.h \in Int, r.hLo \in Int, Due(S, B, n, st, tt, f, x, q)
  PROVE  Due(S, B, n, st, tt, f, x, r)
<1>1. \A h : StatsAhead(q, h) => h >= q.h
  BY DEF StatsAhead
<1>2. \A h : h >= q.h => Wanted(S, B, h) = NoBlock \/ StatsAhead(r, h)
  BY Zenon DEF Wanted, StatsAhead
<1>3. \A y : YearAhead(q, S, y) => YearAhead(r, S, y)
  BY DEF YearAhead
<1>4. SumDue(tt, q) => SumDue(tt, r)
  BY DEF SumDue
<1>5. StatsDue(S, B, st, f, x, r)
  BY <1>1, <1>2, Zenon DEF Due, StatsDue
<1>6. TotalsDue(S, tt, f, x, r)
  BY <1>3, Zenon DEF Due, TotalsDue
<1>7. YearsFound(S, n, f, x, r)
  BY DEF YearsFound
<1> QED
  BY <1>4, <1>5, <1>6, <1>7, Zenon DEF Due

LEMMA DeletedStatsDue ==
  ASSUME NEW S \in SUBSET Block, NEW B, NEW n, NEW st, NEW tt, NEW f, NEW x, NEW q, NEW r, q.pc = "deleteStats",
         r.pc = "insertStats", r.hLo = q.hLo, Due(S, B, n, st, tt, f, x, q)
  PROVE  Due(S, B, n, [h \in Heights |-> IF h >= q.hLo THEN NoBlock ELSE st[h]], tt, f, x, r)
<1> DEFINE su == [h \in Heights |-> IF h >= q.hLo THEN NoBlock ELSE st[h]]
<1>1. \A h : StatsAhead(q, h) => StatsAhead(r, h)
  BY DEF StatsAhead
<1>2. \A h : h >= q.hLo => StatsAhead(r, h)
  BY DEF StatsAhead
<1>3. \A y : YearAhead(q, S, y) => YearAhead(r, S, y)
  BY DEF YearAhead
<1>4. SumDue(tt, q) => SumDue(tt, r)
  BY DEF SumDue
<1>5. StatsDue(S, B, su, f, x, r)
  BY <1>1, <1>2, Zenon DEF Due, StatsDue
<1>6. TotalsDue(S, tt, f, x, r)
  BY <1>3, Zenon DEF Due, TotalsDue
<1>7. YearsFound(S, n, f, x, r)
  BY DEF YearsFound
<1> QED
  BY <1>4, <1>5, <1>6, <1>7, Zenon DEF Due

LEMMA InsertedStatsDue ==
  ASSUME NEW S \in SUBSET Block, NEW B, NEW n, NEW st, NEW tt, NEW f, NEW x, NEW q, NEW r, q.pc = "insertStats",
         r.pc = "years", r.hLo = q.hLo, Due(S, B, n, st, tt, f, x, q),
         \A h \in Heights : h >= q.hLo => st[h] = NoBlock
  PROVE  Due(S, B, n, [h \in Heights |-> IF h >= q.hLo /\ \E s \in S : s.h = h THEN B[h] ELSE st[h]], tt, f, x, r)
<1> DEFINE su == [h \in Heights |-> IF h >= q.hLo /\ \E s \in S : s.h = h THEN B[h] ELSE st[h]]
<1>1. \A h : StatsAhead(q, h) => h >= q.hLo
  BY DEF StatsAhead
<1>2. \A h \in Heights : h >= q.hLo => su[h] = Wanted(S, B, h)
  BY Zenon DEF Wanted
<1>3. \A y : YearAhead(q, S, y) => YearAhead(r, S, y)
  BY DEF YearAhead
<1>4. SumDue(tt, q) => SumDue(tt, r)
  BY DEF SumDue
<1>5. StatsDue(S, B, su, f, x, r)
  <2>1. \A h \in Heights : ~(h >= q.hLo) => su[h] = st[h]
    BY Zenon
  <2> HIDE DEF su
  <2> QED
    BY <1>1, <1>2, <2>1, Zenon DEF Due, StatsDue
<1>6. TotalsDue(S, tt, f, x, r)
  BY <1>3, Zenon DEF Due, TotalsDue
<1>7. YearsFound(S, n, f, x, r)
  BY DEF YearsFound
<1> QED
  BY <1>4, <1>5, <1>6, <1>7, Zenon DEF Due

LEMMA YearsArePositive ==
  /\ 0 \notin Years /\ Years \subseteq Nat
  /\ \A t \in Times : Year(t) \in Years
  /\ \A t, u \in Times : t <= u => Year(t) <= Year(u)
<1>1. ASSUME NEW t \in Times PROVE t \div YearSpan \in Nat
  <2>1. t \in Nat /\ t <= t
    BY DEF Times
  <2> QED
    BY <2>1, DivMonotone
<1>2. ASSUME NEW t \in Times, NEW u \in Times, t <= u PROVE Year(t) <= Year(u)
  <2>1. t \in Nat /\ u \in Nat
    BY DEF Times
  <2>2. t \div YearSpan <= u \div YearSpan
    BY <1>2, <2>1, DivMonotone
  <2> QED
    BY <1>1, <2>2 DEF Year
<1>3. ASSUME NEW t \in Times PROVE Year(t) \in Nat /\ Year(t) # 0
  BY <1>1 DEF Year
<1> QED
  BY <1>2, <1>3, Zenon DEF Years

(* The years of a pass, and the heights that bound each. *)
YearsOf(S, m) ==
  LET of(y) == {s.h : s \in {b \in S : Year(b.time) = y}}
  IN  {[y |-> y, lo |-> Min(of(y)), hi |-> Max(of(y))] : y \in {Year(s.time) : s \in {b \in S : b.h >= m}}}

LEMMA YearBounds ==
  ASSUME NEW S \in SUBSET Block, InOrder(S), \A a, b \in S : a.h = b.h => a = b, NEW m, NEW r \in YearsOf(S, m)
  PROVE  /\ \E s \in S : r.hi = s.h
         /\ \A s \in S : s.h \in r.lo .. r.hi <=> Year(s.time) = r.y
<1> DEFINE H(y) == {s.h : s \in {b \in S : Year(b.time) = y}}
<1>1. PICK y \in {Year(s.time) : s \in {b \in S : b.h >= m}} : r = [y |-> y, lo |-> Min(H(y)), hi |-> Max(H(y))]
  BY Zenon DEF YearsOf
<1> DEFINE F == H(y)
<1>2. r.y = y /\ r.lo = Min(F) /\ r.hi = Max(F)
  BY <1>1
<1>3. \A s \in S : s.h \in Heights /\ s.time \in Times
  BY DEF Block
<1>4. F # {}
  <2>1. PICK s \in S : Year(s.time) = y
    BY Zenon
  <2>2. s.h \in F
    BY <2>1, Zenon
  <2> QED
    BY <2>2, Zenon
<1>5. \A s \in S : Year(s.time) = y => s.h \in F
  BY Zenon
<1>6. \A h \in F : \E s \in S : s.h = h /\ Year(s.time) = y
  BY Zenon
<1> HIDE DEF F
<1>7. F \subseteq Nat /\ F \subseteq 0 .. MaxHeight /\ MaxHeight \in Nat
  BY <1>3, <1>6 DEF Heights
<1>8. Min(F) \in F /\ \A h \in F : Min(F) <= h
  BY <1>4, <1>7, LeastNatural, Zenon
<1>9. Max(F) \in F /\ \A h \in F : h <= Max(F)
  BY <1>4, <1>7, GreatestNatural, Zenon
<1>10. PICK a \in S : a.h = Min(F) /\ Year(a.time) = y
  BY <1>6, <1>8, Zenon
<1>11. PICK b \in S : b.h = Max(F) /\ Year(b.time) = y
  BY <1>6, <1>9, Zenon
<1>12. ASSUME NEW s \in S, s.h \in r.lo .. r.hi PROVE Year(s.time) = r.y
  <2>1. a.h <= s.h /\ s.h <= b.h /\ a.h \in Int /\ s.h \in Int /\ b.h \in Int
    BY <1>2, <1>3, <1>10, <1>11, <1>12 DEF Heights
  <2>2. \A u, v \in S : u.h \in Int /\ v.h \in Int /\ u.h <= v.h => u.time <= v.time
    <3> TAKE u, v \in S
    <3> HAVE u.h \in Int /\ v.h \in Int /\ u.h <= v.h
    <3>1. u.time \in Int /\ v.time \in Int
      BY <1>3 DEF Times
    <3>2. CASE u.h = v.h
      <4>1. u = v
        BY <3>2, Zenon
      <4> QED
        BY <3>1, <4>1
    <3>3. CASE u.h < v.h
      BY <3>3, Zenon DEF InOrder
    <3> QED
      BY <3>2, <3>3
  <2>3. a.time <= s.time /\ s.time <= b.time
    BY <2>1, <2>2, Zenon
  <2>4. Year(a.time) <= Year(s.time) /\ Year(s.time) <= Year(b.time) /\ Year(s.time) \in Nat /\ y \in Nat
    <3>1. Year(a.time) <= Year(s.time) /\ Year(s.time) <= Year(b.time)
      BY <1>3, <2>3, YearsArePositive, Zenon
    <3>2. Year(s.time) \in Years /\ Year(a.time) \in Years
      BY <1>3, YearsArePositive, Zenon
    <3> QED
      BY <1>10, <3>1, <3>2, YearsArePositive
  <2> QED
    BY <1>2, <1>10, <1>11, <2>4
<1>13. ASSUME NEW s \in S, Year(s.time) = r.y PROVE s.h \in r.lo .. r.hi
  <2>1. s.h \in F
    BY <1>2, <1>5, <1>13, Zenon
  <2>2. Min(F) <= s.h /\ s.h <= Max(F)
    BY <1>8, <1>9, <2>1, Zenon
  <2>3. Min(F) \in Nat /\ Max(F) \in Nat /\ s.h \in Nat
    BY <1>7, <1>8, <1>9, <2>1, Zenon
  <2> QED
    BY <1>2, <2>2, <2>3
<1> QED
  BY <1>2, <1>11, <1>12, <1>13, Zenon

LEMMA FoundYearsDue ==
  ASSUME NEW S \in SUBSET Block, NEW B, NEW n \in Nat, NEW st, NEW tt, NEW f, NEW x, NEW q, NEW r, q.pc = "years",
         InOrder(S), \A a, b \in S : a.h = b.h => a = b, \A s \in S : s.h <= n,
         r.years = YearsOf(S, q.hLo), r.pc = (IF r.years = {} THEN "deleteAll" ELSE "deleteYear"),
         Due(S, B, n, st, tt, f, x, q)
  PROVE  Due(S, B, n, st, tt, f, x, r)
<1>1. \A y : YearAhead(q, S, y) => YearAhead(r, S, y)
  <2> SUFFICES ASSUME NEW y, YearAhead(q, S, y) PROVE YearAhead(r, S, y)
    OBVIOUS
  <2>1. PICK s \in S : s.h >= q.hLo /\ Year(s.time) = y
    BY DEF YearAhead
  <2>2. \E v \in r.years : v.y = y
    <3> DEFINE H(u) == {w.h : w \in {b \in S : Year(b.time) = u}}
    <3>1. y \in {Year(w.time) : w \in {b \in S : b.h >= q.hLo}}
      BY <2>1, Zenon
    <3>2. [y |-> y, lo |-> Min(H(y)), hi |-> Max(H(y))] \in r.years
      BY <3>1, Zenon DEF YearsOf
    <3> QED
      BY <3>2
  <2>3. r.pc = "deleteYear"
    BY <2>2, Zenon
  <2> QED
    BY <2>2, <2>3, Zenon DEF YearAhead
<1>2. SumDue(tt, q) => SumDue(tt, r)
  BY DEF SumDue
<1>3. TotalsDue(S, tt, f, x, r)
  BY <1>1, Zenon DEF Due, TotalsDue
<1>4. StatsDue(S, B, st, f, x, r)
  <2>1. \A h : ~StatsAhead(q, h)
    BY DEF StatsAhead
  <2> QED
    BY <2>1, Zenon DEF Due, StatsDue
<1>5. YearsFound(S, n, f, x, r)
  <2>1. ASSUME NEW v \in r.years
        PROVE  /\ v.hi <= n /\ \A s \in S : s.h \in v.lo .. v.hi => Year(s.time) = v.y
               /\ \A s \in S : Year(s.time) = v.y => s.h \in v.lo .. v.hi \/ Later(s.h, f, x)
    <3>1. v \in YearsOf(S, q.hLo)
      BY <2>1, Zenon
    <3>2. /\ \E s \in S : v.hi = s.h
          /\ \A s \in S : s.h \in v.lo .. v.hi <=> Year(s.time) = v.y
      BY <3>1, YearBounds, Zenon
    <3> QED
      BY <3>2, Zenon
  <2>2. r.pc \in {"deleteYear", "insertYear"} => r.years # {}
    OBVIOUS
  <2> QED
    BY <2>1, <2>2, Zenon DEF YearsFound
<1> QED
  BY <1>2, <1>3, <1>4, <1>5, Zenon DEF Due

LEMMA DeletedYearDue ==
  ASSUME NEW S \in SUBSET Block, NEW B, NEW n, NEW st, NEW tt \in [Years \cup {0} -> SUBSET Block], NEW f, NEW x,
         NEW q, NEW r, q.pc = "deleteYear", r.pc = "insertYear", r.years = q.years,
         NEW v \in q.years, v.y \in Years, Due(S, B, n, st, tt, f, x, q)
  PROVE  Due(S, B, n, st, [tt EXCEPT ![v.y] = {}], f, x, r)
<1> DEFINE tu == [tt EXCEPT ![v.y] = {}]
<1>0. /\ \A y \in Years : tu[y] = IF y = v.y THEN {} ELSE tt[y]
  OBVIOUS
<1> HIDE DEF tu
<1>1. \A y : (YearAhead(q, S, y) => YearAhead(r, S, y)) /\ (y = v.y => YearAhead(r, S, y))
  BY DEF YearAhead
<1>2. SumDue(tu, r)
  BY DEF SumDue
<1>3. TotalsDue(S, tu, f, x, r)
  <2>1. \A s \in S : Year(s.time) \in Years
    BY YearsArePositive DEF Block
  <2> QED
    BY <1>0, <1>1, <2>1, Zenon DEF Due, TotalsDue
<1>4. StatsDue(S, B, st, f, x, r)
  <2>1. \A h : ~StatsAhead(q, h)
    BY DEF StatsAhead
  <2> QED
    BY <2>1, Zenon DEF Due, StatsDue
<1>5. YearsFound(S, n, f, x, r)
  BY DEF Due, YearsFound
<1>6. NoneElse(S, tu)
  BY <1>0 DEF Due, NoneElse
<1> QED
  BY <1>2, <1>3, <1>4, <1>5, <1>6, Zenon DEF Due, tu

LEMMA InsertedYearDue ==
  ASSUME NEW S \in SUBSET Block, NEW B, NEW n, NEW st, NEW tt, NEW tu, NEW f, NEW x, NEW q, NEW r,
         NEW v \in q.years, v.y \in Years, q.pc = "insertYear", r.years = q.years \ {v},
         r.pc = (IF r.years = {} THEN "deleteAll" ELSE "deleteYear"), Due(S, B, n, st, tt, f, x, q),
         \A y \in Years : y # v.y => tu[y] = tt[y], tu[v.y] = {s \in S : s.h \in v.lo .. v.hi}
  PROVE  Due(S, B, n, st, tu, f, x, r)
<1>0. /\ \A y \in Years : y # v.y => tu[y] = tt[y]
      /\ tu[v.y] = {s \in S : s.h \in v.lo .. v.hi}
  OBVIOUS
<1>1. \A y : y # v.y /\ YearAhead(q, S, y) => YearAhead(r, S, y)
  <2> SUFFICES ASSUME NEW y, y # v.y, YearAhead(q, S, y) PROVE YearAhead(r, S, y)
    OBVIOUS
  <2>1. PICK w \in q.years : w.y = y
    BY DEF YearAhead
  <2>2. w \in r.years
    BY <2>1, Zenon
  <2>3. r.pc = "deleteYear"
    BY <2>2, Zenon
  <2> QED
    BY <2>1, <2>2, <2>3, Zenon DEF YearAhead
<1>2. SumDue(tu, r)
  BY DEF SumDue
<1>3. /\ \A w \in q.years : /\ w.hi <= n
                            /\ \A s \in S : s.h \in w.lo .. w.hi => Year(s.time) = w.y
                            /\ \A s \in S : Year(s.time) = w.y => s.h \in w.lo .. w.hi \/ Later(s.h, f, x)
  <2>1. q.pc \in {"deleteYear", "insertYear"}
    OBVIOUS
  <2> QED
    BY <2>1, Zenon DEF Due, YearsFound
<1>4. TotalsDue(S, tu, f, x, r)
  <2>1. \A s \in S : Year(s.time) \in Years
    BY YearsArePositive DEF Block
  <2>2. ASSUME NEW s \in S, Year(s.time) = v.y PROVE s \in tu[Year(s.time)] \/ Later(s.h, f, x)
    BY <1>0, <1>3, <2>2, Zenon
  <2>3. ASSUME NEW s \in S, Year(s.time) # v.y
        PROVE  s \in tu[Year(s.time)] \/ Later(s.h, f, x) \/ YearAhead(r, S, Year(s.time))
    BY <1>0, <1>1, <2>1, <2>3, Zenon DEF Due, TotalsDue
  <2> QED
    BY <2>2, <2>3, Zenon DEF TotalsDue
<1>5. StatsDue(S, B, st, f, x, r)
  <2>1. \A h : ~StatsAhead(q, h)
    BY DEF StatsAhead
  <2> QED
    BY <2>1, Zenon DEF Due, StatsDue
<1>6. YearsFound(S, n, f, x, r)
  <2>1. r.pc \in {"deleteYear", "insertYear"} => r.years # {}
    OBVIOUS
  <2> QED
    BY <1>3, <2>1, Zenon DEF YearsFound
<1>7. NoneElse(S, tu)
  <2>1. \A s \in tu[v.y] : s \in S /\ Year(s.time) = v.y
    BY <1>0, <1>3, Zenon
  <2> QED
    BY <1>0, <2>1, Zenon DEF Due, NoneElse
<1> QED
  BY <1>2, <1>4, <1>5, <1>6, <1>7, Zenon DEF Due

(* Year 0, the sum of the others. *)
LEMMA SumTableDue ==
  ASSUME NEW S \in SUBSET Block, NEW B, NEW n, NEW st, NEW tt, NEW tu, NEW f, NEW x, NEW q, NEW r,
         q.pc \in {"deleteAll", "insertAll"}, Due(S, B, n, st, tt, f, x, q), \A y \in Years : tu[y] = tt[y],
         r.pc = "insertAll" \/ (r = Idle /\ tu[0] = UNION {tt[y] : y \in Years})
  PROVE  Due(S, B, n, st, tu, f, x, r)
<1>0. \A y \in Years : tu[y] = tt[y]
  OBVIOUS
<1>1. \A y : ~YearAhead(q, S, y)
  BY DEF YearAhead
<1>2. TotalsDue(S, tu, f, x, r)
  <2>1. \A s \in S : Year(s.time) \in Years
    BY YearsArePositive DEF Block
  <2> QED
    BY <1>0, <1>1, <2>1, Zenon DEF Due, TotalsDue
<1>3. StatsDue(S, B, st, f, x, r)
  <2>1. \A h : ~StatsAhead(q, h)
    BY DEF StatsAhead
  <2> QED
    BY <2>1, Zenon DEF Due, StatsDue
<1>4. r.pc \notin {"deleteYear", "insertYear"}
  BY DEF Idle
<1>5. YearsFound(S, n, f, x, r)
  BY <1>4, Zenon DEF YearsFound
<1>6. NoneElse(S, tu)
  BY <1>0, Zenon DEF Due, NoneElse
<1>7. SumDue(tu, r)
  <2>1. CASE r.pc = "insertAll"
    BY <2>1 DEF SumDue
  <2>2. CASE r = Idle /\ tu[0] = UNION {tt[y] : y \in Years}
    <3>1. {tu[y] : y \in Years} = {tt[y] : y \in Years}
      BY <1>0, Zenon
    <3> QED
      BY <1>0, <2>2, <3>1, Zenon DEF SumDue
  <2> QED
    BY <2>1, <2>2
<1> QED
  BY <1>2, <1>3, <1>5, <1>6, <1>7, Zenon DEF Due

LEMMA DeletedSumDue ==
  ASSUME NEW S \in SUBSET Block, NEW B, NEW n, NEW st, NEW tt, NEW tu, NEW f, NEW x, NEW q, NEW r,
         Due(S, B, n, st, tt, f, x, q), q.pc = "deleteAll", r.pc = "insertAll", \A y \in Years : tu[y] = tt[y]
  PROVE  Due(S, B, n, st, tu, f, x, r)
<1>1. q.pc \in {"deleteAll", "insertAll"}
  OBVIOUS
<1> QED
  BY <1>1, SumTableDue

LEMMA InsertedSumDue ==
  ASSUME NEW S \in SUBSET Block, NEW B, NEW n, NEW st, NEW tt, NEW tu, NEW f, NEW x, NEW q,
         Due(S, B, n, st, tt, f, x, q), q.pc = "insertAll", \A y \in Years : tu[y] = tt[y],
         tu[0] = UNION {tt[y] : y \in Years}
  PROVE  Due(S, B, n, st, tu, f, x, Idle)
<1>1. q.pc \in {"deleteAll", "insertAll"}
  OBVIOUS
<1>2. Idle.pc = "insertAll" \/ (Idle = Idle /\ tu[0] = UNION {tt[y] : y \in Years})
  OBVIOUS
<1> QED
  BY <1>1, <1>2, SumTableDue

(* A batch is asked for from its first block on. *)
LEMMA AppliedDue ==
  ASSUME NEW S \in SUBSET Block, NEW T \in SUBSET Block, NEW B, NEW C, NEW n \in Nat, NEW m \in Nat, n <= m, S \subseteq T,
         \A s \in S : s.h <= n, \A s \in T \ S : s.h > n, \A h \in 1 .. n : C[h] = B[h],
         NEW st, NEW tt, NEW f, NEW x, NEW z, NEW q, q \in Pass,
         x.pc # "refresh", z.pc = "refresh", z.h = n + 1, Due(S, B, n, st, tt, f, x, q)
  PROVE  Due(T, C, m, st, tt, f, z, q)
<1>1. \A s \in T : s.h \in Heights /\ s.h \in Int
  BY DEF Block, Heights
<1>2. (\A h : Later(h, f, x) => Later(h, f, z)) /\ \A h \in Heights : h > n => Later(h, f, z)
  BY DEF Later, Heights
<1>3. \A y : YearAhead(q, S, y) => YearAhead(q, T, y)
  BY Zenon DEF YearAhead
<1>4. StatsDue(T, C, st, f, z, q)
  <2>1. ASSUME NEW h \in Heights, h > n PROVE Wanted(S, B, h) = NoBlock
    <3>1. \A s \in S : s.h # h
      BY <1>1, <2>1
    <3> QED
      BY <3>1, Zenon DEF Wanted
  <2>2. ASSUME NEW h \in Heights, ~(h > n) PROVE Wanted(T, C, h) = Wanted(S, B, h)
    <3>1. h \in 1 .. n
      BY <2>2 DEF Heights
    <3>2. \A s \in T : s.h = h => s \in S
      BY <2>2, Zenon
    <3> QED
      BY <3>1, <3>2, Zenon DEF Wanted
  <2> QED
    BY <1>2, <2>1, <2>2, Zenon DEF Due, StatsDue
<1>5. TotalsDue(T, tt, f, z, q)
  BY <1>1, <1>2, <1>3, Zenon DEF Due, TotalsDue
<1>6. NoneElse(T, tt)
  BY Zenon DEF Due, NoneElse
<1>7. YearsFound(T, m, f, z, q)
  <2> SUFFICES ASSUME q.pc \in {"deleteYear", "insertYear"}
               PROVE  /\ q.years # {}
                      /\ \A r \in q.years :
                           /\ r.hi <= m
                           /\ \A s \in T : s.h \in r.lo .. r.hi => Year(s.time) = r.y
                           /\ \A s \in T : Year(s.time) = r.y => s.h \in r.lo .. r.hi \/ Later(s.h, f, z)
    BY Zenon DEF YearsFound
  <2>1. /\ q.years # {}
        /\ \A r \in q.years : /\ r.hi <= n
                              /\ \A s \in S : s.h \in r.lo .. r.hi => Year(s.time) = r.y
                              /\ \A s \in S : Year(s.time) = r.y => s.h \in r.lo .. r.hi \/ Later(s.h, f, x)
    BY Zenon DEF Due, YearsFound
  <2>2. \A r \in q.years : r.hi \in Int /\ r.lo \in Int
    BY DEF Pass, Bounds, Heights
  <2>3. \A r \in q.years : r.hi <= m /\ \A s \in T \ S : s.h \notin r.lo .. r.hi
    BY <1>1, <2>1, <2>2
  <2> QED
    BY <1>1, <1>2, <2>1, <2>3, Zenon
<1> QED
  BY <1>4, <1>5, <1>6, <1>7, Zenon DEF Due, SumDue

-----------------------------------------------------------------------------
(* One pass at a time, and what it leaves due.                             *)

Dues(q) == Due(Superblocks, blocks, Height, stats, totals, fromHeight, ix, q)

(* The pass that runs, if one does. *)
Turn(q) ==
  \/ ~running /\ q = Idle /\ \A c \in Caller : pass[c] = Idle
  \/ /\ running /\ q.pc # "idle"
     /\ \E c \in Caller : pass[c] = q /\ \A d \in Caller \ {c} : pass[d] = Idle

Orderly ==
  /\ InOrder(Superblocks) /\ ix.pc # "deleteRows"
  /\ from = Nowhere => fromHeight = MaxHeight + 1

SuperblocksDue == Orderly /\ \E q \in Pass : Turn(q) /\ Dues(q)

LEMMA SuperblockRows ==
  ASSUME Types
  PROVE  /\ Superblocks \in SUBSET Block /\ Height \in Nat
         /\ \A a, b \in Superblocks : a.h = b.h => a = b
         /\ \A s \in Superblocks : s.h <= Height
<1>1. /\ Height \in 0 .. MaxHeight /\ Superblocks \subseteq Block
      /\ \A r \in Rows : r = blocks[r.h] /\ r.h \in 1 .. Height
  BY RowsAreBlocks, Zenon
<1>2. Superblocks \subseteq Rows
  BY Zenon DEF Superblocks
<1>3. \A r \in Rows : r.h <= Height
  BY <1>1
<1> QED
  BY <1>1, <1>2, <1>3

(* The pass at hand is the one that runs, and it is not interrupted. *)
LEMMA AtWork ==
  ASSUME Types, SuperblocksDue, NEW c \in Caller, pass[c].pc # "idle"
  PROVE  /\ running /\ pass[c] \in Pass /\ Dues(pass[c]) /\ Orderly
         /\ \A d \in Caller \ {c} : pass[d] = Idle
<1>1. PICK q \in Pass : Turn(q) /\ Dues(q)
  BY Zenon DEF SuperblocksDue
<1>2. pass[c] # Idle
  BY DEF Idle
<1>3. PICK e \in Caller : running /\ pass[e] = q /\ \A d \in Caller \ {e} : pass[d] = Idle
  BY <1>1, <1>2, Zenon DEF Turn
<1>4. e = c
  BY <1>2, <1>3, Zenon
<1> QED
  BY <1>1, <1>3, <1>4, Zenon DEF SuperblocksDue

LEMMA StillAtWork ==
  ASSUME Types, SuperblocksDue, NEW c \in Caller, pass[c].pc # "idle", NEW q \in Pass, q.pc # "idle",
         pass' = [pass EXCEPT ![c] = q], UNCHANGED <<base, window, ix>>,
         Due(Superblocks, blocks, Height, stats', totals', fromHeight, ix, q)
  PROVE  SuperblocksDue'
<1>1. running /\ Orderly /\ \A d \in Caller \ {c} : pass[d] = Idle
  BY AtWork, Zenon
<1>2. pass'[c] = q /\ \A d \in Caller \ {c} : pass'[d] = pass[d]
  BY OnePass, Zenon DEF Types
<1>3. UNCHANGED <<Superblocks, Height, blocks, from, fromHeight, running, ix>>
  BY Zenon DEF base, window, Superblocks, Rows, Height, Nowhere
<1>4. Dues(q)'
  BY <1>3, Zenon DEF Dues
<1>5. Orderly'
  BY <1>1, <1>3, Zenon DEF Orderly, Nowhere
<1>6. Turn(q)'
  BY <1>1, <1>2, <1>3, Zenon DEF Turn
<1> QED
  BY <1>4, <1>5, <1>6, Zenon DEF SuperblocksDue

(* The end of a pass that has left nothing: the loop ends or begins again. *)
LEMMA WorkDone ==
  ASSUME Types, SuperblocksDue, NEW c \in Caller, pass[c].pc # "idle", PassDone(c), UNCHANGED <<base, ix>>,
         Due(Superblocks, blocks, Height, stats', totals', fromHeight, ix, Idle)
  PROVE  SuperblocksDue'
<1>0. running /\ Orderly /\ \A d \in Caller \ {c} : pass[d] = Idle
  BY AtWork, Zenon
<1>1. UNCHANGED <<Superblocks, Height, blocks, ix>> /\ PassTypes
  BY Zenon DEF base, Superblocks, Rows, Height, Types
<1>2. InOrder(Superblocks)' /\ ix'.pc # "deleteRows"
  BY <1>0, <1>1, Zenon DEF Orderly
<1>3. CASE from = Nowhere
  <2>1. running' = FALSE /\ pass' = [pass EXCEPT ![c] = Idle] /\ UNCHANGED <<from, fromHeight>>
    BY <1>3, Zenon DEF PassDone
  <2>2. pass'[c] = Idle /\ \A d \in Caller \ {c} : pass'[d] = pass[d]
    BY <1>1, <2>1, OnePass, PassRecords, Zenon
  <2>3. Turn(Idle)'
    BY <1>0, <2>1, <2>2, Zenon DEF Turn
  <2>4. Dues(Idle)'
    BY <1>1, <2>1, Zenon DEF Dues
  <2>5. Orderly'
    BY <1>0, <1>2, <2>1, Zenon DEF Orderly, Nowhere
  <2> QED
    BY <2>3, <2>4, <2>5, PassRecords, Zenon DEF SuperblocksDue
<1>4. CASE from # Nowhere
  <2>0. PICK q : q = Begun(from, fromHeight)
    OBVIOUS
  <2>1. pass' = [pass EXCEPT ![c] = q] /\ from' = Nowhere /\ fromHeight' = MaxHeight + 1 /\ running' = running
    BY <1>4, <2>0, Starting, Zenon DEF PassDone
  <2>2. from \in Times /\ fromHeight \in 0 .. MaxHeight + 1
    BY <1>1, <1>4 DEF PassTypes, Times, Nowhere
  <2>3. q \in Pass
    BY <2>0, <2>2, PassRecords, Zenon
  <2>4. q.pc # "idle"
    BY <2>0 DEF Begun
  <2>5. \A h \in Heights : Later(h, fromHeight, ix) => h >= fromHeight \/ Later(h, MaxHeight + 1, ix)
    BY Zenon DEF Later
  <2>6. Superblocks \in SUBSET Block
    BY SuperblockRows, Zenon
  <2>7. Due(Superblocks, blocks, Height, stats', totals', MaxHeight + 1, ix, q)
    BY <2>0, <2>5, <2>6, BegunDue, Zenon
  <2>8. pass'[c] = q /\ \A d \in Caller \ {c} : pass'[d] = pass[d]
    BY <1>1, <2>1, <2>3, OnePass, Zenon
  <2>9. Turn(q)'
    BY <1>0, <2>1, <2>4, <2>8, Zenon DEF Turn
  <2>10. Dues(q)'
    BY <1>1, <2>1, <2>7, Zenon DEF Dues
  <2>11. Orderly'
    BY <1>2, <2>1, Zenon DEF Orderly, Nowhere
  <2> QED
    BY <2>3, <2>9, <2>10, <2>11, Zenon DEF SuperblocksDue
<1> QED
  BY <1>3, <1>4, Zenon

LEMMA Staged ==
  ASSUME Types, NEW c \in Caller, NEW p \in Stage, Goto(c, p)
  PROVE  /\ UNCHANGED window
         /\ \E q \in Pass : /\ pass' = [pass EXCEPT ![c] = q]
                            /\ q.pc = p /\ q.h = pass[c].h /\ q.hLo = pass[c].hLo /\ q.years = pass[c].years
<1>1. pass \in [Caller -> Pass] /\ pass[c] \in Pass
  BY Zenon DEF Types, PassTypes
<1>2. pass' = [pass EXCEPT ![c].pc = p] /\ UNCHANGED window
  BY Zenon DEF Goto
<1> DEFINE q == [pass[c] EXCEPT !.pc = p]
<1>3. q \in Pass
  BY <1>1, PassUpdates, Zenon
<1>4. pass' = [pass EXCEPT ![c] = q]
  BY <1>1, <1>2
<1>5. q.pc = p /\ q.h = pass[c].h /\ q.hLo = pass[c].hLo /\ q.years = pass[c].years
  BY <1>1 DEF Pass
<1> HIDE DEF q
<1> QED
  BY <1>2, <1>3, <1>4, <1>5, Zenon

LEMMA BucketSteps ==
  ASSUME Types, SuperblocksDue, NEW c \in Caller, Delete(c) \/ Insert(c)
  PROVE  SuperblocksDue'
<1>0. /\ UNCHANGED <<base, stats, totals, ix>> /\ pass[c].pc \in {"delete", "insert"} /\ pass[c] \in Pass
      /\ pass \in [Caller -> Pass]
  BY Zenon DEF Delete, Insert, At, Types, PassTypes
<1>1. pass[c].pc # "idle"
  BY <1>0
<1>2. Dues(pass[c])
  BY <1>1, AtWork, Zenon
<1>3. /\ UNCHANGED window
      /\ \E q \in Pass : /\ pass' = [pass EXCEPT ![c] = q]
                         /\ q.pc \in {"delete", "insert", "find"} /\ q.h = pass[c].h
  <2>1. CASE Delete(c) \/ Goto(c, "find")
    <3>1. PICK p \in {"insert", "find"} : Goto(c, p)
      BY <2>1, Zenon DEF Delete
    <3>2. p \in Stage
      BY DEF Stage
    <3>3. /\ UNCHANGED window
          /\ \E q \in Pass : /\ pass' = [pass EXCEPT ![c] = q]
                             /\ q.pc = p /\ q.h = pass[c].h /\ q.hLo = pass[c].hLo /\ q.years = pass[c].years
      BY <3>1, <3>2, Staged, Zenon
    <3> QED
      BY <3>3, Zenon
  <2>2. CASE Insert(c) /\ ~Goto(c, "find")
    <3> DEFINE i == pass[c].at
    <3>1. i < 2 /\ pass' = [pass EXCEPT ![c].pc = "delete", ![c].at = i + 1] /\ UNCHANGED window
      BY <1>0, <2>2 DEF Insert
    <3>2. i \in 0 .. 2
      BY <1>0 DEF Pass
    <3>3. i + 1 \in 0 .. 2 /\ "delete" \in Stage
      BY <3>1, <3>2 DEF Stage
    <3> DEFINE q == [pass[c] EXCEPT !.pc = "delete", !.at = i + 1]
    <3>4. q \in Pass
      BY <1>0, <3>3, PassUpdates, Zenon
    <3>5. pass' = [pass EXCEPT ![c] = q]
      BY <1>0, <3>1
    <3>6. q.pc = "delete" /\ q.h = pass[c].h
      BY <1>0 DEF Pass
    <3> HIDE DEF q
    <3> QED
      BY <3>1, <3>4, <3>5, <3>6
  <2> QED
    BY <2>1, <2>2, Zenon
<1>4. PICK q \in Pass : /\ pass' = [pass EXCEPT ![c] = q]
                        /\ q.pc \in {"delete", "insert", "find"} /\ q.h = pass[c].h
  BY <1>3, Zenon
<1>5. Due(Superblocks, blocks, Height, stats, totals, fromHeight, ix, q)
  BY <1>0, <1>2, <1>4, BucketsDue DEF Dues
<1>6. q.pc # "idle"
  BY <1>4
<1>7. Due(Superblocks, blocks, Height, stats', totals', fromHeight, ix, q)
  BY <1>0, <1>5, Zenon
<1> QED
  BY <1>0, <1>1, <1>3, <1>4, <1>6, <1>7, StillAtWork, Zenon

LEMMA FindStep ==
  ASSUME Types, SuperblocksDue, NEW c \in Caller, Find(c)
  PROVE  SuperblocksDue'
<1> DEFINE S == Superblocks
           above == {b.h : b \in {s \in S : s.h >= pass[c].h}}
<1>0. /\ UNCHANGED <<base, stats, totals, ix>> /\ pass[c].pc = "find" /\ pass[c] \in Pass
      /\ pass \in [Caller -> Pass]
  BY Zenon DEF Find, At, Types, PassTypes, tables
<1>1. pass[c].pc # "idle"
  BY <1>0
<1>2. Dues(pass[c]) /\ S \in SUBSET Block
  BY <1>1, AtWork, SuperblockRows, Zenon
<1>3. CASE above = {}
  <2>1. PassDone(c)
    BY <1>3, Zenon DEF Find
  <2>2. \A s \in S : ~(s.h >= pass[c].h)
    BY <1>3, Zenon
  <2>3. Due(Superblocks, blocks, Height, stats, totals, fromHeight, ix, Idle)
    BY <1>0, <1>2, <2>2, FoundNoneDue, Zenon DEF Dues
  <2>4. Due(Superblocks, blocks, Height, stats', totals', fromHeight, ix, Idle)
    BY <1>0, <2>3, Zenon
  <2> QED
    BY <1>0, <1>1, <2>1, <2>4, WorkDone, Zenon
<1>4. CASE above # {}
  <2>1. pass' = [pass EXCEPT ![c].pc = "deleteStats", ![c].hLo = Min(above)] /\ UNCHANGED window
    BY <1>4, Zenon DEF Find
  <2>2. \A s \in S : s.h \in Heights
    BY <1>2 DEF Block
  <2>3. above \subseteq Nat /\ above \subseteq Heights
    BY <2>2 DEF Heights
  <2>4. \A s \in S : s.h >= pass[c].h => s.h \in above
    BY Zenon
  <2> HIDE DEF above
  <2>5. Min(above) \in above /\ \A h \in above : Min(above) <= h
    BY <1>4, <2>3, LeastNatural, Zenon
  <2> DEFINE m == Min(above)
  <2>6. m \in Nat /\ m \in 0 .. MaxHeight
    <3>1. m \in Heights
      BY <2>3, <2>5, Zenon
    <3> HIDE DEF m
    <3> QED
      BY <3>1 DEF Heights
  <2>7. \A s \in S : s.h >= pass[c].h => s.h >= m
    <3>1. \A s \in S : s.h >= pass[c].h => m <= s.h
      BY <2>4, <2>5, Zenon
    <3> HIDE DEF m
    <3> QED
      BY <2>2, <2>6, <3>1 DEF Heights
  <2>8. pass' = [pass EXCEPT ![c].pc = "deleteStats", ![c].hLo = m]
    BY <2>1, Zenon
  <2> HIDE DEF m
  <2> DEFINE q == [pass[c] EXCEPT !.pc = "deleteStats", !.hLo = m]
  <2>9. "deleteStats" \in Stage
    BY DEF Stage
  <2>10. q \in Pass
    BY <1>0, <2>6, <2>9, PassUpdates, Zenon
  <2>11. pass' = [pass EXCEPT ![c] = q]
    BY <1>0, <2>8
  <2>12. q.pc = "deleteStats" /\ q.hLo = m /\ q.pc # "idle" /\ pass[c].h \in Int /\ q.hLo \in Int
    BY <1>0, <2>6 DEF Pass
  <2> HIDE DEF q
  <2>13. Due(Superblocks, blocks, Height, stats, totals, fromHeight, ix, q)
    BY <1>0, <1>2, <2>7, <2>12, FoundDue, Zenon DEF Dues
  <2>14. Due(Superblocks, blocks, Height, stats', totals', fromHeight, ix, q)
    BY <1>0, <2>13, Zenon
  <2> QED
    BY <1>0, <1>1, <2>1, <2>10, <2>11, <2>12, <2>14, StillAtWork, Zenon
<1> QED
  BY <1>3, <1>4, Zenon

LEMMA StatsSteps ==
  ASSUME Types, SuperblocksDue, NEW c \in Caller, DeleteStats(c) \/ InsertStats(c)
  PROVE  SuperblocksDue'
<1>0. UNCHANGED <<base, totals, ix>> /\ pass[c].pc \in {"deleteStats", "insertStats"}
  BY Zenon DEF DeleteStats, InsertStats, At
<1>1. pass[c].pc # "idle"
  BY <1>0
<1>2. Dues(pass[c]) /\ Superblocks \in SUBSET Block
  BY <1>1, AtWork, SuperblockRows, Zenon
<1>3. CASE DeleteStats(c)
  <2>1. /\ pass[c].pc = "deleteStats" /\ Goto(c, "insertStats")
        /\ stats' = [h \in Heights |-> IF h >= pass[c].hLo THEN NoBlock ELSE stats[h]]
    BY <1>3, Zenon DEF DeleteStats, At
  <2>2. "insertStats" \in Stage
    BY DEF Stage
  <2>3. UNCHANGED window
    BY <2>1, <2>2, Staged, Zenon
  <2>4. PICK q \in Pass : /\ pass' = [pass EXCEPT ![c] = q] /\ q.pc = "insertStats" /\ q.h = pass[c].h
                            /\ q.hLo = pass[c].hLo /\ q.years = pass[c].years
    BY <2>1, <2>2, Staged
  <2>5. Due(Superblocks, blocks, Height, stats', totals, fromHeight, ix, q)
    <3>1. Due(Superblocks, blocks, Height, [h \in Heights |-> IF h >= pass[c].hLo THEN NoBlock ELSE stats[h]],
              totals, fromHeight, ix, q)
      BY <1>2, <2>1, <2>4, DeletedStatsDue DEF Dues
    <3> QED
      BY <2>1, <3>1, Zenon
  <2>6. Due(Superblocks, blocks, Height, stats', totals', fromHeight, ix, q) /\ q.pc # "idle"
    BY <1>0, <2>4, <2>5
  <2> QED
    BY <1>0, <1>1, <2>3, <2>4, <2>6, StillAtWork, Zenon
<1>4. CASE InsertStats(c)
  <2>1. /\ pass[c].pc = "insertStats" /\ Goto(c, "years")
        /\ \A h \in Heights : h >= pass[c].hLo => stats[h] = NoBlock
        /\ stats' = [h \in Heights |->
                       IF h >= pass[c].hLo /\ \E s \in Superblocks : s.h = h THEN blocks[h] ELSE stats[h]]
    BY <1>4, Zenon DEF InsertStats, At
  <2>2. "years" \in Stage
    BY DEF Stage
  <2>3. UNCHANGED window
    BY <2>1, <2>2, Staged, Zenon
  <2>4. PICK q \in Pass : /\ pass' = [pass EXCEPT ![c] = q] /\ q.pc = "years" /\ q.h = pass[c].h
                            /\ q.hLo = pass[c].hLo /\ q.years = pass[c].years
    BY <2>1, <2>2, Staged
  <2>5. Due(Superblocks, blocks, Height, stats', totals, fromHeight, ix, q)
    <3>1. Due(Superblocks, blocks, Height,
              [h \in Heights |-> IF h >= pass[c].hLo /\ \E s \in Superblocks : s.h = h THEN blocks[h] ELSE stats[h]],
              totals, fromHeight, ix, q)
      BY <1>2, <2>1, <2>4, InsertedStatsDue DEF Dues
    <3> QED
      BY <2>1, <3>1, Zenon
  <2>6. Due(Superblocks, blocks, Height, stats', totals', fromHeight, ix, q) /\ q.pc # "idle"
    BY <1>0, <2>4, <2>5
  <2> QED
    BY <1>0, <1>1, <2>3, <2>4, <2>6, StillAtWork, Zenon
<1> QED
  BY <1>3, <1>4

LEMMA FindYearsStep ==
  ASSUME Types, SuperblocksDue, NEW c \in Caller, FindYears(c)
  PROVE  SuperblocksDue'
<1> DEFINE ys == YearsOf(Superblocks, pass[c].hLo)
           next == IF ys = {} THEN "deleteAll" ELSE "deleteYear"
           q == [pass[c] EXCEPT !.years = ys, !.pc = next]
<1>0. /\ UNCHANGED <<base, stats, totals, window, ix>> /\ pass[c].pc = "years" /\ pass[c] \in Pass
      /\ pass \in [Caller -> Pass]
  BY Zenon DEF FindYears, At, Types, PassTypes, tables
<1>1. pass' = [pass EXCEPT ![c].years = ys, ![c].pc = next]
  BY Zenon DEF FindYears, YearsOf
<1>2. pass[c].pc # "idle"
  BY <1>0
<1>3. Dues(pass[c]) /\ Orderly
  BY <1>2, AtWork, Zenon
<1> HIDE DEF ys
<1>4. next \in Stage /\ next # "idle"
  BY DEF Stage
<1> HIDE DEF next
<1>5. pass' = [pass EXCEPT ![c] = q]
  BY <1>0, <1>1
<1>6. q.pc = next /\ q.years = ys
  BY <1>0 DEF Pass
<1>7. pass'[c] = q
  BY <1>0, <1>5
<1>8. q \in Pass
  <2>1. Types'
    BY FindYearsTypes, Zenon
  <2>2. pass' \in [Caller -> Pass]
    BY <2>1, Zenon DEF Types, PassTypes
  <2> QED
    BY <1>7, <2>2, Zenon
<1> HIDE DEF q
<1>9. Due(Superblocks, blocks, Height, stats, totals, fromHeight, ix, q)
  <2>1. q.pc = (IF q.years = {} THEN "deleteAll" ELSE "deleteYear") /\ q.years = YearsOf(Superblocks, pass[c].hLo)
    BY <1>6, Zenon DEF next, ys
  <2>2. /\ Superblocks \in SUBSET Block /\ Height \in Nat
        /\ \A a, b \in Superblocks : a.h = b.h => a = b
        /\ \A s \in Superblocks : s.h <= Height
    BY SuperblockRows, Zenon
  <2>3. InOrder(Superblocks) /\ Due(Superblocks, blocks, Height, stats, totals, fromHeight, ix, pass[c])
    BY <1>3, Zenon DEF Orderly, Dues
  <2> QED
    BY <1>0, <2>1, <2>2, <2>3, FoundYearsDue
<1>10. Due(Superblocks, blocks, Height, stats', totals', fromHeight, ix, q) /\ q.pc # "idle"
  BY <1>0, <1>4, <1>6, <1>9, Zenon
<1> QED
  BY <1>0, <1>2, <1>5, <1>8, <1>10, StillAtWork, Zenon

LEMMA FirstOfYears ==
  ASSUME Types, NEW c \in Caller, pass[c].years # {}
  PROVE  First(c) \in pass[c].years /\ First(c).y \in Years
<1> DEFINE R == pass[c].years
           Y == {r.y : r \in R}
<1>1. R \in SUBSET Bounds
  <2>1. pass[c] \in Pass
    BY Zenon DEF Types, PassTypes
  <2> QED
    BY <2>1 DEF Pass
<1>2. \A r \in R : r.y \in Years
  BY <1>1 DEF Bounds
<1>3. Y \in SUBSET Nat /\ Y # {}
  <2>1. \A r \in R : r.y \in Nat
    BY <1>2, YearsArePositive, Zenon
  <2>2. PICK r \in R : TRUE
    BY Zenon
  <2>3. r.y \in Y
    BY Zenon
  <2> QED
    BY <2>1, <2>3, Zenon
<1>4. \E y \in Y : \A z \in Y : y <= z
  <2> HIDE DEF Y
  <2> QED
    BY <1>3, LeastElement, Zenon
<1>5. \E r \in R : \A o \in R : r.y <= o.y
  BY <1>4, Zenon
<1> QED
  BY <1>2, <1>5, Zenon DEF First

LEMMA YearSteps ==
  ASSUME Types, SuperblocksDue, NEW c \in Caller, DeleteYear(c) \/ InsertYear(c)
  PROVE  SuperblocksDue'
<1> DEFINE v == First(c)
<1>0. /\ UNCHANGED <<base, stats, ix>> /\ pass[c].pc \in {"deleteYear", "insertYear"} /\ pass[c] \in Pass
      /\ pass \in [Caller -> Pass] /\ totals \in [Years \cup {0} -> SUBSET Block]
  BY Zenon DEF DeleteYear, InsertYear, At, Types, PassTypes, TableTypes
<1>1. pass[c].pc # "idle"
  BY <1>0
<1>2. Dues(pass[c]) /\ Superblocks \in SUBSET Block
  BY <1>1, AtWork, SuperblockRows, Zenon
<1>3. v \in pass[c].years /\ v.y \in Years
  <2>1. pass[c].years # {}
    BY <1>0, <1>2, Zenon DEF Dues, Due, YearsFound
  <2> QED
    BY <2>1, FirstOfYears, Zenon
<1>4. CASE DeleteYear(c)
  <2>1. pass[c].pc = "deleteYear" /\ Goto(c, "insertYear") /\ totals' = [totals EXCEPT ![v.y] = {}]
    BY <1>4, Zenon DEF DeleteYear, At
  <2>2. "insertYear" \in Stage
    BY DEF Stage
  <2>3. UNCHANGED window
    BY <2>1, <2>2, Staged, Zenon
  <2>4. PICK q \in Pass : /\ pass' = [pass EXCEPT ![c] = q] /\ q.pc = "insertYear" /\ q.h = pass[c].h
                          /\ q.hLo = pass[c].hLo /\ q.years = pass[c].years
    BY <2>1, <2>2, Staged
  <2>5. Due(Superblocks, blocks, Height, stats, totals', fromHeight, ix, q)
    <3> HIDE DEF v
    <3>1. Due(Superblocks, blocks, Height, stats, [totals EXCEPT ![v.y] = {}], fromHeight, ix, q)
      BY <1>0, <1>2, <1>3, <2>1, <2>4, DeletedYearDue DEF Dues
    <3> QED
      BY <2>1, <3>1, Zenon
  <2>6. Due(Superblocks, blocks, Height, stats', totals', fromHeight, ix, q) /\ q.pc # "idle"
    BY <1>0, <2>4, <2>5
  <2> QED
    BY <1>0, <1>1, <2>3, <2>4, <2>6, StillAtWork, Zenon
<1>5. CASE InsertYear(c)
  <2> DEFINE rest == pass[c].years \ {v}
             next == IF rest = {} THEN "deleteAll" ELSE "deleteYear"
             q == [pass[c] EXCEPT !.years = rest, !.pc = next]
  <2>1. /\ pass[c].pc = "insertYear" /\ UNCHANGED window
        /\ totals' = [totals EXCEPT ![v.y] = {s \in Superblocks : s.h \in v.lo .. v.hi}]
        /\ pass' = [pass EXCEPT ![c].years = rest, ![c].pc = next]
    BY <1>5, Zenon DEF InsertYear, At
  <2> HIDE DEF v, rest
  <2>2. next \in Stage /\ next # "idle"
    BY DEF Stage
  <2> HIDE DEF next
  <2>3. pass' = [pass EXCEPT ![c] = q]
    BY <1>0, <2>1
  <2>4. q.pc = next /\ q.years = rest
    BY <1>0 DEF Pass
  <2>5. pass'[c] = q
    BY <1>0, <2>3
  <2>6. q \in Pass
    <3>1. Types'
      BY <1>5, YearTypes, Zenon
    <3>2. pass' \in [Caller -> Pass]
      BY <3>1, Zenon DEF Types, PassTypes
    <3> QED
      BY <2>5, <3>2, Zenon
  <2> HIDE DEF q
  <2>7. Due(Superblocks, blocks, Height, stats, totals', fromHeight, ix, q)
    <3>1. q.years = pass[c].years \ {v} /\ q.pc = (IF q.years = {} THEN "deleteAll" ELSE "deleteYear")
      BY <2>4, Zenon DEF rest, next
    <3>2. Due(Superblocks, blocks, Height, stats, totals, fromHeight, ix, pass[c])
      BY <1>2, Zenon DEF Dues
    <3>3. /\ \A y \in Years : y # v.y => totals'[y] = totals[y]
          /\ totals'[v.y] = {s \in Superblocks : s.h \in v.lo .. v.hi}
      BY <1>0, <1>3, <2>1
    <3>4. Superblocks \in SUBSET Block /\ v \in pass[c].years /\ v.y \in Years /\ pass[c].pc = "insertYear"
      BY <1>2, <1>3, <2>1, Zenon
    <3> QED
      BY <3>1, <3>2, <3>3, <3>4, InsertedYearDue, ZenonT(60)
  <2>8. Due(Superblocks, blocks, Height, stats', totals', fromHeight, ix, q) /\ q.pc # "idle"
    BY <1>0, <2>2, <2>4, <2>7, Zenon
  <2> QED
    BY <1>0, <1>1, <2>1, <2>3, <2>6, <2>8, StillAtWork, Zenon
<1> QED
  BY <1>4, <1>5

LEMMA SumSteps ==
  ASSUME Types, SuperblocksDue, NEW c \in Caller, DeleteAll(c) \/ InsertAll(c)
  PROVE  SuperblocksDue'
<1>0. /\ UNCHANGED <<base, stats, ix>> /\ pass[c].pc \in {"deleteAll", "insertAll"}
      /\ totals \in [Years \cup {0} -> SUBSET Block]
  BY Zenon DEF DeleteAll, InsertAll, At, Types, TableTypes
<1>1. pass[c].pc # "idle"
  BY <1>0
<1>2. Dues(pass[c]) /\ Superblocks \in SUBSET Block
  BY <1>1, AtWork, SuperblockRows, Zenon
<1>3. CASE DeleteAll(c)
  <2>1. pass[c].pc = "deleteAll" /\ Goto(c, "insertAll") /\ totals' = [totals EXCEPT ![0] = {}]
    BY <1>3, Zenon DEF DeleteAll, At
  <2>2. "insertAll" \in Stage
    BY DEF Stage
  <2>3. UNCHANGED window
    BY <2>1, <2>2, Staged, Zenon
  <2>4. PICK q \in Pass : /\ pass' = [pass EXCEPT ![c] = q] /\ q.pc = "insertAll" /\ q.h = pass[c].h
                          /\ q.hLo = pass[c].hLo /\ q.years = pass[c].years
    BY <2>1, <2>2, Staged
  <2>5. Due(Superblocks, blocks, Height, stats, totals', fromHeight, ix, q)
    <3>1. Due(Superblocks, blocks, Height, stats, totals, fromHeight, ix, pass[c])
      BY <1>2, Zenon DEF Dues
    <3>2. \A y \in Years : totals'[y] = totals[y]
      BY <1>0, <2>1, YearsArePositive
    <3>3. Superblocks \in SUBSET Block /\ pass[c].pc = "deleteAll" /\ q.pc = "insertAll"
      BY <1>2, <2>1, <2>4, Zenon
    <3> QED
      BY <3>1, <3>2, <3>3, DeletedSumDue, Zenon
  <2>6. Due(Superblocks, blocks, Height, stats', totals', fromHeight, ix, q) /\ q.pc # "idle"
    BY <1>0, <2>1, <2>4, <2>5
  <2> QED
    BY <1>0, <1>1, <2>3, <2>4, <2>6, StillAtWork, Zenon
<1>4. CASE InsertAll(c)
  <2> DEFINE T == UNION {totals[y] : y \in Years}
  <2>1. pass[c].pc = "insertAll" /\ PassDone(c) /\ totals' = [totals EXCEPT ![0] = T]
    BY <1>4, Zenon DEF InsertAll, At
  <2>2. Due(Superblocks, blocks, Height, stats, totals', fromHeight, ix, Idle)
    <3>1. Due(Superblocks, blocks, Height, stats, totals, fromHeight, ix, pass[c])
      BY <1>2, Zenon DEF Dues
    <3>2. \A y \in Years : totals'[y] = totals[y]
      BY <1>0, <2>1, YearsArePositive
    <3>3. totals'[0] = T
      BY <1>0, <2>1
    <3>4. Superblocks \in SUBSET Block /\ pass[c].pc = "insertAll"
      BY <1>2, <2>1, Zenon
    <3> QED
      BY <3>1, <3>2, <3>3, <3>4, InsertedSumDue, Zenon
  <2>3. Due(Superblocks, blocks, Height, stats', totals', fromHeight, ix, Idle)
    BY <1>0, <2>1, <2>2, Zenon
  <2> QED
    BY <1>0, <1>1, <2>1, <2>3, WorkDone, Zenon
<1> QED
  BY <1>3, <1>4

-----------------------------------------------------------------------------
(* The indexer.                                                            *)

LEMMA RequestStep ==
  ASSUME Types, Windows, SuperblocksDue, Refresh
  PROVE  SuperblocksDue'
<1>0. /\ UNCHANGED <<base, stats, totals>> /\ ix.pc = "refresh" /\ PassTypes
  BY Zenon DEF Refresh, tables, Types
<1>1. PICK c \in Caller : Request(c, ix.t, ix.h) /\ ix' \in {Resting, [Resting EXCEPT !.pc = "wait"]}
  BY Zenon DEF Refresh, Caller
<1>2. /\ ix.t \in Times /\ ix.h \in 1 .. MaxHeight /\ ix'.pc \in {"idle", "wait"}
      /\ from \in 0 .. Nowhere /\ fromHeight \in 0 .. MaxHeight + 1
  <2>1. ix.t \in Times /\ ix.h \in 1 .. MaxHeight
    BY <1>0, Zenon DEF Windows
  <2>2. ix'.pc \in {"idle", "wait"}
    BY <1>1 DEF Resting
  <2> QED
    BY <1>0, <2>1, <2>2, Zenon DEF PassTypes
<1>3. PICK q \in Pass : Turn(q) /\ Dues(q)
  BY Zenon DEF SuperblocksDue
<1>4. InOrder(Superblocks) /\ UNCHANGED <<Superblocks, Height, blocks, stats, totals>> /\ Superblocks \in SUBSET Block
  BY <1>0, SuperblockRows, Zenon DEF base, Superblocks, Rows, Height, SuperblocksDue, Orderly
<1> DEFINE m == Earlier(fromHeight, ix.h)
<1>5. \A h \in Heights : Later(h, fromHeight, ix) => h >= m
  BY <1>2 DEF Later, Earlier, Heights
<1>6. Earlier(from, ix.t) \in Times /\ m \in 0 .. MaxHeight + 1 /\ Earlier(from, ix.t) # Nowhere
  BY <1>2 DEF Earlier, Times, Nowhere
<1> HIDE DEF m
<1>7. InOrder(Superblocks)' /\ ix'.pc # "deleteRows"
  BY <1>2, <1>4 DEF InOrder
<1>8. CASE running
  <2>1. from' = Earlier(from, ix.t) /\ fromHeight' = m /\ UNCHANGED <<running, pass>>
    BY <1>1, <1>8, Zenon DEF Request, m
  <2>2. \A h \in Heights : Later(h, fromHeight, ix) => Later(h, fromHeight', ix')
    BY <1>5, <2>1, Zenon DEF Later
  <2>3. Due(Superblocks, blocks, Height, stats, totals, fromHeight', ix', q)
    BY <1>3, <1>4, <2>2, LaterDue, Zenon DEF Dues
  <2>4. Dues(q)'
    BY <1>4, <2>3, Zenon DEF Dues
  <2>5. Turn(q)'
    BY <1>3, <2>1, Zenon DEF Turn
  <2>6. Orderly'
    <3>1. from' # Nowhere
      BY <1>6, <2>1, Zenon
    <3> QED
      BY <1>7, <3>1, Zenon DEF Orderly, Nowhere
  <2> QED
    BY <2>4, <2>5, <2>6, Zenon DEF SuperblocksDue
<1>9. CASE ~running
  <2>1. PICK b : b = Begun(Earlier(from, ix.t), m)
    OBVIOUS
  <2>2. /\ running' = TRUE /\ from' = Nowhere /\ fromHeight' = MaxHeight + 1 /\ pass' = [pass EXCEPT ![c] = b]
    BY <1>1, <1>9, <2>1, Starting, Zenon DEF Request, m
  <2>3. b \in Pass
    BY <1>6, <2>1, PassRecords, Zenon
  <2>4. b.pc # "idle"
    BY <2>1 DEF Begun
  <2>5. q = Idle /\ \A d \in Caller : pass[d] = Idle
    BY <1>3, <1>9, Zenon DEF Turn
  <2>6. pass'[c] = b /\ \A d \in Caller \ {c} : pass'[d] = Idle
    BY <1>0, <2>2, <2>3, <2>5, OnePass, Zenon
  <2>7. Turn(b)'
    BY <2>2, <2>4, <2>6, Zenon DEF Turn
  <2>8. Due(Superblocks, blocks, Height, stats, totals, fromHeight', ix', b)
    <3>1. Due(Superblocks, blocks, Height, stats, totals, fromHeight, ix, Idle)
      BY <1>3, <2>5, Zenon DEF Dues
    <3>2. \A h \in Heights : Later(h, fromHeight, ix) => h >= m \/ Later(h, fromHeight', ix')
      BY <1>5, Zenon
    <3> QED
      BY <1>4, <2>1, <3>1, <3>2, BegunDue, Zenon
  <2>9. Dues(b)'
    BY <1>4, <2>8, Zenon DEF Dues
  <2>10. Orderly'
    BY <1>7, <2>2, Zenon DEF Orderly, Nowhere
  <2> QED
    BY <2>3, <2>7, <2>9, <2>10, Zenon DEF SuperblocksDue
<1> QED
  BY <1>8, <1>9, Zenon

LEMMA ApplyStep ==
  ASSUME Types, SuperblocksDue, Apply
  PROVE  SuperblocksDue'
<1>0. /\ UNCHANGED <<stats, totals, from, fromHeight, running, pass>> /\ ix = Resting
      /\ \A r, s \in {blocks'[i] : i \in DOMAIN blocks'} : r.sb /\ s.sb /\ r.h < s.h => r.time <= s.time
  BY Zenon DEF Apply, tables, window
<1>1. /\ Types' /\ ix'.pc = "refresh" /\ ix'.h = Height + 1 /\ Rows \subseteq Rows' /\ Height <= Height'
      /\ \A i \in 1 .. Height : blocks'[i] = blocks[i]
  BY ApplyRows, Zenon
<1>2. blocks' \in Seq(Block) /\ \A i \in 1 .. Height' : blocks'[i].h = i
  BY <1>1, Zenon DEF Types, BaseTypes
<1>3. Height' = Len(blocks') /\ DOMAIN blocks' = 1 .. Height' /\ Height' \in Nat /\ \A i \in 1 .. Height' : blocks'[i] \in Block
  <2>1. Height' = Len(blocks')
    BY DEF Height
  <2>2. Len(blocks') \in Nat /\ DOMAIN blocks' = 1 .. Len(blocks') /\ \A i \in 1 .. Len(blocks') : blocks'[i] \in Block
    BY <1>2
  <2> QED
    BY <2>1, <2>2, Zenon
<1>4. PICK T : T = Superblocks'
  OBVIOUS
<1>5. T = {b \in {blocks'[i] : i \in 1 .. Height'} : b.sb}
  BY <1>4, Zenon DEF Superblocks, Rows
<1>6. PICK S : S = Superblocks
  OBVIOUS
<1>7. /\ S \in SUBSET Block /\ Height \in Nat /\ \A s \in S : s.h <= Height
  BY <1>6, SuperblockRows, Zenon
<1>8. T \in SUBSET Block
  BY <1>3, <1>5, Zenon
<1>9. S \subseteq T
  BY <1>1, <1>4, <1>6, Zenon DEF Superblocks
<1>10. ASSUME NEW s \in T, s \notin S PROVE s.h > Height
  <2>1. PICK i \in 1 .. Height' : s = blocks'[i] /\ s.sb
    BY <1>5, Zenon
  <2>2. s.h = i
    BY <1>2, <2>1, Zenon
  <2>3. i \notin 1 .. Height
    <3> SUFFICES ASSUME i \in 1 .. Height PROVE FALSE
      OBVIOUS
    <3>1. s \in Rows
      BY <1>1, <2>1, Zenon DEF Rows
    <3> QED
      BY <1>6, <1>10, <2>1, <3>1, Zenon DEF Superblocks
  <2> QED
    BY <1>3, <1>7, <2>2, <2>3
<1>11. InOrder(T)
  <2>1. {blocks'[i] : i \in DOMAIN blocks'} = {blocks'[i] : i \in 1 .. Height'}
    BY <1>3, Zenon
  <2> QED
    BY <1>0, <1>5, <2>1, Zenon DEF InOrder
<1>12. PICK q \in Pass : Turn(q) /\ Due(S, blocks, Height, stats, totals, fromHeight, ix, q)
  BY <1>6, Zenon DEF SuperblocksDue, Dues
<1>13. ix.pc # "refresh"
  BY <1>0 DEF Resting
<1>14. Due(T, blocks', Height', stats, totals, fromHeight, ix', q)
  <2>1. \A s \in T \ S : s.h > Height
    BY <1>10, Zenon
  <2> QED
    BY <1>1, <1>3, <1>7, <1>8, <1>9, <1>12, <1>13, <2>1, AppliedDue, Zenon
<1>15. Dues(q)'
  BY <1>0, <1>4, <1>14, Zenon DEF Dues
<1>16. Turn(q)'
  BY <1>0, <1>12, Zenon DEF Turn
<1>17. Orderly'
  <2>1. ix'.pc # "deleteRows"
    BY <1>1
  <2>2. from = Nowhere => fromHeight = MaxHeight + 1
    BY Zenon DEF SuperblocksDue, Orderly
  <2> QED
    BY <1>0, <1>4, <1>11, <2>1, <2>2, Zenon DEF Orderly, Nowhere
<1> QED
  BY <1>15, <1>16, <1>17, Zenon DEF SuperblocksDue

LEMMA ReturnStep ==
  ASSUME Types, SuperblocksDue, RefreshReturns
  PROVE  SuperblocksDue'
<1>0. UNCHANGED <<base, tables, window, pass>> /\ ix.pc = "wait" /\ ix' = Resting
  BY Zenon DEF RefreshReturns
<1>1. UNCHANGED <<Superblocks, Height, blocks, stats, totals, from, fromHeight, running, pass>>
  BY <1>0, Zenon DEF base, tables, window, Superblocks, Rows, Height
<1>2. PICK q \in Pass : Turn(q) /\ Dues(q)
  BY Zenon DEF SuperblocksDue
<1>3. ix.pc # "refresh" /\ ix'.pc # "deleteRows"
  BY <1>0 DEF Resting
<1>4. \A h \in Heights : Later(h, fromHeight, ix) => Later(h, fromHeight, ix')
  BY <1>3, Zenon DEF Later
<1>5. Due(Superblocks, blocks, Height, stats, totals, fromHeight, ix', q)
  BY <1>2, <1>4, SuperblockRows, LaterDue, Zenon DEF Dues
<1>6. Dues(q)'
  BY <1>1, <1>5, Zenon DEF Dues
<1>7. Turn(q)'
  BY <1>1, <1>2, Zenon DEF Turn
<1>8. Orderly'
  BY <1>1, <1>3, Zenon DEF SuperblocksDue, Orderly, Nowhere
<1> QED
  BY <1>6, <1>7, <1>8, Zenon DEF SuperblocksDue

Untroubled == faults = 0 /\ reorgs = 0

LEMMA DueInit == Init => SuperblocksDue
<1> SUFFICES ASSUME Init PROVE SuperblocksDue
  OBVIOUS
<1>1. Superblocks = {}
  <2>1. Rows = {}
    BY DEF Init, Rows, Height
  <2> QED
    BY <2>1, Zenon DEF Superblocks
<1>2. Orderly
  <2>1. ix.pc # "deleteRows"
    BY DEF Init, Resting
  <2> QED
    BY <1>1, <2>1, Zenon DEF Orderly, InOrder, Init
<1>3. Turn(Idle)
  BY Zenon DEF Init, Turn
<1>4. /\ \A y \in Years \cup {0} : totals[y] = {}
      /\ \A h \in Heights : stats[h] = NoBlock
  BY Zenon DEF Init
<1>5. totals[0] = UNION {totals[y] : y \in Years}
  BY <1>4
<1>6. Dues(Idle)
  <2>1. StatsDue(Superblocks, blocks, stats, fromHeight, ix, Idle)
    BY <1>1, <1>4, Zenon DEF StatsDue, Wanted
  <2>2. TotalsDue(Superblocks, totals, fromHeight, ix, Idle) /\ NoneElse(Superblocks, totals)
    BY <1>1, <1>4, Zenon DEF TotalsDue, NoneElse
  <2> QED
    BY <1>5, <2>1, <2>2, IdleDue, Zenon DEF Dues, Due
<1> QED
  BY <1>2, <1>3, <1>6, PassRecords, Zenon DEF SuperblocksDue

LEMMA DueStep ==
  ASSUME Types, Windows, Untroubled => SuperblocksDue, [Next]_vars
  PROVE  (Untroubled => SuperblocksDue)'
<1> SUFFICES ASSUME Untroubled' PROVE SuperblocksDue'
  BY Zenon
<1>1. CASE UNCHANGED vars
  <2>1. SuperblocksDue
    BY <1>1, Zenon DEF vars, Untroubled
  <2>2. UNCHANGED <<Superblocks, Height, blocks, stats, totals, from, fromHeight, running, pass, ix>>
    BY <1>1, Zenon DEF vars, Superblocks, Rows, Height
  <2> QED
    BY <2>1, <2>2, Zenon DEF SuperblocksDue, Turn, Dues, Orderly, Nowhere
<1>2. CASE Next
  <2>1. ~Crash /\ ~(\E c \in Caller : PassThrows(c))
    BY FaultTypes, Zenon DEF Untroubled
  <2>2. ~RollBack
    <3>1. reorgs \in Nat
      BY DEF Types, BaseTypes
    <3>2. RollBack => reorgs' = reorgs + 1
      BY Zenon DEF RollBack
    <3>3. reorgs' = 0
      BY Zenon DEF Untroubled
    <3> QED
      BY <3>1, <3>2, <3>3
  <2>3. faults = 0 /\ reorgs = 0
    BY <1>2, <2>1, <2>2, Zenon
       DEF Untroubled, Next, IndexerStep, Apply, Refresh, RefreshReturns, DeleteRows, PassStep, base,
           Delete, Insert, Find, DeleteStats, InsertStats, FindYears, DeleteYear, InsertYear, DeleteAll, InsertAll
  <2>4. SuperblocksDue
    BY <2>3, Zenon DEF Untroubled
  <2>5. ~DeleteRows
    BY <2>4, Zenon DEF DeleteRows, SuperblocksDue, Orderly
  <2>6. CASE \E c \in Caller : PassStep(c)
    BY <2>4, <2>6, BucketSteps, FindStep, StatsSteps, FindYearsStep, YearSteps, SumSteps, Zenon DEF PassStep
  <2>7. CASE IndexerStep
    BY <2>2, <2>4, <2>5, <2>7, ApplyStep, RequestStep, ReturnStep, Zenon DEF IndexerStep
  <2> QED
    BY <1>2, <2>1, <2>6, <2>7, Zenon DEF Next
<1> QED
  BY <1>1, <1>2, Zenon

LEMMA NothingDue ==
  ASSUME Types, SuperblocksDue, AtRest
  PROVE  SuperblocksExact
<1>1. /\ Due(Superblocks, blocks, Height, stats, totals, fromHeight, ix, Idle)
      /\ fromHeight = MaxHeight + 1 /\ ix.pc # "refresh"
  <2>1. PICK q \in Pass : Turn(q) /\ Dues(q)
    BY Zenon DEF SuperblocksDue
  <2>2. q = Idle
    BY <2>1, Zenon DEF Turn, AtRest
  <2>3. ix.pc # "refresh"
    BY DEF AtRest, Resting
  <2> QED
    BY <2>1, <2>2, <2>3, Zenon DEF Dues, SuperblocksDue, Orderly, AtRest
<1>2. \A h \in Heights : ~Later(h, fromHeight, ix)
  BY <1>1 DEF Later, Heights
<1>3. Superblocks \in SUBSET Block
  BY SuperblockRows, Zenon
<1>4. \A s \in Superblocks : s.h \in Heights /\ Year(s.time) \in Years
  BY <1>3, YearsArePositive DEF Block
<1>5. \A h \in Heights : stats[h] = IF \E s \in Superblocks : s.h = h THEN blocks[h] ELSE NoBlock
  BY <1>1, <1>2, IdleDue, Zenon DEF Due, StatsDue, Wanted
<1>6. \A s \in Superblocks : s \in totals[Year(s.time)]
  BY <1>1, <1>2, <1>4, IdleDue, Zenon DEF Due, TotalsDue
<1>7. \A y \in Years : \A s \in totals[y] : s \in Superblocks /\ Year(s.time) = y
  BY <1>1, Zenon DEF Due, NoneElse
<1>8. \A y \in Years : totals[y] = {s \in Superblocks : Year(s.time) = y}
  BY <1>6, <1>7
<1>9. totals[0] = Superblocks
  <2>1. totals[0] = UNION {totals[y] : y \in Years}
    BY <1>1, IdleDue, Zenon DEF Due
  <2>2. UNION {totals[y] : y \in Years} \subseteq Superblocks
    BY <1>7, Zenon
  <2>3. \A s \in Superblocks : s \in UNION {totals[y] : y \in Years}
    BY <1>4, <1>6, Zenon
  <2> QED
    BY <2>1, <2>2, <2>3, Zenon
<1> QED
  BY <1>5, <1>8, <1>9, Zenon DEF SuperblocksExact

(* SuperblocksFollow: without a rollback or a fault, the superblock tables *)
(* of a maintainer at rest are those of the superblocks that are stored,   *)
(* however many batches were folded into one pass, and whichever came      *)
(* between its statements.                                                 *)
THEOREM SuperblocksFollowed == Safety => []SuperblocksFollow
<1> DEFINE J == Untroubled => SuperblocksDue
<1>1. Init => J
  BY DueInit, Zenon
<1>2. IInv /\ J /\ [Next]_vars => J'
  BY DueStep, Zenon DEF IInv
<1>3. IInv /\ J => SuperblocksFollow
  BY NothingDue, Zenon DEF IInv, SuperblocksFollow, Untroubled
<1>4. Safety => []IInv
  BY InvariantInit, InvariantStep, PTL DEF Safety
<1> QED
  BY <1>1, <1>2, <1>3, <1>4, PTL DEF Safety
=============================================================================
