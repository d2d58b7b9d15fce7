--------------------------- MODULE Maintenance_proof ---------------------------
(***************************************************************************)
(* For any number of ticks that overlap, of requests, wipes and faults:    *)
(* what is stored keeps its type, and outside a wipe the cursor vouches    *)
(* only for heights that are there, unless a tick of the indexer ran while *)
(* a wipe deleted or the wipe was cut short (hurt).                        *)
(*                                                                         *)
(* Typed says which locals a tick or a wipe still has at each await.       *)
(* Sound, the invariant behind Vouches, says that the rows are those up to *)
(* some height, with nothing missing below, that a wipe which has deleted  *)
(* runs alone, and that what a tick has read of the cursor stays covered.  *)
(***************************************************************************)
EXTENDS Maintenance, TLAPS, WellFoundedInduction

-----------------------------------------------------------------------------
(* Types.  They need what a tick holds at each of its awaits: a job that   *)
(* applies has a block left to apply, and a wipe knows what it wipes; one  *)
(* that rewinds the cursor is a partial one.                               *)

Pcs == {"off", "check", "start", "max", "walk", "rest", "rows", "cursor",
        "mark", "claimed", "locked", "grace"} \cup Phases
Ticks == [pc : Pcs, h : -1 .. Tip, task : Task \cup {None}]

Ready(w) ==
  /\ w.pc \in {"rest", "rows", "cursor"} => w.h < Tip
  /\ w.pc \in {"locked", "grace", "meili", "delete", "deleteRest", "flush"} => w.task \in Wipes
  /\ w.pc = "rewind" => w.task \in Heights

ReadyTicks == {w \in Ticks : Ready(w)}
Working == tick \in [Job \X Slot -> ReadyTicks] /\ running \in [Job -> BOOLEAN] /\ stopping \in BOOLEAN
Typed == TypeOK /\ Working /\ Ready(cli)

\* The tables and what is in Redis; the wipe by hand; the counters.
Stored ==
  /\ rows \subseteq Heights /\ rest \subseteq Heights
  /\ cursor \in [height : -1 .. Tip, status : {"live", "backfilling"}]
  /\ lock \in 0 .. LockTTL /\ request \in Task \cup {None}
  /\ status \in {Unset, "running", "done", "error"}
Counted ==
  /\ asking \in Task \cup {None} /\ hurt \in BOOLEAN
  /\ events \in 0 .. MaxEvents /\ faults \in 0 .. MaxFaults
ByHand == cli \in [pc : {"off", "grace"} \cup Phases, h : {-1}, task : Wipes \cup {None}] /\ Ready(cli)

LEMMA TypedParts ==
  /\ Typed <=> Stored /\ Counted /\ ByHand /\ Working
  /\ Typed' <=> Stored' /\ Counted' /\ ByHand' /\ Working'
<1>1. Typed <=> Stored /\ Counted /\ ByHand /\ Working
  BY DEF Typed, TypeOK, Stored, Counted, ByHand, Working, ReadyTicks, Ticks, Pcs
<1>2. Typed' <=> Stored' /\ Counted' /\ ByHand' /\ Working'
  BY DEF Typed, TypeOK, Stored, Counted, ByHand, Working, ReadyTicks, Ticks, Pcs
<1> QED
  BY <1>1, <1>2

LEMMA UntouchedKeeps ==
  /\ Stored /\ UNCHANGED <<tables, redis>> => Stored'
  /\ Counted /\ UNCHANGED <<asking, hurt, counters>> => Counted'
  /\ ByHand /\ UNCHANGED cli => ByHand'
  /\ Working /\ UNCHANGED process => Working'
  BY DEF Stored, Counted, ByHand, Working, Ready, tables, redis, counters, process

(* One tick is replaced by one that is ready for what it does next. *)
LEMMA WorkingSet ==
  ASSUME Working, NEW j \in Job, NEW s \in Slot, NEW w \in ReadyTicks,
         tick' = [tick EXCEPT ![<<j, s>>] = w],
         running' \in [Job -> BOOLEAN], stopping' \in BOOLEAN
  PROVE  Working'
  BY DEF Working, ReadyTicks, Ready

LEMMA WorkingPc ==
  ASSUME Working, NEW j \in Job, NEW s \in Slot, NEW pc \in Pcs,
         LET w == tick[<<j, s>>] IN
           /\ pc \in {"rest", "rows", "cursor"} => w.h < Tip
           /\ pc \in {"locked", "grace", "meili", "delete", "deleteRest", "flush"} => w.task \in Wipes
           /\ pc = "rewind" => w.task \in Heights,
         tick' = [tick EXCEPT ![<<j, s>>].pc = pc],
         running' \in [Job -> BOOLEAN], stopping' \in BOOLEAN
  PROVE  Working'
<1> DEFINE w == tick[<<j, s>>]  v == [pc |-> pc, h |-> w.h, task |-> w.task]
<1>1. w \in Ticks
  BY DEF Working, ReadyTicks
<1>2. v \in ReadyTicks /\ v = [w EXCEPT !.pc = pc]
  BY <1>1 DEF ReadyTicks, Ready, Ticks
<1>3. tick' = [tick EXCEPT ![<<j, s>>] = v]
  BY <1>2
<1> HIDE DEF v
<1> QED
  BY <1>2, <1>3, WorkingSet

LEMMA OffReady == Off \in ReadyTicks
  BY MaintenanceAssumption DEF Off, ReadyTicks, Ready, Ticks, Pcs

LEMMA WorkingEnd ==
  ASSUME Working, NEW j \in Job, NEW s \in Slot, End(j, s)
  PROVE  Working'
  BY OffReady, WorkingSet DEF End, Working

LEMMA WorkingMove ==
  ASSUME Working, NEW j \in Job, NEW s \in Slot, NEW h \in -1 .. Tip,
         NEW pc \in {"max", "walk", "rest"}, pc = "rest" => h < Tip, Move(j, s, pc, h)
  PROVE  Working'
<1> DEFINE v == [pc |-> pc, h |-> h, task |-> tick[<<j, s>>].task]
<1>1. v \in ReadyTicks
  BY DEF Working, ReadyTicks, Ready, Ticks, Pcs
<1>2. tick' = [tick EXCEPT ![<<j, s>>] = v]
  BY DEF Move
<1> HIDE DEF v
<1> QED
  BY <1>1, <1>2, WorkingSet DEF Move, Working

(* A set of naturals with an element has a least one. *)
LEMMA LeastElement ==
  ASSUME NEW S \in SUBSET Nat, S # {}
  PROVE  \E x \in S : \A y \in S : x <= y
<1>1. PICK x \in S : \A y \in S : ~(<<y, x>> \in OpToRel(<, Nat))
  BY NatLessThanWellFounded, WFMin, Zenon
<1>2. \A y \in S : ~(y < x)
  BY <1>1, Zenon DEF OpToRel
<1> QED
  BY <1>2

(* Max is an element and an upper bound of a bounded set that has one. *)
LEMMA GreatestElement ==
  ASSUME NEW n \in Int, NEW m \in Int, NEW S \in SUBSET (m .. n), S # {}
  PROVE  Max(S) \in S /\ \A y \in S : y <= Max(S)
<1> DEFINE T == {k \in Nat : n - k \in S}
<1>1. T # {} /\ T \in SUBSET Nat
  <2>1. PICK s \in S : TRUE
    OBVIOUS
  <2>2. n - (n - s) \in S /\ n - s \in Nat
    OBVIOUS
  <2> QED
    BY <2>2
<1>2. PICK k \in T : \A j \in T : k <= j
  <2> HIDE DEF T
  <2> QED
    BY <1>1, LeastElement
<1>3. \A y \in S : n - k >= y
  <2> TAKE y \in S
  <2>1. n - (n - y) = y /\ n - y \in Nat
    OBVIOUS
  <2>2. n - y \in T
    BY <2>1
  <2> QED
    BY <2>2, <1>2
<1>4. n - k \in S
  BY <1>2
<1> QED
  BY <1>3, <1>4 DEF Max

(* The highest row, or the height below genesis. *)
LEMMA TopRow == ASSUME Stored PROVE Max(rows \cup {-1}) \in -1 .. Tip
<1> DEFINE S == rows \cup {-1}
<1>1. S \in SUBSET (-1 .. Tip) /\ S # {} /\ -1 \in Int /\ Tip \in Int
  BY MaintenanceAssumption DEF Stored, Heights
<1> HIDE DEF S
<1>2. Max(S) \in S
  BY <1>1, GreatestElement
<1> QED
  BY <1>1, <1>2 DEF S

-----------------------------------------------------------------------------
LEMMA InitTyped == Init => Typed
<1> SUFFICES ASSUME Init PROVE Typed
  OBVIOUS
<1>1. Stored
  <2>1. cursor \in [height : -1 .. Tip, status : {"live", "backfilling"}]
    BY MaintenanceAssumption DEF Init, NoCursor
  <2>2. rows \subseteq Heights /\ rest \subseteq Heights /\ lock \in 0 .. LockTTL
    BY MaintenanceAssumption DEF Init
  <2> QED
    BY <2>1, <2>2 DEF Init, Stored
<1>2. Counted
  <2>1. hurt \in BOOLEAN /\ asking \in Task \cup {None}
    BY Zenon DEF Init
  <2>2. events \in 0 .. MaxEvents /\ faults \in 0 .. MaxFaults
    BY MaintenanceAssumption DEF Init
  <2> QED
    BY <2>1, <2>2 DEF Counted
<1>3. ByHand
  <2>1. cli = [pc |-> "off", h |-> -1, task |-> None]
    BY DEF Init, Off
  <2>2. Ready(cli)
    BY <2>1 DEF Ready
  <2> QED
    BY <2>1, <2>2 DEF ByHand
<1>4. Working
  BY OffReady DEF Init, Working
<1> QED
  BY <1>1, <1>2, <1>3, <1>4, TypedParts

LEMMA FireTyped ==
  ASSUME Typed, NEW j \in Job, NEW s \in Slot, Fire(j, s) \/ Check(j, s) \/ CheckFails(j, s)
  PROVE  Typed'
<1>1. Stored /\ Counted /\ ByHand /\ Working
  BY TypedParts
<1>2. Working'
  <2>1. \E pc \in {"off", "check", "start"} : tick' = [tick EXCEPT ![<<j, s>>].pc = pc]
    BY DEF Fire, Check, CheckFails, Goto
  <2>2. running' \in [Job -> BOOLEAN] /\ stopping' \in BOOLEAN
    BY <1>1 DEF Fire, Check, CheckFails, Goto, Working
  <2> QED
    BY <1>1, <2>1, <2>2, WorkingPc DEF Pcs
<1>3. Stored' /\ ByHand'
  BY <1>1, UntouchedKeeps DEF Fire, Check, CheckFails
<1>4. Counted'
  <2>1. hurt' \in BOOLEAN /\ asking' = asking
    BY <1>1 DEF Fire, Check, CheckFails, LetIn, Counted, counters
  <2>2. events' \in 0 .. MaxEvents /\ faults' \in 0 .. MaxFaults
    BY <1>1, MaintenanceAssumption DEF Fire, Check, CheckFails, Counted, counters
  <2> QED
    BY <1>1, <2>1, <2>2 DEF Counted
<1> QED
  BY <1>2, <1>3, <1>4, TypedParts

(* The two indexing jobs. *)
LEMMA IndexerTyped ==
  ASSUME Typed, NEW s \in Slot,
         FillStep(s) \/ TipStart(s) \/ \E j \in Indexers : ApplyStep(j, s)
  PROVE  Typed'
<1> {"fill", "tip"} \subseteq Job /\ Indexers = {"fill", "tip"}
  BY DEF Job, Indexers
<1> USE MaintenanceAssumption
<1>1. Stored /\ Counted /\ ByHand /\ Working
  BY TypedParts
<1>2. \A j \in Job : tick[<<j, s>>] \in Ticks /\ Ready(tick[<<j, s>>]) /\ Here(j, s) \in -1 .. Tip
  BY <1>1 DEF Working, ReadyTicks, Ticks, Here
<1>3. ASSUME UNCHANGED <<asking, cli, counters>>, hurt' \in BOOLEAN, Stored', Working'
      PROVE  Typed'
  <2>1. Counted' /\ ByHand'
    BY <1>1, <1>3, UntouchedKeeps DEF Counted, counters
  <2> QED
    BY <1>3, <2>1, TypedParts
<1>4. hurt \in BOOLEAN
  BY <1>1 DEF Counted
<1>5. ASSUME UNCHANGED redis, rows' \subseteq Heights, rest' \subseteq Heights PROVE Stored'
  BY <1>1, <1>5 DEF Stored, redis
<1>6. ASSUME NEW h \in -1 .. Tip, SetHeight(h), UNCHANGED tables PROVE Stored'
  BY <1>1, <1>6 DEF Stored, SetHeight, tables
<1>7. ASSUME NEW st \in {"live", "backfilling"}, SetStatus(st), UNCHANGED tables PROVE Stored'
  BY <1>1, <1>7 DEF Stored, SetStatus, Larger, tables
<1>8. ASSUME UNCHANGED <<tables, redis>> PROVE Stored'
  BY <1>1, <1>8, UntouchedKeeps
<1>9. ASSUME NEW j \in Job, End(j, s) PROVE Working'
  BY <1>1, <1>9, WorkingEnd
<1>10. ASSUME NEW j \in Job, NEW pc \in {"walk", "mark"}, Goto(j, s, pc) PROVE Working'
  BY <1>1, <1>10, WorkingPc DEF Goto, Working, Pcs
<1>11. ASSUME NEW j \in Job, NEW pc \in {"rest", "rows", "cursor"}, Here(j, s) < Tip, Goto(j, s, pc)
       PROVE  Working'
  <2>1. pc \in Pcs
    BY DEF Pcs
  <2>2. running' \in [Job -> BOOLEAN] /\ stopping' \in BOOLEAN
    BY <1>1, <1>11 DEF Goto, Working
  <2> QED
    BY <1>1, <1>11, <2>1, <2>2, WorkingPc DEF Goto, Here
<1>12. CASE FillStart(s)
  <2>1. cursor.height \in -1 .. Tip
    BY <1>1 DEF Stored
  <2>2. Working'
    BY <1>1, <1>9, <1>12, <2>1, WorkingMove DEF FillStart
  <2> QED
    BY <1>3, <1>4, <1>8, <1>12, <2>2 DEF FillStart, idle
<1>13. CASE FillMax(s)
  <2> DEFINE top == Max(rows \cup {-1})
  <2>1. top \in -1 .. Tip
    BY <1>1, TopRow
  <2> HIDE DEF top
  <2>2. Working' /\ Stored'
    <3>1. CASE SetHeight(top) /\ Move("fill", s, "walk", top)
      BY <1>1, <1>6, <1>13, <2>1, <3>1, WorkingMove DEF FillMax
    <3>2. CASE Goto("fill", s, "walk") /\ UNCHANGED redis
      BY <1>8, <1>10, <1>13, <3>2 DEF FillMax
    <3> QED
      BY <1>13, <3>1, <3>2 DEF FillMax, top
  <2> QED
    BY <1>3, <1>4, <1>13, <2>2 DEF FillMax
<1>14. CASE FillWalk(s)
  <2>1. \/ Goto("fill", s, "mark")
        \/ ~(Here("fill", s) >= Tip - Safe) /\ Goto("fill", s, "rest")
    BY <1>14 DEF FillWalk
  <2>2. Working'
    <3>1. CASE Goto("fill", s, "mark")
      BY <1>10, <3>1
    <3>2. CASE Here("fill", s) < Tip /\ Goto("fill", s, "rest")
      BY <1>11, <3>2
    <3> QED
      <4>1. Here("fill", s) \in -1 .. Tip
        BY <1>2
      <4> QED
        BY <2>1, <3>1, <3>2, <4>1
  <2> QED
    BY <1>3, <1>4, <1>8, <1>14, <2>2 DEF FillWalk, idle
<1>15. CASE FillMark(s)
  BY <1>3, <1>4, <1>7, <1>9, <1>15 DEF FillMark
<1>16. CASE TipStart(s)
  <2> DEFINE lag == Tip - cursor.height
  <2>1. cursor.height \in -1 .. Tip
    BY <1>1 DEF Stored
  <2>2. CASE End("tip", s) /\ (UNCHANGED redis \/ SetStatus("backfilling"))
    BY <1>3, <1>4, <1>7, <1>8, <1>9, <1>16, <2>2 DEF TipStart
  <2>3. CASE lag \in 1 .. LagThreshold /\ Move("tip", s, "rest", cursor.height) /\ UNCHANGED redis
    <3>1. cursor.height < Tip
      BY <2>1, <2>3
    <3>2. Working'
      BY <1>1, <2>1, <2>3, <3>1, WorkingMove
    <3> QED
      BY <1>3, <1>4, <1>8, <1>16, <2>3, <3>2 DEF TipStart
  <2> QED
    BY <1>16, <2>2, <2>3 DEF TipStart
<1>17. ASSUME NEW j \in Indexers, ApplyStep(j, s) PROVE Typed'
  <2>1. Here(j, s) < Tip /\ Here(j, s) + 1 \in Heights
    BY <1>2, <1>17 DEF ApplyStep, WriteRest, WriteRows, Advance, At, Ready, Here, Heights
  <2>2. CASE WriteRest(j, s) \/ WriteRows(j, s)
    <3>1. Working'
      BY <1>11, <2>1, <2>2 DEF WriteRest, WriteRows
    <3>2. Stored'
      <4>1. rows \subseteq Heights /\ rest \subseteq Heights
        BY <1>1 DEF Stored
      <4> QED
        BY <1>5, <2>1, <2>2, <4>1 DEF WriteRest, WriteRows, idle
    <3> QED
      BY <1>3, <1>4, <2>2, <3>1, <3>2 DEF WriteRest, WriteRows, idle
  <2>3. CASE Advance(j, s)
    <3> DEFINE h == Here(j, s) + 1
    <3>1. h \in -1 .. Tip
      BY <2>1 DEF Heights
    <3> HIDE DEF h
    <3>2. Working'
      BY <1>1, <1>9, <2>3, <3>1, WorkingMove DEF Advance, h
    <3>3. Stored'
      BY <1>6, <2>3, <3>1 DEF Advance, h
    <3> QED
      BY <1>3, <1>4, <2>3, <3>2, <3>3 DEF Advance
  <2> QED
    BY <1>17, <2>2, <2>3 DEF ApplyStep
<1> QED
  BY <1>12, <1>13, <1>14, <1>15, <1>16, <1>17 DEF FillStep
(* The watcher of the admin bus, and the phases of a wipe. *)
LEMMA PhaseTyped ==
  ASSUME Stored, NEW w, Ready(w), w.task \in Task \cup {None}, NEW after \in Phases, Phase(w, after)
  PROVE  /\ Stored'
         /\ after \notin {"rest", "rows", "cursor", "locked", "grace"}
         /\ after \in {"meili", "delete", "deleteRest", "flush"} => w.task \in Wipes
         /\ after = "rewind" => w.task \in Heights
<1> USE MaintenanceAssumption
<1>1. w.task \in Wipes /\ w.task # Full => w.task \in Heights
  BY DEF Wipes
<1>2. after \notin {"rest", "rows", "cursor", "locked", "grace"}
  BY DEF Phases
<1>3. CASE DeleteBlocks(w, after)
  BY <1>2, <1>3 DEF DeleteBlocks, Ready, Stored, redis
<1>4. CASE DeleteOthers(w, after)
  BY <1>1, <1>2, <1>4 DEF DeleteOthers, Ready, Stored, redis
<1>5. CASE Rewind(w, after)
  <2>1. w.task - 1 \in -1 .. Tip
    BY <1>5 DEF Rewind, Ready, Heights
  <2>2. cursor' \in [height : -1 .. Tip, status : {"live", "backfilling"}]
    BY <1>5, <2>1 DEF Rewind
  <2> QED
    BY <1>2, <1>5, <2>2 DEF Rewind, Stored, tables
<1>6. CASE Flush(w, after)
  <2>1. cursor' \in [height : -1 .. Tip, status : {"live", "backfilling"}] /\ lock' \in 0 .. LockTTL
    BY <1>6 DEF Flush, NoCursor
  <2>2. Stored'
    BY <1>6, <2>1 DEF Flush, Stored, tables
  <2> QED
    BY <1>2, <1>6, <2>2 DEF Flush, Ready
<1>7. CASE Prune(w, after)
  BY <1>1, <1>2, <1>7 DEF Prune, Ready, Stored, tables, redis
<1> QED
  BY <1>3, <1>4, <1>5, <1>6, <1>7 DEF Phase

LEMMA PhaseHurts ==
  ASSUME Counted, NEW w, NEW after, Phase(w, after), UNCHANGED <<asking, counters>>
  PROVE  Counted'
<1>1. hurt' \in BOOLEAN
  BY DEF Counted, Phase, DeleteBlocks, DeleteOthers, Rewind, Flush, Prune
<1> QED
  BY <1>1 DEF Counted, counters

LEMMA FirstTyped ==
  ASSUME NEW w, Ready(w), w.pc = "grace"
  PROVE  First(w) \in {"delete", "meili"} /\ w.task \in Wipes
  BY DEF First, Ready

LEMMA AdminTyped ==
  ASSUME Typed, NEW s \in Slot, AdminStep(s)
  PROVE  Typed'
<1> USE MaintenanceAssumption
<1> "admin" \in Job
  BY DEF Job
<1> DEFINE w == Wiper(s)
<1>1. Stored /\ Counted /\ ByHand /\ Working
  BY TypedParts
<1>2. w \in Ticks /\ Ready(w) /\ w = tick[<<"admin", s>>]
  BY <1>1 DEF Working, ReadyTicks, Wiper
<1>3. w.task \in Task \cup {None} /\ (w.task \in Wipes \/ w.task \notin Wipes)
  BY <1>2 DEF Ticks
<1> HIDE DEF w
<1>4. ASSUME UNCHANGED <<asking, cli, hurt, counters>>, Stored', Working' PROVE Typed'
  BY <1>1, <1>4, UntouchedKeeps, TypedParts
<1>5. ASSUME End("admin", s) PROVE Working'
  BY <1>1, <1>5, WorkingEnd
<1>6. ASSUME NEW pc \in {"locked", "grace", "finish", "clear"}, Goto("admin", s, pc),
             pc \in {"locked", "grace"} => w.task \in Wipes
      PROVE  Working'
  <2>1. pc \in Pcs
    BY DEF Pcs, Phases
  <2>2. running' \in [Job -> BOOLEAN] /\ stopping' \in BOOLEAN
    BY <1>1, <1>6 DEF Goto, Working
  <2> QED
    BY <1>1, <1>2, <1>6, <2>1, <2>2, WorkingPc DEF Goto
<1>7. ASSUME UNCHANGED <<tables, cursor, request>>, lock' \in 0 .. LockTTL,
             status' \in {Unset, "running", "done", "error"}
      PROVE  Stored'
  BY <1>1, <1>7 DEF Stored, tables
<1>8. lock \in 0 .. LockTTL /\ status \in {Unset, "running", "done", "error"} /\ LockTTL \in 0 .. LockTTL
  BY <1>1 DEF Stored
<1>9. CASE Claim(s)
  <2>1. CASE End("admin", s) /\ UNCHANGED redis
    BY <1>1, <1>4, <1>5, <1>9, <2>1, UntouchedKeeps DEF Claim
  <2>2. CASE /\ request # None /\ request' = None /\ UNCHANGED <<cursor, lock, status>>
             /\ tick' = [tick EXCEPT ![<<"admin", s>>] = [pc |-> "claimed", h |-> @.h, task |-> request]]
             /\ UNCHANGED <<running, stopping>>
    <3> DEFINE v == [pc |-> "claimed", h |-> w.h, task |-> request]
    <3>1. v \in ReadyTicks
      BY <1>1, <1>2 DEF Stored, ReadyTicks, Ready, Ticks, Pcs
    <3>2. tick' = [tick EXCEPT ![<<"admin", s>>] = v]
      BY <1>2, <2>2
    <3> HIDE DEF v
    <3>3. Working'
      BY <1>1, <2>2, <3>1, <3>2, WorkingSet DEF Working
    <3>4. Stored'
      BY <1>1, <1>9, <2>2 DEF Claim, Stored, tables
    <3> QED
      BY <1>4, <1>9, <3>3, <3>4 DEF Claim
  <2> QED
    BY <1>9, <2>1, <2>2 DEF Claim
<1>10. CASE SetRunning(s)
  <2>1. Stored'
    BY <1>7, <1>8, <1>10 DEF SetRunning
  <2>2. Working'
    BY <1>2, <1>6, <1>10 DEF SetRunning
  <2> QED
    BY <1>4, <1>10, <2>1, <2>2 DEF SetRunning
<1>11. CASE Lock(s)
  <2>1. Stored'
    BY <1>7, <1>8, <1>11 DEF Lock, SetWipeLock
  <2>2. w.task \in Wipes
    BY <1>2, <1>11 DEF Lock, At, Ready
  <2>3. Working'
    BY <1>6, <1>11, <2>2 DEF Lock
  <2> QED
    BY <1>4, <1>11, <2>1, <2>3 DEF Lock
<1>12. CASE AdminWipe(s)
  <2>1. Stored' /\ \E after \in Phases :
          /\ Goto("admin", s, after)
          /\ after \notin {"rest", "rows", "cursor", "locked", "grace"}
          /\ after \in {"meili", "delete", "deleteRest", "flush"} => w.task \in Wipes
          /\ after = "rewind" => w.task \in Heights
    <3>1. CASE GraceOver(w) /\ Goto("admin", s, First(w)) /\ UNCHANGED <<tables, redis, hurt>>
      <4>1. First(w) \in {"delete", "meili"} /\ w.task \in Wipes
        BY <1>2, <3>1, FirstTyped DEF GraceOver
      <4>2. First(w) \in Phases /\ Stored'
        BY <1>1, <3>1, <4>1, UntouchedKeeps DEF Phases
      <4> QED
        BY <3>1, <4>1, <4>2
    <3>2. CASE \E after \in Phases : Phase(w, after) /\ Goto("admin", s, after)
      BY <1>1, <1>2, <1>3, <3>2, PhaseTyped
    <3> QED
      BY <1>12, <3>1, <3>2 DEF AdminWipe, w
  <2>2. Working'
    <3>1. PICK after \in Phases :
          /\ Goto("admin", s, after)
          /\ after \notin {"rest", "rows", "cursor", "locked", "grace"}
          /\ after \in {"meili", "delete", "deleteRest", "flush"} => w.task \in Wipes
          /\ after = "rewind" => w.task \in Heights
      BY <2>1
    <3>2. running' \in [Job -> BOOLEAN] /\ stopping' \in BOOLEAN /\ after \in Pcs
      BY <1>1, <3>1 DEF Goto, Working, Pcs
    <3> QED
      BY <1>1, <1>2, <3>1, <3>2, WorkingPc DEF Goto
  <2>3. Counted' /\ ByHand'
    <3>1. ByHand'
      BY <1>1, <1>12, UntouchedKeeps DEF AdminWipe
    <3>2. Counted'
      <4>1. UNCHANGED <<asking, counters>>
        BY <1>12 DEF AdminWipe
      <4> QED
        BY <1>1, <1>12, <4>1, PhaseHurts, UntouchedKeeps DEF AdminWipe
    <3> QED
      BY <3>1, <3>2
  <2> QED
    BY <2>1, <2>2, <2>3, TypedParts
<1>13. CASE Finish(s)
  <2>1. Stored'
    BY <1>7, <1>8, <1>13 DEF Finish
  <2>2. Working'
    BY <1>5, <1>6, <1>13 DEF Finish
  <2> QED
    BY <1>4, <1>13, <2>1, <2>2 DEF Finish
<1>14. CASE TaskFails(s)
  <2>1. Stored'
    BY <1>7, <1>8, <1>14 DEF TaskFails
  <2>2. Working'
    BY <1>5, <1>6, <1>14 DEF TaskFails
  <2>3. faults' \in 0 .. MaxFaults /\ hurt' \in BOOLEAN
    BY <1>1, <1>14 DEF TaskFails, Counted, Destroying
  <2>4. Counted' /\ ByHand'
    BY <1>1, <1>14, <2>3, UntouchedKeeps DEF TaskFails, Counted
  <2> QED
    BY <2>1, <2>2, <2>4, TypedParts
<1>15. CASE Clear(s)
  <2>1. Stored'
    BY <1>7, <1>8, <1>15 DEF Clear
  <2> QED
    BY <1>4, <1>5, <1>15, <2>1 DEF Clear
<1> QED
  BY <1>9, <1>10, <1>11, <1>12, <1>13, <1>14, <1>15 DEF AdminStep

(* The requests, the wipe by hand, and the life of the process. *)
LEMMA OthersTyped ==
  ASSUME Typed,
         \/ \E t \in Task : Ask(t)
         \/ \E t \in Wipes : CliStart(t)
         \/ Enqueue \/ CliWipe \/ Heartbeat \/ CliDies \/ Crash \/ Shutdown \/ Exit \/ Tick
         \/ UNCHANGED vars
  PROVE  Typed'
<1> USE MaintenanceAssumption
<1>1. Stored /\ Counted /\ ByHand /\ Working
  BY TypedParts
<1>2. UNCHANGED <<tables, redis>> => Stored'
  BY <1>1, UntouchedKeeps
<1>3. UNCHANGED <<asking, hurt, counters>> => Counted'
  BY <1>1, UntouchedKeeps
<1>4. (UNCHANGED cli => ByHand') /\ (UNCHANGED process => Working')
  BY <1>1, UntouchedKeeps
<1>5. ASSUME UNCHANGED <<tables, cursor, request, status>>, lock' \in 0 .. LockTTL PROVE Stored'
  BY <1>1, <1>5 DEF Stored, tables
<1>6. lock \in 0 .. LockTTL /\ LockTTL \in 0 .. LockTTL /\ 0 \in 0 .. LockTTL
  BY <1>1 DEF Stored
<1>7. ASSUME cli' = Off PROVE ByHand'
  <2>1. cli' = [pc |-> "off", h |-> -1, task |-> None]
    BY <1>7 DEF Off
  <2>2. Ready(cli)'
    BY <2>1 DEF Ready
  <2> QED
    BY <2>1, <2>2 DEF ByHand
<1>8. ASSUME NEW pc \in Phases \cup {"grace"}, NEW t \in Wipes, cli' = [pc |-> pc, h |-> -1, task |-> t],
             pc = "rewind" => t \in Heights
      PROVE  ByHand'
  <2>1. Ready(cli)'
    BY <1>8 DEF Ready, Phases
  <2> QED
    BY <1>8, <2>1 DEF ByHand
<1>9. ASSUME NEW t \in Task, Ask(t) PROVE Typed'
  <2>1. Counted'
    BY <1>1, <1>9 DEF Ask, Counted
  <2> QED
    BY <1>2, <1>4, <1>9, <2>1, TypedParts DEF Ask
<1>10. CASE Enqueue
  <2>1. Stored'
    BY <1>1, <1>10 DEF Enqueue, Stored, Counted, tables
  <2>2. Counted'
    BY <1>1, <1>10 DEF Enqueue, Counted, counters
  <2> QED
    BY <1>4, <1>10, <2>1, <2>2, TypedParts DEF Enqueue
<1>11. ASSUME NEW t \in Wipes, CliStart(t) PROVE Typed'
  <2>1. Stored'
    BY <1>5, <1>6, <1>11 DEF CliStart, SetWipeLock
  <2>2. Counted'
    BY <1>1, <1>11 DEF CliStart, Counted
  <2>3. ByHand'
    BY <1>8, <1>11 DEF CliStart
  <2> QED
    BY <1>4, <1>11, <2>1, <2>2, <2>3, TypedParts DEF CliStart
<1>12. CASE CliWipe
  <2>1. /\ cli.h = -1 /\ cli.task \in Wipes \cup {None} /\ Ready(cli)
        /\ cli = [pc |-> cli.pc, h |-> cli.h, task |-> cli.task]
    BY <1>1 DEF ByHand
  <2>2. cli.task \in Task \cup {None}
    BY <2>1 DEF Task
  <2>3. ASSUME NEW pc \in Phases, cli' = [cli EXCEPT !.pc = pc], cli.task \in Wipes,
               pc = "rewind" => cli.task \in Heights
        PROVE  ByHand'
    <3>1. cli' = [pc |-> pc, h |-> -1, task |-> cli.task]
      BY <2>1, <2>3
    <3> QED
      BY <1>8, <2>3, <3>1
  <2>4. Stored' /\ ByHand'
    <3>1. CASE GraceOver(cli) /\ cli' = [cli EXCEPT !.pc = First(cli)] /\ UNCHANGED <<tables, redis, hurt>>
      <4>1. First(cli) \in {"delete", "meili"} /\ cli.task \in Wipes
        BY <2>1, <3>1, FirstTyped DEF GraceOver
      <4>2. First(cli) \in Phases
        BY <4>1 DEF Phases
      <4> QED
        BY <1>2, <2>3, <3>1, <4>1, <4>2
    <3>2. ASSUME NEW after \in Phases, Phase(cli, after), cli' = [cli EXCEPT !.pc = after]
          PROVE  Stored' /\ ByHand'
      <4>1. /\ Stored'
            /\ after = "rewind" => cli.task \in Heights
        BY <1>1, <2>1, <2>2, <3>2, PhaseTyped
      <4>2. cli.task \in Wipes
        BY <2>1, <3>2 DEF Phase, DeleteBlocks, DeleteOthers, Rewind, Flush, Prune, Ready, Wipes
      <4> QED
        BY <2>3, <3>2, <4>1, <4>2
    <3>3. CASE cli' = Off /\ lock' = 0 /\ UNCHANGED <<tables, cursor, request, status, hurt>>
      BY <1>5, <1>6, <1>7, <3>3
    <3> QED
      BY <1>12, <3>1, <3>2, <3>3 DEF CliWipe
  <2>5. Counted'
    <3>1. UNCHANGED <<asking, counters>>
      BY <1>12 DEF CliWipe
    <3> QED
      BY <1>1, <1>3, <1>12, <3>1, PhaseHurts DEF CliWipe
  <2> QED
    BY <1>4, <1>12, <2>4, <2>5, TypedParts DEF CliWipe
<1>13. CASE Heartbeat
  BY <1>3, <1>4, <1>5, <1>6, <1>13, TypedParts DEF Heartbeat, SetWipeLock
<1>14. CASE CliDies
  <2>1. Counted'
    BY <1>1, <1>14 DEF CliDies, Counted, Destroying
  <2> QED
    BY <1>2, <1>4, <1>7, <1>14, <2>1, TypedParts DEF CliDies
<1>15. CASE Crash \/ Exit
  <2>1. Working'
    BY <1>15, OffReady DEF Crash, Exit, Dead, Working
  <2>2. Counted'
    <3>1. CASE Exit
      BY <1>3, <3>1 DEF Exit
    <3>2. CASE Crash
      <4>1. hurt' \in BOOLEAN
        BY <3>2, Zenon DEF Crash
      <4>2. UNCHANGED <<asking, events>> /\ faults' \in 0 .. MaxFaults
        BY <1>1, <3>2 DEF Crash, Counted
      <4> QED
        BY <1>1, <4>1, <4>2 DEF Counted
    <3> QED
      BY <1>15, <3>1, <3>2
  <2> QED
    BY <1>2, <1>4, <1>15, <2>1, <2>2, TypedParts DEF Crash, Exit
<1>16. CASE Shutdown
  <2>1. Working'
    BY <1>1, <1>16 DEF Shutdown, Working
  <2>2. Counted'
    BY <1>1, <1>16 DEF Shutdown, Counted
  <2> QED
    BY <1>2, <1>4, <1>16, <2>1, <2>2, TypedParts DEF Shutdown
<1>17. CASE Tick
  <2>1. lock' \in 0 .. LockTTL
    BY <1>6, <1>17 DEF Tick
  <2> QED
    BY <1>3, <1>4, <1>5, <1>17, <2>1, TypedParts DEF Tick
<1>18. CASE UNCHANGED vars
  BY <1>2, <1>3, <1>4, <1>18, TypedParts DEF vars
<1> QED
  BY <1>9, <1>10, <1>11, <1>12, <1>13, <1>14, <1>15, <1>16, <1>17, <1>18

LEMMA NextTyped == Typed /\ [Next]_vars => Typed'
<1> SUFFICES ASSUME Typed, [Next]_vars PROVE Typed'
  OBVIOUS
<1>1. ASSUME NEW s \in Slot, FillStep(s) \/ TipStart(s) \/ \E j \in Indexers : ApplyStep(j, s)
      PROVE  Typed'
  BY <1>1, IndexerTyped
<1>2. ASSUME NEW s \in Slot, AdminStep(s) PROVE Typed'
  BY <1>2, AdminTyped
<1>3. ASSUME NEW s \in Slot, NEW j \in Job, Fire(j, s) \/ Check(j, s) \/ CheckFails(j, s)
      PROVE  Typed'
  BY <1>3, FireTyped
<1> QED
  BY <1>1, <1>2, <1>3, OthersTyped DEF Next, TickStep

(* Tables, cursor, lock, requests and every tick keep their types, through *)
(* wipes of either kind, shutdowns, crashes and ticks that overlap.        *)
THEOREM MaintenanceTypes == Safety => []TypeOK
<1>1. Typed => TypeOK
  BY DEF Typed
<1> QED
  BY <1>1, InitTyped, NextTyped, PTL DEF Safety

-----------------------------------------------------------------------------
(* What the cursor vouches for.  The tick of a wipe that has deleted is    *)
(* alone: a tick of the indexer that was there, or comes in, is what hurt  *)
(* records.  So what a tick has read of rows and cursor stays true.        *)

Prefix == \A h \in rows : 0 .. h \subseteq rows
Cut(w) == IF w.task = Full THEN rows = {} ELSE \A h \in rows : h < w.task
Covered(j, s) ==
  /\ tick[<<j, s>>].pc \in {"max", "walk", "rest", "rows", "cursor"} => 0 .. Here(j, s) \subseteq rows
  /\ At(j, s, "rows") => Here(j, s) + 1 \in rest
  /\ At(j, s, "cursor") => Here(j, s) + 1 \in rows
Deleting == \E w \in Wipers : Deleted(w)

Facts ==
  /\ Prefix /\ rows \subseteq rest
  /\ cursor.height = -1 => cursor = NoCursor
  /\ \A w \in Wipers : Deleted(w) => Paused /\ Cut(w)
  /\ Deleting \/ 0 .. cursor.height \subseteq rows
  /\ \A j \in Indexers, s \in Slot : Covered(j, s)

Sound == hurt \/ Facts

(* The tick in slot s of job j goes to pc with h, and no other moves. *)
Steps(j, s, pc, h) ==
  /\ tick'[<<j, s>>].pc = pc /\ tick'[<<j, s>>].h = h
  /\ \A k \in (Job \X Slot) \ {<<j, s>>} : tick'[k] = tick[k]

LEMMA TicksStep ==
  ASSUME Working, NEW j \in Job, NEW s \in Slot
  PROVE  /\ \A pc : Goto(j, s, pc) => Steps(j, s, pc, Here(j, s)) /\ tick'[<<j, s>>].task = tick[<<j, s>>].task
         /\ \A pc, h : Move(j, s, pc, h) => Steps(j, s, pc, h)
         /\ End(j, s) => Steps(j, s, "off", -1)
<1> DEFINE w == tick[<<j, s>>]
<1>1. w \in Ticks /\ tick \in [Job \X Slot -> ReadyTicks]
  BY DEF Working, ReadyTicks
<1>2. ASSUME NEW v, tick' = [tick EXCEPT ![<<j, s>>] = v]
      PROVE  tick'[<<j, s>>] = v /\ \A k \in (Job \X Slot) \ {<<j, s>>} : tick'[k] = tick[k]
  BY <1>1, <1>2
<1>3. ASSUME NEW pc, Goto(j, s, pc)
      PROVE  Steps(j, s, pc, Here(j, s)) /\ tick'[<<j, s>>].task = tick[<<j, s>>].task
  <2> DEFINE v == [w EXCEPT !.pc = pc]
  <2>1. v.pc = pc /\ v.h = w.h /\ v.task = w.task
    BY <1>1 DEF Ticks
  <2>2. tick' = [tick EXCEPT ![<<j, s>>] = v]
    BY <1>3 DEF Goto
  <2> HIDE DEF v
  <2> QED
    BY <1>2, <2>1, <2>2 DEF Steps, Here
<1>4. ASSUME NEW pc, NEW h, Move(j, s, pc, h) PROVE Steps(j, s, pc, h)
  <2> DEFINE v == [pc |-> pc, h |-> h, task |-> w.task]
  <2>1. tick' = [tick EXCEPT ![<<j, s>>] = v]
    BY <1>4 DEF Move
  <2>2. v.pc = pc /\ v.h = h
    OBVIOUS
  <2> HIDE DEF v
  <2> QED
    BY <1>2, <2>1, <2>2 DEF Steps
<1>5. ASSUME End(j, s) PROVE Steps(j, s, "off", -1)
  BY <1>2, <1>5 DEF End, Steps, Off
<1> QED
  BY <1>3, <1>4, <1>5

(* Nobody wipes but the wipe by hand and the ticks of the watcher. *)
LEMMA WipersStep ==
  ASSUME NEW j \in Job, NEW s \in Slot, UNCHANGED cli,
         \A k \in (Job \X Slot) \ {<<j, s>>} : tick'[k] = tick[k]
  PROVE  /\ \A w \in Wipers' : w \in Wipers \/ (j = "admin" /\ w = tick'[<<j, s>>])
         /\ \A w \in Wipers : w \in Wipers' \/ (j = "admin" /\ w = tick[<<j, s>>])
  BY DEF Wipers, Job

(* Tables and cursor are left alone, and so is every wipe that has deleted. *)
LEMMA QuietKeeps ==
  ASSUME Facts, UNCHANGED <<tables, cursor>>,
         \A w \in Wipers' : Deleted(w) => w \in Wipers,
         \A w \in Wipers : Deleted(w) => w \in Wipers',
         Deleting /\ Paused => Paused',
         \A j \in Indexers, s \in Slot : Covered(j, s)'
  PROVE  Facts'
<1>1. UNCHANGED <<rows, rest, cursor>>
  BY DEF tables
<1>2. Prefix' /\ rows' \subseteq rest' /\ (cursor'.height = -1 => cursor' = NoCursor)
  BY <1>1 DEF Facts, Prefix
<1>3. \A w \in Wipers' : Deleted(w) => Paused' /\ Cut(w)'
  BY <1>1 DEF Facts, Cut, Deleting
<1>4. Deleting' \/ 0 .. cursor'.height \subseteq rows'
  BY <1>1 DEF Facts, Deleting
<1> QED
  BY <1>2, <1>3, <1>4 DEF Facts

(* A tick that is not the indexer's moves. *)
LEMMA WatcherKeeps ==
  ASSUME NEW s \in Slot, \A k \in (Job \X Slot) \ {<<"admin", s>>} : tick'[k] = tick[k]
  PROVE  /\ \A j \in Indexers, r \in Slot : tick'[<<j, r>>] = tick[<<j, r>>]
         /\ Paused => Paused'
<1>1. \A j \in Indexers, r \in Slot : <<j, r>> \in (Job \X Slot) \ {<<"admin", s>>}
  BY DEF Indexers, Job
<1> QED
  BY <1>1 DEF Paused, Active

LEMMA CoveredKeeps ==
  ASSUME Facts, rows \subseteq rows', rest \subseteq rest',
         NEW j \in Indexers, NEW s \in Slot, tick'[<<j, s>>] = tick[<<j, s>>]
  PROVE  Covered(j, s)'
<1>1. Covered(j, s)
  BY DEF Facts
<1> QED
  BY <1>1 DEF Covered, At, Here

-----------------------------------------------------------------------------
(* The steps of the indexer.                                               *)

LEMMA RunsAlone ==
  ASSUME Facts, NEW j \in Indexers, NEW s \in Slot, Active(j, s)
  PROVE  ~Deleting /\ 0 .. cursor.height \subseteq rows
  BY DEF Facts, Deleting, Paused

LEMMA IndexerKeeps ==
  ASSUME Facts, NEW j \in Indexers, NEW s \in Slot, Active(j, s), UNCHANGED cli,
         NEW pc, NEW h, Steps(j, s, pc, h),
         rows \subseteq rows', rest \subseteq rest', Prefix', rows' \subseteq rest',
         cursor'.height = -1 => cursor' = NoCursor, 0 .. cursor'.height \subseteq rows',
         pc \in {"max", "walk", "rest", "rows", "cursor"} => 0 .. h \subseteq rows',
         pc = "rows" => h + 1 \in rest', pc = "cursor" => h + 1 \in rows'
  PROVE  Facts'
<1>1. j \in Job /\ j # "admin"
  BY DEF Indexers, Job
<1>2. \A w \in Wipers' : ~Deleted(w)
  <2>1. \A w \in Wipers' : w \in Wipers
    BY <1>1, WipersStep DEF Steps
  <2> QED
    BY <2>1, RunsAlone DEF Deleting
<1>3. ASSUME NEW i \in Indexers, NEW r \in Slot PROVE Covered(i, r)'
  <2>1. CASE <<i, r>> = <<j, s>>
    BY <2>1 DEF Steps, Covered, At, Here
  <2>2. CASE <<i, r>> # <<j, s>>
    <3>1. tick'[<<i, r>>] = tick[<<i, r>>]
      BY <2>2 DEF Steps, Indexers, Job
    <3> QED
      BY <3>1, CoveredKeeps
  <2> QED
    BY <2>1, <2>2
<1> QED
  BY <1>2, <1>3 DEF Facts

LEMMA FillSound ==
  ASSUME Typed, Facts, NEW s \in Slot, FillStep(s)
  PROVE  Sound'
<1> "fill" \in Job /\ "fill" \in Indexers
  BY DEF Job, Indexers
<1>1. Stored /\ Working
  BY TypedParts
<1>2. Active("fill", s) /\ UNCHANGED <<cli, tables>>
  BY DEF FillStep, FillStart, FillMax, FillWalk, FillMark, Active, At, idle
<1>3. UNCHANGED <<rows, rest, cli>> /\ Prefix /\ Prefix' /\ rows' \subseteq rest'
  BY <1>2 DEF tables, Facts, Prefix
<1>4. 0 .. cursor.height \subseteq rows /\ (cursor.height = -1 => cursor = NoCursor)
  BY <1>2, RunsAlone DEF Facts
<1>5. Covered("fill", s)
  BY DEF Facts
<1>6. ASSUME NEW pc, NEW h, Steps("fill", s, pc, h), pc \in {"off", "max", "walk", "rest", "mark"},
             pc \in {"max", "walk", "rest"} => 0 .. h \subseteq rows,
             cursor'.height = -1 => cursor' = NoCursor, 0 .. cursor'.height \subseteq rows
      PROVE  Sound'
  BY <1>2, <1>3, <1>6, IndexerKeeps DEF Sound
<1>7. CASE FillStart(s)
  <2>1. cursor' = cursor
    BY <1>7 DEF FillStart, idle, redis
  <2>2. CASE End("fill", s)
    BY <1>1, <1>4, <1>6, <2>1, <2>2, TicksStep
  <2>3. CASE Move("fill", s, "max", cursor.height)
    <3>1. Steps("fill", s, "max", cursor.height)
      BY <1>1, <2>3, TicksStep
    <3> QED
      BY <1>4, <1>6, <2>1, <3>1
  <2> QED
    BY <1>7, <2>2, <2>3 DEF FillStart
<1>8. CASE FillMax(s)
  <2> DEFINE top == Max(rows \cup {-1})
  <2>1. top \in rows \cup {-1}
    <3> DEFINE S == rows \cup {-1}
    <3>1. S \in SUBSET (-1 .. Tip) /\ S # {} /\ -1 \in Int /\ Tip \in Int
      BY <1>1, MaintenanceAssumption DEF Stored, Heights
    <3> HIDE DEF S
    <3>2. Max(S) \in S
      BY <3>1, GreatestElement
    <3> QED
      BY <3>2 DEF S
  <2>2. CASE top > Here("fill", s)
    <3>1. SetHeight(top) /\ Move("fill", s, "walk", top)
      BY <1>8, <2>2 DEF FillMax
    <3> HIDE DEF top
    <3>2. Here("fill", s) \in -1 .. Tip
      BY <1>1 DEF Working, ReadyTicks, Ticks, Here
    <3>3. top \in rows /\ top # -1 /\ 0 .. top \subseteq rows
      BY <1>3, <2>1, <2>2, <3>2 DEF Prefix
    <3>4. cursor'.height = top
      BY <1>1, <3>1 DEF SetHeight, Stored
    <3>5. Steps("fill", s, "walk", top)
      BY <1>1, <3>1, TicksStep
    <3> QED
      BY <1>6, <3>3, <3>4, <3>5
  <2>3. CASE ~(top > Here("fill", s))
    <3>1. Goto("fill", s, "walk") /\ cursor' = cursor
      BY <1>8, <2>3 DEF FillMax, redis
    <3>2. 0 .. Here("fill", s) \subseteq rows
      BY <1>5, <1>8 DEF Covered, FillMax, At
    <3>3. Steps("fill", s, "walk", Here("fill", s))
      BY <1>1, <3>1, TicksStep
    <3> QED
      BY <1>4, <1>6, <3>1, <3>2, <3>3
  <2> QED
    BY <2>2, <2>3
<1>9. CASE FillWalk(s)
  <2>1. cursor' = cursor
    BY <1>9 DEF FillWalk, idle, redis
  <2>2. 0 .. Here("fill", s) \subseteq rows
    BY <1>5, <1>9 DEF Covered, FillWalk, At
  <2>3. Steps("fill", s, "mark", Here("fill", s)) \/ Steps("fill", s, "rest", Here("fill", s))
    BY <1>1, <1>9, TicksStep DEF FillWalk
  <2> QED
    BY <1>4, <1>6, <2>1, <2>2, <2>3
<1>10. CASE FillMark(s)
  <2>1. CASE cursor = NoCursor
    BY <1>10, <2>1 DEF FillMark, Sound
  <2>2. CASE cursor # NoCursor
    <3>1. cursor.height \in 0 .. Tip
      BY <1>1, <1>4, <2>2 DEF Stored
    <3>2. cursor'.height = cursor.height
      BY <1>10, <3>1 DEF FillMark, SetStatus, Larger
    <3>3. Steps("fill", s, "off", -1)
      BY <1>1, <1>10, TicksStep DEF FillMark
    <3> QED
      BY <1>4, <1>6, <3>1, <3>2, <3>3
  <2> QED
    BY <2>1, <2>2
<1> QED
  BY <1>7, <1>8, <1>9, <1>10 DEF FillStep

LEMMA TipSound ==
  ASSUME Typed, Facts, NEW s \in Slot, TipStart(s)
  PROVE  Sound'
<1> "tip" \in Job /\ "tip" \in Indexers
  BY DEF Job, Indexers
<1> DEFINE lag == Tip - cursor.height
<1>1. Stored /\ Working
  BY TypedParts
<1>2. Active("tip", s) /\ UNCHANGED <<cli, rows, rest>>
  BY DEF TipStart, Active, At, tables
<1>3. Prefix' /\ rows' \subseteq rest'
  BY <1>2 DEF Facts, Prefix
<1>4. 0 .. cursor.height \subseteq rows /\ (cursor.height = -1 => cursor = NoCursor)
  BY <1>2, RunsAlone DEF Facts
<1>5. CASE End("tip", s)
  <2>1. Steps("tip", s, "off", -1)
    BY <1>1, <1>5, TicksStep
  <2>2. cursor' = cursor \/ (cursor # NoCursor /\ SetStatus("backfilling"))
    BY <1>5 DEF TipStart, redis, End, Move
  <2>3. 0 .. cursor'.height \subseteq rows /\ (cursor'.height = -1 => cursor' = NoCursor)
    <3>1. CASE cursor # NoCursor /\ SetStatus("backfilling")
      <4>1. cursor.height \in 0 .. Tip
        BY <1>1, <1>4, <3>1 DEF Stored
      <4>2. cursor'.height = cursor.height
        BY <3>1, <4>1 DEF SetStatus, Larger
      <4> QED
        BY <1>4, <4>1, <4>2
    <3> QED
      BY <1>4, <2>2, <3>1
  <2> QED
    BY <1>2, <1>3, <2>1, <2>3, IndexerKeeps DEF Sound
<1>6. CASE Move("tip", s, "rest", cursor.height) /\ UNCHANGED redis
  <2>1. Steps("tip", s, "rest", cursor.height) /\ cursor' = cursor
    BY <1>1, <1>6, TicksStep DEF redis
  <2> QED
    BY <1>2, <1>3, <1>4, <2>1, IndexerKeeps DEF Sound
<1> QED
  BY <1>5, <1>6 DEF TipStart

LEMMA ApplySound ==
  ASSUME Typed, Facts, NEW j \in Indexers, NEW s \in Slot, ApplyStep(j, s)
  PROVE  Sound'
<1> j \in Job
  BY DEF Job
<1> DEFINE h == Here(j, s)
<1>1. Stored /\ Working
  BY TypedParts
<1>2. Active(j, s) /\ UNCHANGED cli
  BY DEF ApplyStep, WriteRest, WriteRows, Advance, Active, At, idle
<1>3. Prefix /\ rows \subseteq rest
  BY DEF Facts
<1>4. 0 .. cursor.height \subseteq rows /\ (cursor.height = -1 => cursor = NoCursor)
  BY <1>2, RunsAlone DEF Facts
<1>5. h \in -1 .. Tip /\ 0 .. h \subseteq rows /\ 0 .. h + 1 = (0 .. h) \cup {h + 1}
  <2>1. 0 .. h \subseteq rows
    <3>1. Covered(j, s)
      BY DEF Facts
    <3> QED
      BY <3>1 DEF Covered, ApplyStep, WriteRest, WriteRows, Advance, At
  <2>2. h \in -1 .. Tip
    BY <1>1 DEF Working, ReadyTicks, Ticks, Here
  <2>3. Tip \in Int
    BY MaintenanceAssumption
  <2> QED
    BY <2>1, <2>2, <2>3
<1>6. CASE WriteRest(j, s)
  <2>1. cursor' = cursor /\ rows' = rows /\ rest' = rest \cup {h + 1}
    BY <1>6 DEF WriteRest, idle, redis
  <2>2. Steps(j, s, "rows", h)
    BY <1>1, <1>6, TicksStep DEF WriteRest
  <2>3. Prefix'
    BY <1>3, <2>1 DEF Prefix
  <2> HIDE DEF h
  <2>4. Facts'
    BY <1>2, <1>3, <1>4, <1>5, <2>1, <2>2, <2>3, IndexerKeeps
  <2> QED
    BY <2>4 DEF Sound
<1>7. CASE WriteRows(j, s)
  <2>1. cursor' = cursor /\ rows' = rows \cup {h + 1} /\ rest' = rest
    BY <1>7 DEF WriteRows, idle, redis
  <2>2. Steps(j, s, "cursor", h)
    BY <1>1, <1>7, TicksStep DEF WriteRows
  <2>3. h + 1 \in rest
    <3>1. Covered(j, s)
      BY DEF Facts
    <3> QED
      BY <1>7, <3>1 DEF Covered, WriteRows
  <2> HIDE DEF h
  <2>4. Prefix'
    BY <1>3, <1>5, <2>1 DEF Prefix
  <2>5. Facts'
    BY <1>2, <1>3, <1>4, <1>5, <2>1, <2>2, <2>3, <2>4, IndexerKeeps
  <2> QED
    BY <2>5 DEF Sound
<1>8. CASE Advance(j, s)
  <2>1. UNCHANGED <<rows, rest>> /\ SetHeight(h + 1)
    BY <1>8 DEF Advance, tables
  <2>2. Steps(j, s, "off", -1) \/ Steps(j, s, "walk", h + 1) \/ Steps(j, s, "rest", h + 1)
    BY <1>1, <1>8, TicksStep DEF Advance
  <2>3. h + 1 \in rows
    <3>1. Covered(j, s)
      BY DEF Facts
    <3> QED
      BY <1>8, <3>1 DEF Covered, Advance
  <2> HIDE DEF h
  <2>4. cursor'.height = h + 1 /\ h + 1 # -1
    BY <1>1, <1>5, <2>1 DEF SetHeight, Stored
  <2>5. Prefix' /\ rows' \subseteq rest' /\ 0 .. h + 1 \subseteq rows'
    BY <1>3, <1>5, <2>1, <2>3 DEF Prefix
  <2>6. Facts'
    BY <1>2, <2>1, <2>2, <2>4, <2>5, IndexerKeeps
  <2> QED
    BY <2>6 DEF Sound
<1> QED
  BY <1>6, <1>7, <1>8 DEF ApplyStep

-----------------------------------------------------------------------------
(* The scheduler lets a tick in, next to a wipe only if that is recorded.  *)
LEMMA ScheduleSound ==
  ASSUME Typed, Facts, NEW j \in Job, NEW s \in Slot, Fire(j, s) \/ Check(j, s) \/ CheckFails(j, s)
  PROVE  Sound'
<1> DEFINE w == tick[<<j, s>>]
<1>1. Working
  BY TypedParts
<1>2. UNCHANGED <<tables, cursor, cli>>
  BY DEF Fire, Check, CheckFails, redis
<1>3. /\ w.pc \in {"off", "check"} /\ tick' = [tick EXCEPT ![<<j, s>>].pc = tick'[<<j, s>>].pc]
      /\ tick'[<<j, s>>].pc \in {"off", "check", "start"}
      /\ \A k \in (Job \X Slot) \ {<<j, s>>} : tick'[k] = tick[k]
  <2>1. PICK pc \in {"off", "check", "start"} : tick' = [tick EXCEPT ![<<j, s>>].pc = pc]
    BY DEF Fire, Check, CheckFails, Goto
  <2>2. w \in Ticks /\ tick \in [Job \X Slot -> ReadyTicks]
    BY <1>1 DEF Working, ReadyTicks
  <2>3. tick'[<<j, s>>] = [w EXCEPT !.pc = pc] /\ \A k \in (Job \X Slot) \ {<<j, s>>} : tick'[k] = tick[k]
    BY <2>1, <2>2
  <2>4. tick'[<<j, s>>].pc = pc
    BY <2>2, <2>3 DEF Ticks
  <2>5. w.pc \in {"off", "check"}
    BY DEF Fire, Check, CheckFails, At
  <2> QED
    BY <2>1, <2>3, <2>4, <2>5
<1> HIDE DEF w
<1>4. ~Deleted(tick[<<j, s>>]) /\ ~Deleted(tick'[<<j, s>>])
  BY <1>3 DEF Deleted, w
<1>5. /\ \A v \in Wipers' : Deleted(v) => v \in Wipers
      /\ \A v \in Wipers : Deleted(v) => v \in Wipers'
  BY <1>2, <1>3, <1>4, WipersStep
<1>6. ASSUME NEW i \in Indexers, NEW r \in Slot PROVE Covered(i, r)'
  <2>1. CASE <<i, r>> = <<j, s>>
    BY <1>3, <2>1 DEF Covered, At
  <2>2. CASE <<i, r>> # <<j, s>>
    <3>1. tick'[<<i, r>>] = tick[<<i, r>>]
      BY <1>3, <2>2 DEF Indexers, Job
    <3>2. rows' = rows /\ rest' = rest
      BY <1>2 DEF tables
    <3> QED
      BY <3>1, <3>2, CoveredKeeps
  <2> QED
    BY <2>1, <2>2
<1>7. CASE hurt'
  BY <1>7 DEF Sound
<1>8. CASE ~hurt'
  <2>1. Deleting /\ Paused => Paused'
    <3> SUFFICES ASSUME Deleting, Paused, NEW i \in Indexers, NEW r \in Slot PROVE ~Active(i, r)'
      BY DEF Paused
    <3>1. CASE <<i, r>> = <<j, s>>
      <4>1. ~LetIn(j) => j \notin Indexers
        BY DEF LetIn, Deleting, Deleted, Destroying
      <4>2. ~Check(j, s) \/ lock # 0
        <5>1. CASE Check(j, s) /\ lock = 0
          BY <1>8, <3>1, <4>1, <5>1 DEF Check
        <5> QED
          BY <5>1
      <4>3. ~CheckFails(j, s)
        BY <1>8, <3>1, <4>1 DEF CheckFails
      <4>4. tick'[<<j, s>>].pc \in {"off", "check"}
        <5>1. lock \in Nat
          BY MaintenanceAssumption, TypedParts DEF Stored
        <5>2. \E pc \in {"off", "check"} : Goto(j, s, pc)
          BY <4>2, <4>3, <5>1 DEF Fire, Check
        <5> QED
          BY <1>1, <5>2, TicksStep DEF Steps
      <4> QED
        BY <3>1, <4>4 DEF Active
    <3>2. CASE <<i, r>> # <<j, s>>
      <4>1. tick'[<<i, r>>] = tick[<<i, r>>]
        BY <1>3, <3>2 DEF Indexers, Job
      <4> QED
        BY <4>1 DEF Paused, Active
    <3> QED
      BY <3>1, <3>2
  <2> QED
    BY <1>2, <1>5, <1>6, <2>1, QuietKeeps DEF Sound
<1> QED
  BY <1>7, <1>8

-----------------------------------------------------------------------------
(* The phases of a wipe: w is the wiper, v what it becomes.                *)
LEMMA PhaseSound ==
  ASSUME Typed, Facts, NEW w \in Wipers, Ready(w), NEW after \in Phases, Phase(w, after),
         NEW v, v.pc = after, v.task = w.task, v \in Wipers',
         \A u \in Wipers' : u = v \/ u \in Wipers,
         \A u \in Wipers : u = w \/ u \in Wipers',
         \A j \in Indexers, s \in Slot : tick'[<<j, s>>] = tick[<<j, s>>]
  PROVE  Sound'
<1> USE MaintenanceAssumption
<1>1. Stored /\ Prefix /\ rows \subseteq rest /\ rows \subseteq Heights
  BY TypedParts DEF Facts, Stored
<1>2. Paused <=> Paused'
  BY DEF Paused, Active
<1>3. \A j \in Indexers, s \in Slot : Paused => Covered(j, s)'
  BY <1>2 DEF Paused, Active, Covered, At
<1>4. (cursor.height = -1 => cursor = NoCursor) /\ (Deleting \/ 0 .. cursor.height \subseteq rows)
  BY DEF Facts
<1>5. \A u \in Wipers : Deleted(u) => Paused /\ Cut(u)
  BY DEF Facts
<1>6. w.pc = "delete" /\ w.task # Full => w.task \in Int
  BY DEF Ready, Wipes, Heights
<1>7. CASE DeleteBlocks(w, after)
  <2>1. CASE hurt'
    BY <2>1 DEF Sound
  <2>2. CASE ~hurt'
    <3>1. Paused /\ cursor' = cursor /\ rest' = rest /\ after = "deleteRest" /\ w.pc = "delete"
      BY <1>7, <2>2 DEF DeleteBlocks, redis
    <3>2. rows' = IF w.task = Full THEN {} ELSE {h \in rows : h < w.task}
      BY <1>7 DEF DeleteBlocks
    <3>3. Prefix' /\ rows' \subseteq rows /\ Cut(v)'
      <4>1. \A h \in rows : h \in Int /\ 0 .. h \subseteq rows
        BY <1>1 DEF Heights, Prefix
      <4>2. \A h \in rows' : h \in rows /\ 0 .. h \subseteq rows'
        BY <1>6, <3>1, <3>2, <4>1
      <4> QED
        BY <3>2, <4>2 DEF Prefix, Cut
    <3>4. \A u \in Wipers' : Deleted(u) => Paused' /\ Cut(u)'
      BY <1>2, <1>5, <3>1, <3>3 DEF Cut
    <3>5. Deleting'
      BY <3>1 DEF Deleting, Deleted
    <3> QED
      BY <1>1, <1>3, <1>4, <3>1, <3>3, <3>4, <3>5 DEF Facts, Sound
  <2> QED
    BY <2>1, <2>2
<1>8. CASE DeleteOthers(w, after)
  <2>1. Deleted(w) /\ Paused /\ Cut(w) /\ Deleted(v)
    BY <1>5, <1>8 DEF DeleteOthers, Deleted
  <2>2. rows' = rows /\ cursor' = cursor
    BY <1>8 DEF DeleteOthers, redis
  <2>3. rows' \subseteq rest'
    BY <1>1, <1>8, <2>1, <2>2 DEF DeleteOthers, Cut
  <2>4. Prefix' /\ \A u \in Wipers' : Deleted(u) => Paused' /\ Cut(u)'
    BY <1>1, <1>2, <1>5, <2>1, <2>2 DEF Cut, Prefix
  <2>5. Deleting'
    BY <2>1 DEF Deleting
  <2> QED
    BY <1>3, <1>4, <2>1, <2>2, <2>3, <2>4, <2>5 DEF Facts, Sound
<1>9. CASE Rewind(w, after) \/ Flush(w, after)
  <2>1. Deleted(w) /\ Paused /\ ~Deleted(v)
    BY <1>5, <1>9 DEF Rewind, Flush, Deleted
  <2>2. rows' = rows /\ rest' = rest
    BY <1>9 DEF Rewind, Flush, tables
  <2>3. (cursor'.height = -1 => cursor' = NoCursor) /\ 0 .. cursor'.height \subseteq rows'
    <3>1. CASE Flush(w, after)
      BY <3>1 DEF Flush, NoCursor
    <3>2. CASE Rewind(w, after)
      <4>1. w.task \in Heights /\ cursor' = [height |-> w.task - 1, status |-> "backfilling"]
        BY <3>2 DEF Rewind, Ready
      <4>2. w.task = 0 \/ w.task - 1 \in rows
        BY <3>2, <4>1 DEF Rewind, NoSurvivor, Heights
      <4>3. 0 .. w.task - 1 \subseteq rows
        BY <1>1, <4>1, <4>2 DEF Prefix, Heights
      <4> QED
        BY <2>2, <4>1, <4>3 DEF NoCursor, Heights
    <3> QED
      BY <1>9, <3>1, <3>2
  <2>4. Prefix' /\ \A u \in Wipers' : Deleted(u) => Paused' /\ Cut(u)'
    BY <1>1, <1>2, <1>5, <2>1, <2>2 DEF Cut, Prefix
  <2> QED
    BY <1>1, <1>3, <2>1, <2>2, <2>3, <2>4 DEF Facts, Sound
<1>10. CASE Prune(w, after)
  <2>1. ~Deleted(w) /\ ~Deleted(v) /\ UNCHANGED <<tables, cursor>>
    BY <1>10 DEF Prune, Deleted, redis
  <2>2. \A j \in Indexers, s \in Slot : Covered(j, s)'
    BY <2>1, CoveredKeeps DEF tables
  <2> QED
    BY <1>2, <2>1, <2>2, QuietKeeps DEF Sound
<1> QED
  BY <1>7, <1>8, <1>9, <1>10 DEF Phase

LEMMA AdminSound ==
  ASSUME Typed, Facts, NEW s \in Slot, AdminStep(s)
  PROVE  Sound'
<1> "admin" \in Job
  BY DEF Job
<1> DEFINE w == tick[<<"admin", s>>]
           v == tick'[<<"admin", s>>]
<1>1. Working
  BY TypedParts
<1>2. w \in Ticks /\ Ready(w) /\ w \in Wipers /\ v \in Wipers'
  BY <1>1 DEF Working, ReadyTicks, Wipers
<1>3. UNCHANGED cli /\ \A k \in (Job \X Slot) \ {<<"admin", s>>} : tick'[k] = tick[k]
  <2>1. tick \in [Job \X Slot -> ReadyTicks]
    BY <1>1 DEF Working
  <2>2. \E u : tick' = [tick EXCEPT ![<<"admin", s>>] = u]
    BY Zenon DEF AdminStep, Claim, SetRunning, Lock, AdminWipe, Finish, TaskFails, Clear, Goto, End
  <2>3. UNCHANGED cli
    BY DEF AdminStep, Claim, SetRunning, Lock, AdminWipe, Finish, TaskFails, Clear
  <2> QED
    BY <2>1, <2>2, <2>3
<1>4. (\A j \in Indexers, r \in Slot : tick'[<<j, r>>] = tick[<<j, r>>]) /\ (Paused => Paused')
  BY <1>3, WatcherKeeps
<1>5. /\ \A u \in Wipers' : u = v \/ u \in Wipers
      /\ \A u \in Wipers : u = w \/ u \in Wipers'
  BY <1>3, WipersStep
<1>6. ASSUME UNCHANGED <<tables, cursor>>, ~Deleted(w), ~Deleted(v)
      PROVE  Sound'
  <2>1. \A j \in Indexers, r \in Slot : Covered(j, r)'
    BY <1>4, <1>6, CoveredKeeps DEF tables
  <2> QED
    BY <1>4, <1>5, <1>6, <2>1, QuietKeeps DEF Sound
<1>7. ASSUME NEW pc, Goto("admin", s, pc) PROVE v.pc = pc /\ v.task = w.task
  BY <1>1, <1>7, TicksStep DEF Steps
<1>8. ASSUME End("admin", s) PROVE v.pc = "off"
  BY <1>1, <1>8, TicksStep DEF Steps
<1>9. CASE Claim(s)
  <2>1. UNCHANGED <<tables, cursor>> /\ w.pc = "start"
    BY <1>9 DEF Claim, At, redis
  <2>2. v.pc \in {"off", "claimed"}
    <3>1. CASE tick' = [tick EXCEPT ![<<"admin", s>>] = [pc |-> "claimed", h |-> @.h, task |-> request]]
      BY <1>1, <3>1 DEF Working
    <3> QED
      BY <1>8, <1>9, <3>1 DEF Claim
  <2> QED
    BY <1>6, <2>1, <2>2 DEF Deleted
<1>10. CASE SetRunning(s) \/ Lock(s)
  <2>1. UNCHANGED <<tables, cursor>> /\ w.pc \in {"claimed", "locked"}
    BY <1>10 DEF SetRunning, Lock, SetWipeLock, At
  <2>2. v.pc \in {"locked", "finish", "grace"}
    BY <1>7, <1>10 DEF SetRunning, Lock
  <2> QED
    BY <1>6, <2>1, <2>2 DEF Deleted
<1>11. CASE AdminWipe(s)
  <2>1. CASE GraceOver(w) /\ Goto("admin", s, First(w)) /\ UNCHANGED <<tables, redis, hurt>>
    <3>1. w.pc = "grace" /\ v.pc \in {"delete", "meili"} /\ UNCHANGED <<tables, cursor>>
      BY <1>7, <2>1 DEF GraceOver, First, redis
    <3> QED
      BY <1>6, <3>1 DEF Deleted
  <2>2. ASSUME NEW after \in Phases, Phase(w, after), Goto("admin", s, after) PROVE Sound'
    <3>1. v.pc = after /\ v.task = w.task
      BY <1>7, <2>2
    <3> HIDE DEF w, v
    <3> QED
      BY <1>2, <1>4, <1>5, <2>2, <3>1, PhaseSound
  <2> QED
    BY <1>11, <2>1, <2>2 DEF AdminWipe, Wiper
<1>12. CASE Finish(s) \/ Clear(s)
  <2>1. UNCHANGED <<tables, cursor>> /\ w.pc \in {"finish", "clear"}
    BY <1>12 DEF Finish, Clear, At
  <2>2. v.pc \in {"clear", "off"}
    BY <1>7, <1>8, <1>12 DEF Finish, Clear
  <2> QED
    BY <1>6, <2>1, <2>2 DEF Deleted
<1>13. CASE TaskFails(s)
  <2>1. hurt' \/ ~Deleted(w)
    BY <1>13 DEF TaskFails, Deleted, Destroying, Wiper
  <2>2. UNCHANGED <<tables, cursor>> /\ v.pc \in {"clear", "off"}
    BY <1>7, <1>8, <1>13 DEF TaskFails
  <2> QED
    BY <1>6, <2>1, <2>2 DEF Deleted, Sound
<1> QED
  BY <1>9, <1>10, <1>11, <1>12, <1>13 DEF AdminStep

LEMMA OthersSound ==
  ASSUME Typed, Facts,
         \/ \E t \in Task : Ask(t)
         \/ \E t \in Wipes : CliStart(t)
         \/ Enqueue \/ CliWipe \/ Heartbeat \/ CliDies \/ Crash \/ Shutdown \/ Exit \/ Tick
         \/ UNCHANGED vars
  PROVE  Sound'
<1>1. Ready(cli) /\ cli \in Wipers /\ cli' \in Wipers'
  BY DEF Typed, Wipers
<1>2. ASSUME UNCHANGED tick
      PROVE  /\ \A u \in Wipers' : u = cli' \/ u \in Wipers
             /\ \A u \in Wipers : u = cli \/ u \in Wipers'
             /\ Paused <=> Paused'
             /\ \A j \in Indexers, s \in Slot : tick'[<<j, s>>] = tick[<<j, s>>]
  BY <1>2 DEF Wipers, Paused, Active
<1>3. ASSUME UNCHANGED <<tables, cursor, tick>>, cli' = cli \/ (~Deleted(cli) /\ ~Deleted(cli'))
      PROVE  Sound'
  <2>1. \A j \in Indexers, s \in Slot : Covered(j, s)'
    BY <1>2, <1>3, CoveredKeeps DEF tables
  <2>2. /\ \A u \in Wipers' : Deleted(u) => u \in Wipers
        /\ \A u \in Wipers : Deleted(u) => u \in Wipers'
    BY <1>1, <1>2, <1>3
  <2> QED
    BY <1>2, <1>3, <2>1, <2>2, QuietKeeps DEF Sound
<1>4. CASE (\E t \in Task : Ask(t)) \/ Enqueue \/ Heartbeat \/ Shutdown \/ Tick \/ UNCHANGED vars
  BY <1>3, <1>4 DEF Ask, Enqueue, Heartbeat, SetWipeLock, Shutdown, Tick, redis, process, vars
<1>5. ASSUME NEW t \in Wipes, CliStart(t) PROVE Sound'
  BY <1>3, <1>5 DEF CliStart, SetWipeLock, Off, Deleted, process
<1>6. cli \in [pc : {"off", "grace"} \cup Phases, h : {-1}, task : Wipes \cup {None}]
  BY DEF Typed, TypeOK
<1>7. CASE CliWipe
  <2>1. UNCHANGED tick
    BY <1>7 DEF CliWipe, process
  <2>2. CASE GraceOver(cli) /\ cli' = [cli EXCEPT !.pc = First(cli)] /\ UNCHANGED <<tables, redis, hurt>>
    BY <1>3, <1>6, <2>1, <2>2 DEF GraceOver, First, Deleted, redis
  <2>3. ASSUME NEW after \in Phases, Phase(cli, after), cli' = [cli EXCEPT !.pc = after] PROVE Sound'
    <3>1. cli'.pc = after /\ cli'.task = cli.task
      BY <1>6, <2>3
    <3> QED
      BY <1>1, <1>2, <2>1, <2>3, <3>1, PhaseSound
  <2>4. CASE cli.pc = "finish" /\ cli' = Off /\ UNCHANGED <<tables, cursor>>
    BY <1>3, <2>1, <2>4 DEF Off, Deleted
  <2> QED
    BY <1>7, <2>2, <2>3, <2>4 DEF CliWipe
<1>8. CASE CliDies
  <2>1. hurt' \/ ~Deleted(cli)
    BY <1>8 DEF CliDies, Deleted, Destroying
  <2> QED
    BY <1>3, <1>8, <2>1 DEF CliDies, Off, Deleted, Sound, process, redis
<1>9. CASE Crash \/ Exit
  <2>1. UNCHANGED <<tables, cursor, cli>> /\ tick' = Dead
    BY <1>9 DEF Crash, Exit, redis
  <2>2. hurt' \/ \A s \in Slot : ~Deleted(tick[<<"admin", s>>])
    BY <1>9 DEF Crash, Exit, Destroying, Deleted, Wiper, Active, Job
  <2>3. CASE \A s \in Slot : ~Deleted(tick[<<"admin", s>>])
    <3>1. \A s \in Slot : \A j \in Job : tick'[<<j, s>>].pc = "off"
      BY <2>1 DEF Dead, Off
    <3>2. /\ \A u \in Wipers' : Deleted(u) => u \in Wipers
          /\ \A u \in Wipers : Deleted(u) => u \in Wipers'
      BY <2>1, <2>3, <3>1 DEF Wipers, Deleted, Job
    <3>3. Paused' /\ \A j \in Indexers, s \in Slot : Covered(j, s)'
      BY <3>1 DEF Paused, Active, Covered, At, Job
    <3> QED
      BY <2>1, <3>2, <3>3, QuietKeeps DEF Sound
  <2> QED
    BY <2>2, <2>3 DEF Sound
<1> QED
  BY <1>4, <1>5, <1>7, <1>8, <1>9

LEMMA InitSound == Init => Sound
<1> SUFFICES ASSUME Init PROVE Facts
  BY DEF Sound
<1>1. cursor.height \in -1 .. Tip /\ (cursor.height = -1 => cursor = NoCursor)
  BY MaintenanceAssumption DEF Init, NoCursor
<1>2. rest = rows /\ Prefix /\ 0 .. cursor.height \subseteq rows
  BY MaintenanceAssumption DEF Init, Prefix, Heights, NoCursor
<1>3. cli.pc = "off" /\ \A j \in Job, s \in Slot : tick[<<j, s>>].pc = "off"
  BY DEF Init, Off
<1>4. \A w \in Wipers : ~Deleted(w)
  <2>1. \A w \in Wipers : w.pc = "off"
    BY <1>3 DEF Wipers, Job
  <2> QED
    BY <2>1 DEF Deleted
<1>5. \A j \in Indexers, s \in Slot : Covered(j, s)
  BY <1>3 DEF Covered, At, Job
<1> QED
  BY <1>1, <1>2, <1>4, <1>5 DEF Facts

LEMMA HurtStays ==
  ASSUME [Next]_vars, hurt
  PROVE  hurt'
<1>1. ASSUME UNCHANGED hurt PROVE hurt'
  BY <1>1
<1>2. ASSUME NEW s, NEW j, Fire(j, s) \/ Check(j, s) \/ CheckFails(j, s) \/ ApplyStep(j, s)
      PROVE  hurt'
  BY <1>2 DEF Fire, Check, CheckFails, ApplyStep, WriteRest, WriteRows, Advance, idle
<1>3. ASSUME NEW s, FillStep(s) \/ TipStart(s) PROVE hurt'
  BY <1>3 DEF FillStep, FillStart, FillMax, FillWalk, FillMark, TipStart, idle
<1>4. ASSUME NEW w, NEW after, Phase(w, after) PROVE hurt'
  BY <1>4 DEF Phase, DeleteBlocks, DeleteOthers, Rewind, Flush, Prune
<1>5. ASSUME NEW s, AdminStep(s) PROVE hurt'
  <2>1. CASE AdminWipe(s)
    BY <1>4, <2>1 DEF AdminWipe
  <2>2. CASE Claim(s) \/ SetRunning(s) \/ Lock(s) \/ Finish(s) \/ TaskFails(s) \/ Clear(s)
    BY <2>2 DEF Claim, SetRunning, Lock, Finish, TaskFails, Clear
  <2> QED
    BY <1>5, <2>1, <2>2 DEF AdminStep
<1>6. CASE CliWipe
  BY <1>4, <1>6 DEF CliWipe
<1>7. ASSUME NEW t, Ask(t) \/ CliStart(t) PROVE hurt'
  BY <1>7 DEF Ask, CliStart
<1>8. CASE Enqueue \/ Heartbeat \/ CliDies \/ Crash \/ Shutdown \/ Exit \/ Tick \/ UNCHANGED vars
  BY <1>8, Zenon DEF Enqueue, Heartbeat, CliDies, Crash, Shutdown, Exit, Tick, vars
<1> QED
  BY <1>2, <1>3, <1>5, <1>6, <1>7, <1>8 DEF Next, TickStep

(* A restart that trusts the cursor finds every height below it in every   *)
(* table, however many wipes, requests, ticks that overlap, crashes and    *)
(* shutdowns there were, unless a wipe deleted under a running tick or was *)
(* cut short while it did.                                                 *)
THEOREM CursorVouched == Safety => []Vouches
<1>1. Typed /\ Sound /\ [Next]_vars => Typed' /\ Sound'
  <2> SUFFICES ASSUME Typed, Sound, [Next]_vars PROVE Typed' /\ Sound'
    OBVIOUS
  <2>1. Typed'
    BY NextTyped
  <2>2. CASE hurt
    BY <2>1, <2>2, HurtStays DEF Sound
  <2>3. CASE ~hurt
    <3>1. Facts
      BY <2>3 DEF Sound
    <3>2. ASSUME NEW s \in Slot, FillStep(s) \/ TipStart(s) \/ \E j \in Indexers : ApplyStep(j, s)
          PROVE  Sound'
      BY <3>1, <3>2, FillSound, TipSound, ApplySound
    <3>3. ASSUME NEW s \in Slot, AdminStep(s) PROVE Sound'
      BY <3>1, <3>3, AdminSound
    <3>4. ASSUME NEW s \in Slot, NEW j \in Job, Fire(j, s) \/ Check(j, s) \/ CheckFails(j, s)
          PROVE  Sound'
      BY <3>1, <3>4, ScheduleSound
    <3> QED
      BY <2>1, <3>1, <3>2, <3>3, <3>4, OthersSound DEF Next, TickStep
  <2> QED
    BY <2>1, <2>2, <2>3
<1>2. Sound => Vouches
  BY DEF Sound, Facts, Deleting, Vouches
<1> QED
  BY <1>1, <1>2, InitTyped, InitSound, PTL DEF Safety
=============================================================================
