----------------------------- MODULE Maintenance -----------------------------
(***************************************************************************)
(* How the jobs are started, paused and stopped, and what a wipe does      *)
(* under them: lib/schedule.ts, lib/shutdown.ts, the admin bus and its     *)
(* watcher, the wipe lock, scripts/wipeExplorer.ts run by the watcher or   *)
(* by hand, and of the indexer what has to take up again afterwards.  The  *)
(* daemon's chain is at rest: reorganisations are ChainSync's.             *)
(***************************************************************************)
EXTENDS Integers, FiniteSets, FiniteSetsExt

CONSTANTS
  Tip,            \* the daemon's tip
  Safe,           \* SAFE_CONFIRMATIONS
  LagThreshold,   \* LAG_THRESHOLD_FOR_REBACKFILL
  LockTTL,        \* ticks until a wipe lock expires
  Slot,           \* ticks of one job that may be under way
  MaxEvents,      \* admin tasks, wipes by hand, timers that fall into the lock check of another tick
  MaxFaults       \* crashes, shutdowns, failed statements of a wipe, Redis flakes

ASSUME MaintenanceAssumption ==
  /\ Tip \in Nat \ {0} /\ Safe \in 0 .. Tip /\ LagThreshold \in Nat /\ LockTTL \in Nat \ {0}
  /\ IsFiniteSet(Slot)
  /\ MaxEvents \in Nat /\ MaxFaults \in Nat

Heights == 0 .. Tip
Indexers == {"fill", "tip"}
Job == Indexers \cup {"admin"}
None == -1
Full == -2                   \* the full wipe
Other == -3                  \* a task that is no wipe
Wipes == {Full} \cup Heights  \* a height: the partial wipe from there
Task == {Other} \cup Wipes
Unset == "unset"
Larger(a, b) == IF a > b THEN a ELSE b
NoCursor == [height |-> -1, status |-> "backfilling"]
Off == [pc |-> "off", h |-> -1, task |-> None]

VARIABLES
  rows, rest,     \* heights in `blocks`, and in every other chain table
  cursor, lock,   \* Redis: the cursor, ticks left of the wipe lock
  request, status,\* Redis: admin:req, admin:status
  asking,         \* a requester between its look at the status and its SET NX
  tick,           \* the ticks of each job
  running,        \* the flag of schedule()
  stopping,       \* shuttingDown
  cli,            \* the wipe by hand, a process of its own
  hurt,           \* a wipe was cut short, deleted under a tick of the indexer, or genesis was skipped
  events, faults

redis == <<cursor, lock, request, status>>
tables == <<rows, rest>>
process == <<tick, running, stopping>>
counters == <<events, faults>>
vars == <<tables, redis, asking, process, cli, hurt, counters>>

Phases == {"delete", "deleteRest", "rewind", "flush", "meili", "finish", "clear"}
TypeOK ==
  /\ rows \subseteq Heights /\ rest \subseteq Heights
  /\ cursor \in [height : -1 .. Tip, status : {"live", "backfilling"}]
  /\ lock \in 0 .. LockTTL /\ request \in Task \cup {None} /\ asking \in Task \cup {None}
  /\ status \in {Unset, "running", "done", "error"}
  /\ tick \in [Job \X Slot -> [pc : {"off", "check", "start", "max", "walk", "rest", "rows", "cursor",
                                     "mark", "claimed", "locked", "grace"} \cup Phases,
                               h : -1 .. Tip, task : Task \cup {None}]]
  /\ running \in [Job -> BOOLEAN] /\ stopping \in BOOLEAN /\ hurt \in BOOLEAN
  /\ cli \in [pc : {"off", "grace"} \cup Phases, h : {-1}, task : Wipes \cup {None}]
  /\ events \in 0 .. MaxEvents /\ faults \in 0 .. MaxFaults

\* An index that is complete and live, and one that was never begun.
Init ==
  /\ \/ rows = Heights /\ cursor = [height |-> Tip, status |-> "live"]
     \/ rows = {} /\ cursor = NoCursor
  /\ rest = rows /\ lock = 0 /\ request = None /\ status = Unset /\ asking = None
  /\ tick = [s \in Job \X Slot |-> Off] /\ running = [j \in Job |-> FALSE]
  /\ stopping = FALSE /\ cli = Off /\ hurt = FALSE /\ events = 0 /\ faults = 0

-----------------------------------------------------------------------------
(* schedule(). *)

At(j, s, pc) == tick[<<j, s>>].pc = pc
Goto(j, s, pc) == tick' = [tick EXCEPT ![<<j, s>>].pc = pc] /\ UNCHANGED <<running, stopping>>
Move(j, s, pc, h) ==
  tick' = [tick EXCEPT ![<<j, s>>] = [pc |-> pc, h |-> h, task |-> @.task]] /\ UNCHANGED <<running, stopping>>
Active(j, s) == tick[<<j, s>>].pc \notin {"off", "check"}

\* The tick is over, normally or because its job threw.
End(j, s) ==
  /\ tick' = [tick EXCEPT ![<<j, s>>] = Off]
  /\ running' = [running EXCEPT ![j] = FALSE] /\ UNCHANGED stopping

\* A timer of job j: the interval, or the first tick, which may fall on the interval.
Fire(j, s) ==
  /\ At(j, s, "off") /\ ~running[j] /\ ~stopping
  /\ s = CHOOSE r \in Slot : At(j, r, "off")
  /\ IF \E r \in Slot : At(j, r, "check")
       THEN events < MaxEvents /\ events' = events + 1
       ELSE UNCHANGED events
  /\ Goto(j, s, "check") /\ UNCHANGED <<tables, redis, asking, cli, hurt, faults>>

Destroying(w) == w.pc \in {"delete", "deleteRest", "rewind", "flush"}
Wipers == {cli} \cup {tick[<<"admin", s>>] : s \in Slot}

\* A tick of j that starts now would write while a wipe deletes.
LetIn(j) == j \in Indexers /\ \E w \in Wipers : Destroying(w)

\* The answer to the lock check.  Neither the flag nor the shutdown is looked at again.
Check(j, s) ==
  /\ At(j, s, "check")
  /\ IF lock > 0 THEN Goto(j, s, "off") ELSE
       /\ tick' = [tick EXCEPT ![<<j, s>>].pc = "start"]
       /\ running' = [running EXCEPT ![j] = TRUE] /\ UNCHANGED stopping
  /\ hurt' = (hurt \/ (lock = 0 /\ LetIn(j)))
  /\ UNCHANGED <<tables, redis, asking, cli, counters>>

\* The check fails: "proceed on the assumption that no wipe is happening".
CheckFails(j, s) ==
  /\ At(j, s, "check") /\ faults < MaxFaults /\ faults' = faults + 1
  /\ tick' = [tick EXCEPT ![<<j, s>>].pc = "start"]
  /\ running' = [running EXCEPT ![j] = TRUE]
  /\ hurt' = (hurt \/ LetIn(j))
  /\ UNCHANGED <<tables, redis, asking, stopping, cli, events>>

-----------------------------------------------------------------------------
(* The backfiller: run(), the walk with its look at the lock, markLive(). *)

idle == <<redis, asking, cli, hurt, counters>>
Here(j, s) == tick[<<j, s>>].h

\* The cursor moves with the status it has.
SetHeight(h) == cursor' = [cursor EXCEPT !.height = h] /\ UNCHANGED <<lock, request, status>>
SetStatus(st) == cursor' = [height |-> Larger(0, cursor.height), status |-> st]
                 /\ UNCHANGED <<lock, request, status>>

FillStart(s) ==
  /\ At("fill", s, "start")
  /\ IF cursor.status = "live" THEN End("fill", s) ELSE Move("fill", s, "max", cursor.height)
  /\ UNCHANGED <<tables, idle>>

\* Resume above the highest row or the cursor, whichever is higher.
FillMax(s) ==
  LET top == Max(rows \cup {-1}) IN
  /\ At("fill", s, "max")
  /\ IF top > Here("fill", s)
       THEN SetHeight(top) /\ Move("fill", s, "walk", top)
       ELSE Goto("fill", s, "walk") /\ UNCHANGED redis
  /\ UNCHANGED <<tables, asking, cli, hurt, counters>>

\* A wipe ends the walk like its last block does: run() goes on to markLive().
FillWalk(s) ==
  /\ At("fill", s, "walk")
  /\ IF lock > 0 \/ Here("fill", s) >= Tip - Safe
       THEN Goto("fill", s, "mark") ELSE Goto("fill", s, "rest")
  /\ UNCHANGED <<tables, idle>>

FillMark(s) ==
  /\ At("fill", s, "mark") /\ SetStatus("live") /\ End("fill", s)
  /\ hurt' = (hurt \/ cursor = NoCursor)
  /\ UNCHANGED <<tables, asking, cli, counters>>

-----------------------------------------------------------------------------
(* TipFollower.tick(), and applyBlocks for both jobs. *)

TipStart(s) ==
  LET lag == Tip - cursor.height
      follows == cursor = NoCursor \/ cursor.status = "live"
  IN
  /\ At("tip", s, "start")
  /\ \/ /\ ~follows \/ lag <= 0
        /\ End("tip", s) /\ UNCHANGED redis
     \/ /\ follows /\ lag > LagThreshold /\ End("tip", s)
        /\ IF cursor = NoCursor THEN UNCHANGED redis ELSE SetStatus("backfilling")
     \/ /\ follows /\ lag \in 1 .. LagThreshold
        /\ Move("tip", s, "rest", cursor.height) /\ UNCHANGED redis
  /\ UNCHANGED <<tables, asking, cli, hurt, counters>>

WriteRest(j, s) ==
  /\ At(j, s, "rest") /\ rest' = rest \cup {Here(j, s) + 1} /\ UNCHANGED rows
  /\ Goto(j, s, "rows") /\ UNCHANGED idle

WriteRows(j, s) ==
  /\ At(j, s, "rows") /\ rows' = rows \cup {Here(j, s) + 1} /\ UNCHANGED rest
  /\ Goto(j, s, "cursor") /\ UNCHANGED idle

Advance(j, s) ==
  LET h == Here(j, s) + 1 IN
  /\ At(j, s, "cursor") /\ SetHeight(h)
  /\ \/ j = "fill" /\ Move(j, s, "walk", h)
     \/ j = "tip" /\ IF h < Tip THEN Move(j, s, "rest", h) ELSE End(j, s)
  /\ UNCHANGED <<tables, asking, cli, hurt, counters>>

-----------------------------------------------------------------------------
(* The admin bus. *)

\* requestAdminTask: the status is read, then the request is set unless one is queued.
Ask(t) ==
  /\ asking = None /\ events < MaxEvents /\ events' = events + 1
  /\ status # "running" /\ asking' = t
  /\ UNCHANGED <<tables, redis, process, cli, hurt, faults>>

Enqueue ==
  /\ asking # None /\ asking' = None
  /\ request' = IF request = None THEN asking ELSE request
  /\ UNCHANGED <<tables, cursor, lock, status, process, cli, hurt, counters>>

Claim(s) ==
  /\ At("admin", s, "start")
  /\ IF request = None THEN End("admin", s) /\ UNCHANGED redis ELSE
       /\ request' = None /\ UNCHANGED <<cursor, lock, status>>
       /\ tick' = [tick EXCEPT ![<<"admin", s>>] = [pc |-> "claimed", h |-> @.h, task |-> request]]
       /\ UNCHANGED <<running, stopping>>
  /\ UNCHANGED <<tables, asking, cli, hurt, counters>>

\* Only a wipe pauses the jobs; the other tasks write next to them (AddressState).
SetRunning(s) ==
  /\ At("admin", s, "claimed") /\ status' = "running" /\ UNCHANGED <<cursor, lock, request>>
  /\ Goto("admin", s, IF tick[<<"admin", s>>].task \in Wipes THEN "locked" ELSE "finish")
  /\ UNCHANGED <<tables, asking, cli, hurt, counters>>

SetWipeLock == lock' = LockTTL /\ UNCHANGED <<cursor, request, status>>

Lock(s) ==
  /\ At("admin", s, "locked") /\ SetWipeLock /\ Goto("admin", s, "grace")
  /\ UNCHANGED <<tables, asking, cli, hurt, counters>>

-----------------------------------------------------------------------------
(* runWipe, as the phases of a process w: what it does, and the phase that follows. *)

Paused == \A j \in Indexers, s \in Slot : ~Active(j, s)

\* The watcher sleeps, and the wipe by hand waits for the cursor to rest, up to a deadline:
\* neither asks whether the batch in flight has landed.
GraceOver(w) == w.pc = "grace"

First(w) == IF w.task = Full THEN "delete" ELSE "meili"

\* DELETE FROM every table in turn, or from a height on, `blocks` first.  (The tables of a full
\* wipe come in no order; one cut short between them is hurt, whatever is gone.)
DeleteBlocks(w, after) ==
  /\ w.pc = "delete" /\ after = "deleteRest" /\ hurt' = (hurt \/ ~Paused)
  /\ rows' = IF w.task = Full THEN {} ELSE {h \in rows : h < w.task}
  /\ UNCHANGED <<rest, redis>>

DeleteOthers(w, after) ==
  /\ w.pc = "deleteRest" /\ after = IF w.task = Full THEN "flush" ELSE "rewind"
  /\ rest' = IF w.task = Full THEN {} ELSE {h \in rest : h < w.task}
  /\ UNCHANGED <<rows, redis, hurt>>

\* There is no block below the height of a partial wipe: it throws.
NoSurvivor(w) == w.pc = "rewind" /\ w.task > 0 /\ w.task - 1 \notin rows

\* Bug: back to the first block that was deleted.
Rewind_OffByOne(w, after) ==
  /\ w.pc = "rewind" /\ after = "finish" /\ ~NoSurvivor(w)
  /\ cursor' = [height |-> w.task, status |-> "backfilling"]
  /\ UNCHANGED <<tables, lock, request, status, hurt>>

\* Back to the last surviving block; a wipe from 0 leaves no cursor.
Rewind(w, after) ==
  /\ w.pc = "rewind" /\ after = "finish" /\ ~NoSurvivor(w)
  /\ cursor' = [height |-> w.task - 1, status |-> "backfilling"]
  /\ UNCHANGED <<tables, lock, request, status, hurt>>

\* The whole namespace goes: cursor, lock, queued request, status.
Flush(w, after) ==
  /\ w.pc = "flush" /\ after = "meili"
  /\ cursor' = NoCursor /\ lock' = 0 /\ request' = None /\ status' = Unset
  /\ UNCHANGED <<tables, hurt>>

\* The search documents: before the tables of a partial wipe, whose rows name them.
Prune(w, after) ==
  /\ w.pc = "meili" /\ after = IF w.task = Full THEN "finish" ELSE "delete"
  /\ UNCHANGED <<tables, redis, hurt>>

Phase(w, after) ==
  \/ DeleteBlocks(w, after) \/ DeleteOthers(w, after) \/ Rewind(w, after)
  \/ Flush(w, after) \/ Prune(w, after)

-----------------------------------------------------------------------------
(* The wipe of the watcher, inside the explorer. *)

Wiper(s) == tick[<<"admin", s>>]

AdminWipe(s) ==
  /\ \/ GraceOver(Wiper(s)) /\ Goto("admin", s, First(Wiper(s))) /\ UNCHANGED <<tables, redis, hurt>>
     \/ \E after \in Phases : Phase(Wiper(s), after) /\ Goto("admin", s, after)
  /\ UNCHANGED <<asking, cli, counters>>

Finish(s) ==
  /\ At("admin", s, "finish") /\ status' = "done" /\ UNCHANGED <<cursor, lock, request>>
  /\ IF Wiper(s).task \in Wipes THEN Goto("admin", s, "clear") ELSE End("admin", s)
  /\ UNCHANGED <<tables, asking, cli, hurt, counters>>

\* A statement of the task throws: the status says so, and the lock is released.
TaskFails(s) ==
  /\ \/ Wiper(s).pc \in Phases \ {"clear"} /\ faults < MaxFaults /\ faults' = faults + 1
     \/ NoSurvivor(Wiper(s)) /\ UNCHANGED faults
  /\ status' = "error" /\ UNCHANGED <<cursor, lock, request>>
  /\ hurt' = (hurt \/ Destroying(Wiper(s)))
  /\ IF Wiper(s).task \in Wipes THEN Goto("admin", s, "clear") ELSE End("admin", s)
  /\ UNCHANGED <<tables, asking, cli, events>>

Clear(s) ==
  /\ At("admin", s, "clear") /\ lock' = 0 /\ UNCHANGED <<cursor, request, status>>
  /\ End("admin", s) /\ UNCHANGED <<tables, asking, cli, hurt, counters>>

-----------------------------------------------------------------------------
(* The wipe by hand: its own process, with a heartbeat that renews the lock. *)

NoWipe == \A w \in Wipers : w.pc \notin Phases \cup {"locked", "grace"} /\ w.task \notin Wipes

CliStart(t) ==
  /\ cli = Off /\ NoWipe /\ request \notin Wipes /\ asking \notin Wipes
  /\ events < MaxEvents /\ events' = events + 1
  /\ SetWipeLock /\ cli' = [pc |-> "grace", h |-> -1, task |-> t]
  /\ UNCHANGED <<tables, asking, process, hurt, faults>>

CliWipe ==
  /\ \/ GraceOver(cli) /\ cli' = [cli EXCEPT !.pc = First(cli)] /\ UNCHANGED <<tables, redis, hurt>>
     \/ \E after \in Phases : Phase(cli, after) /\ cli' = [cli EXCEPT !.pc = after]
     \/ /\ cli.pc = "finish" /\ cli' = Off /\ lock' = 0
        /\ UNCHANGED <<tables, cursor, request, status, hurt>>
  /\ UNCHANGED <<asking, process, counters>>

Heartbeat ==
  /\ cli # Off /\ lock < LockTTL /\ SetWipeLock
  /\ UNCHANGED <<tables, asking, process, cli, hurt, counters>>

\* It dies, or throws: the lock is left to expire.
CliDies ==
  /\ cli # Off
  /\ \/ faults < MaxFaults /\ faults' = faults + 1
     \/ NoSurvivor(cli) /\ UNCHANGED faults
  /\ hurt' = (hurt \/ Destroying(cli)) /\ cli' = Off
  /\ UNCHANGED <<tables, redis, asking, process, events>>

-----------------------------------------------------------------------------
Dead == [s \in Job \X Slot |-> Off]

\* The explorer dies and is started again.
Crash ==
  /\ faults < MaxFaults /\ faults' = faults + 1
  /\ hurt' = (hurt \/ \E s \in Slot : Destroying(Wiper(s)))
  /\ tick' = Dead /\ running' = [j \in Job |-> FALSE] /\ stopping' = FALSE
  /\ UNCHANGED <<tables, redis, asking, cli, events>>

\* requestShutdown: no timer fires any more; the ticks under way are waited for.
Shutdown ==
  /\ ~stopping /\ faults < MaxFaults /\ faults' = faults + 1 /\ stopping' = TRUE
  /\ UNCHANGED <<tables, redis, asking, tick, running, cli, hurt, events>>

\* The drain is over, and with it the process; a tick still in its lock check was not waited
\* for.  (A drain that times out is a Crash.)
Exit ==
  /\ stopping /\ \A j \in Job, s \in Slot : ~Active(j, s)
  /\ tick' = Dead /\ running' = [j \in Job |-> FALSE] /\ stopping' = FALSE
  /\ UNCHANGED <<tables, redis, asking, cli, hurt, counters>>

\* Bug: the lock is set without a time to live.
Tick_NoExpiry == FALSE /\ UNCHANGED vars

Tick ==
  /\ lock > 0 /\ lock' = lock - 1
  /\ UNCHANGED <<tables, cursor, request, status, asking, process, cli, hurt, counters>>

-----------------------------------------------------------------------------
FillStep(s) == FillStart(s) \/ FillMax(s) \/ FillWalk(s) \/ FillMark(s)
ApplyStep(j, s) == WriteRest(j, s) \/ WriteRows(j, s) \/ Advance(j, s)
AdminStep(s) ==
  Claim(s) \/ SetRunning(s) \/ Lock(s) \/ AdminWipe(s) \/ Finish(s) \/ TaskFails(s) \/ Clear(s)

TickStep(s) ==
  \/ \E j \in Job : Check(j, s)
  \/ FillStep(s) \/ TipStart(s) \/ AdminStep(s)
  \/ \E j \in Indexers : ApplyStep(j, s)

Next ==
  \/ \E s \in Slot : TickStep(s) \/ \E j \in Job : Fire(j, s) \/ CheckFails(j, s)
  \/ \E t \in Task : Ask(t)
  \/ \E t \in Wipes : CliStart(t)
  \/ Enqueue \/ CliWipe \/ Heartbeat \/ CliDies \/ Crash \/ Shutdown \/ Exit \/ Tick

Safety == Init /\ [][Next]_vars

\* Timers fire again and again, what a tick awaits answers, time passes; a wipe by hand goes on.
Spec ==
  /\ Safety /\ WF_vars(Tick) /\ WF_vars(CliWipe \/ (NoSurvivor(cli) /\ CliDies)) /\ WF_vars(Exit)
  /\ \A j \in Job : WF_vars(\E s \in Slot : Fire(j, s))
  /\ \A s \in Slot : /\ \A j \in Job : WF_vars(Check(j, s))
                     /\ WF_vars(FillStep(s) \/ ApplyStep("fill", s))
                     /\ WF_vars(TipStart(s) \/ ApplyStep("tip", s))
                     /\ WF_vars(AdminStep(s))

-----------------------------------------------------------------------------
\* A wipe that has begun to delete and has not yet put the cursor back.
Deleted(w) == w.pc \in {"deleteRest", "rewind", "flush"}

\* A restart resumes from the cursor.  Whoever wipes from where, whichever ticks overlap, and
\* wherever the process dies: every height the cursor covers is in every table, except while
\* a wipe is on its way from the rows to the cursor, and except for what hurt records.
Vouches ==
  \/ hurt \/ \E w \in Wipers : Deleted(w)
  \/ 0 .. cursor.height \subseteq rows \cap rest

\* Whatever was wiped, from where, by whom, and whoever crashed, skipped or was stopped
\* meanwhile, with ticks of one job that overlap: the index becomes complete and live again.
\* The exceptions are recorded in hurt: a wipe cut short while it deletes leaves a cursor that
\* vouches for rows that are gone; so does a batch that was in flight when the wipe began to
\* delete, or was let in past an expired lock; and a walk that a full wipe ends marks the
\* empty index live at height 0, so that genesis is skipped.
Rebuilt ==
  <>[](hurt \/ (/\ rows = Heights /\ rest = Heights
                /\ cursor = [height |-> Tip, status |-> "live"]))
=============================================================================
