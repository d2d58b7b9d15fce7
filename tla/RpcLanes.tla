------------------------------- MODULE RpcLanes -------------------------------
(***************************************************************************)
(* lib/gridcoin.ts and services/indexer/AdaptiveLimits.ts: how calls to    *)
(* the daemon are let through, queued, refused, and what their outcome     *)
(* does to the calls that follow.  Time is counted in ticks: a timestamp   *)
(* in the code is here what is left until it no longer matters.            *)
(***************************************************************************)
EXTENDS Integers, FiniteSets, Sequences

CONSTANTS
  Capacity,         \* BACKFILL_CONCURRENCY: permits and ceiling of the limit
  MinConcurrency,   \* BACKFILL_CONCURRENCY_MIN
  MinSpan, MaxSpan, \* BACKFILL_FETCH_SPAN_MIN, BACKFILL_FETCH_SPAN
  RampThreshold,    \* BACKFILL_ADAPTIVE_RAMP_THRESHOLD
  Debounce, Quiet,  \* BACKFILL_ADAPTIVE_STRESS_DEBOUNCE_MS, ..._QUIET_MS
  BreakerThreshold, \* RPC_BREAKER_THRESHOLD; 0 disables the breakers
  Cooldown,         \* RPC_BREAKER_COOLDOWN_MS
  Job,              \* walks of the backfiller that may overlap
  Claims,           \* getVotingClaim, the other caller of heavyRpc
  MaxLive,          \* live calls under way
  MaxResume,        \* answered calls of one walk on their way to pump(); more are as good as these
  MaxFaults         \* calls that fail or time out

ASSUME LanesAssumption ==
  /\ Capacity \in Nat \ {0} /\ MinConcurrency \in 1 .. Capacity
  /\ MaxSpan \in Nat \ {0} /\ MinSpan \in 1 .. MaxSpan
  /\ RampThreshold \in Nat \ {0} /\ BreakerThreshold \in Nat
  /\ Debounce \in Nat /\ Quiet \in Nat /\ Cooldown \in Nat \ {0}
  /\ IsFiniteSet(Job) /\ Claims \notin Job
  /\ MaxLive \in Nat /\ MaxResume \in Nat \ {0} /\ MaxFaults \in Nat

Owner == Job \cup {Claims}
Breakers == {"live", "heavy"}

VARIABLES
  breaker,  \* RpcBreaker of each lane: state, failures, what is left of the cooldown
  limits,   \* AdaptiveLimits
  free,     \* Semaphore.available
  queue,    \* Semaphore.waiters, by owner
  calls,    \* heavy calls at the daemon, by owner
  resume,   \* fetchSpanCalls that have answered and are on their way to pump()
  current,  \* the walk whose promise the scheduler awaits, if any
  status,   \* the status of the cursor, which run() asks before it walks
  live,     \* live calls at the daemon
  faults

vars == <<breaker, limits, free, queue, calls, resume, current, status, live, faults>>

TypeOK ==
  /\ breaker \in [Breakers -> [state : {"closed", "open", "half-open"},
                               fails : 0 .. BreakerThreshold + MaxFaults, left : 0 .. Cooldown]]
  /\ limits \in [concurrency : MinConcurrency .. Capacity, span : MinSpan .. MaxSpan,
                 streak : 0 .. RampThreshold - 1, debounce : 0 .. Debounce, quiet : 0 .. Quiet]
  /\ free \in 0 .. Capacity /\ queue \in Seq(Owner) /\ calls \in [Owner -> Nat]
  /\ resume \in [Job -> 0 .. MaxResume] /\ current \in {{}} \cup {{j} : j \in Job}
  /\ status \in {"backfilling", "live"} /\ live \in 0 .. MaxLive /\ faults \in 0 .. MaxFaults

Init ==
  /\ breaker = [b \in Breakers |-> [state |-> "closed", fails |-> 0, left |-> 0]]
  /\ limits = [concurrency |-> Capacity, span |-> MaxSpan, streak |-> 0, debounce |-> 0, quiet |-> 0]
  /\ free = Capacity /\ queue = << >> /\ calls = [o \in Owner |-> 0]
  /\ resume = [j \in Job |-> 0] /\ current = {} /\ status = "backfilling"
  /\ live = 0 /\ faults = 0

-----------------------------------------------------------------------------
(* The breaker. *)

\* Bug: an open breaker waits for a success to close it, and lets no call through that could.
IsOpen_UntilSuccess(b) == breaker[b].state = "open"

IsOpen(b) == breaker[b].state = "open" /\ breaker[b].left > 0

\* precheck(): past the cooldown, every call is let through as a probe.
Probing(b) ==
  [breaker EXCEPT ![b].state = IF @ = "open" /\ breaker[b].left = 0 THEN "half-open" ELSE @]

RecordSuccess(b) == [breaker EXCEPT ![b].state = "closed", ![b].fails = 0]

Tripped(b, fails) == [breaker EXCEPT ![b] = [state |-> "open", fails |-> fails, left |-> Cooldown]]

RecordFailure(b) ==
  LET fails == breaker[b].fails + 1 IN
  IF BreakerThreshold = 0 THEN breaker
  ELSE IF breaker[b].state = "half-open" THEN Tripped(b, breaker[b].fails)
  ELSE IF fails >= BreakerThreshold THEN Tripped(b, fails)
  ELSE [breaker EXCEPT ![b].fails = fails]

-----------------------------------------------------------------------------
(* The adaptive limits. *)

Larger(a, b) == IF a > b THEN a ELSE b
Smaller(a, b) == IF a < b THEN a ELSE b

OnStress ==
  IF limits.debounce > 0
    THEN [limits EXCEPT !.quiet = Quiet, !.streak = 0]
    ELSE [concurrency |-> Larger(MinConcurrency, limits.concurrency \div 2),
          span |-> Larger(MinSpan, limits.span \div 2),
          streak |-> 0, debounce |-> Debounce, quiet |-> Quiet]

\* Bug: half of a span of one is nothing.
Ramped_ByHalf ==
  IF limits.concurrency < Capacity
    THEN [limits EXCEPT !.streak = 0, !.concurrency = @ + 1]
    ELSE [limits EXCEPT !.streak = 0, !.span = Smaller(MaxSpan, @ + @ \div 2)]

\* A step up: the width of the pipeline before the span, the span by half of itself.
Ramped ==
  IF limits.concurrency < Capacity
    THEN [limits EXCEPT !.streak = 0, !.concurrency = @ + 1]
    ELSE [limits EXCEPT !.streak = 0, !.span = Smaller(MaxSpan, @ + Larger(1, @ \div 2))]

OnSuccess ==
  IF limits.concurrency >= Capacity /\ limits.span >= MaxSpan THEN [limits EXCEPT !.streak = 0]
  ELSE IF limits.streak + 1 < RampThreshold THEN [limits EXCEPT !.streak = @ + 1]
  ELSE Ramped

-----------------------------------------------------------------------------
(* The semaphore, and the calls of the heavy lane. *)

Queued(o) == Cardinality({i \in DOMAIN queue : queue[i] = o})

InFlight(o) == calls[o] + Queued(o)

\* Bug: the lanes are independent, and the quiet window is for the limits only.
HeavyRefused_OwnLane == IsOpen("heavy")

\* Why a heavy call is refused, in the order of the code: the live lane is down, the
\* daemon is left alone after a stress, or this lane is down.
HeavyRefused == IsOpen("live") \/ limits.quiet > 0 \/ IsOpen("heavy")

\* n calls of o at once: as many as there are permits reach the daemon, the rest queue.
Acquire(o, n) ==
  LET now == Smaller(n, free) IN
  /\ breaker' = Probing("heavy")
  /\ free' = free - now
  /\ calls' = [calls EXCEPT ![o] = @ + now]
  /\ queue' = queue \o [i \in 1 .. n - now |-> o]

\* The permit of an answered call goes to the oldest waiter, if there is one.
Release(o) ==
  IF queue # << >>
    THEN /\ calls' = [[calls EXCEPT ![o] = @ - 1] EXCEPT ![Head(queue)] = @ + 1]
         /\ queue' = Tail(queue) /\ UNCHANGED free
    ELSE calls' = [calls EXCEPT ![o] = @ - 1] /\ free' = free + 1 /\ UNCHANGED queue

\* run() starts a walk, as long as the cursor says `backfilling`; an earlier walk may still
\* have calls under way.
StartWalk(j) ==
  /\ status = "backfilling" /\ current = {} /\ InFlight(j) = 0 /\ resume[j] = 0
  /\ current' = {j} /\ resume' = [resume EXCEPT ![j] = 1]
  /\ UNCHANGED <<breaker, limits, free, queue, calls, status, live, faults>>

\* pump() issues calls up to the limit as it is now, or to the last height of the walk,
\* which may come first.  A refused call rejects the walk.
Pump(j) ==
  LET room == limits.concurrency - InFlight(j) IN
  /\ resume[j] > 0 /\ resume' = [resume EXCEPT ![j] = @ - 1]
  /\ \/ UNCHANGED <<breaker, free, queue, calls, current>>
     \/ /\ ~HeavyRefused /\ \E n \in 1 .. room : Acquire(j, n)
        /\ UNCHANGED current
     \/ /\ room > 0 /\ HeavyRefused
        /\ current' = current \ {j}
        /\ UNCHANGED <<breaker, free, queue, calls>>
  /\ UNCHANGED <<limits, status, live, faults>>

\* Every height is fetched and every call has answered: markLive().
Finish(j) ==
  /\ current = {j} /\ InFlight(j) = 0 /\ resume[j] = 0
  /\ current' = {} /\ status' = "live"
  /\ UNCHANGED <<breaker, limits, free, queue, calls, resume, live, faults>>

\* TipFollower finds the index too far behind the daemon.
FallBehind ==
  /\ status = "live" /\ status' = "backfilling"
  /\ UNCHANGED <<breaker, limits, free, queue, calls, resume, current, live, faults>>

ClaimCall ==
  /\ InFlight(Claims) = 0 /\ ~HeavyRefused /\ Acquire(Claims, 1)
  /\ UNCHANGED <<limits, resume, current, status, live, faults>>

HeavySucceeds(o) ==
  /\ calls[o] > 0 /\ Release(o)
  /\ breaker' = RecordSuccess("heavy") /\ limits' = OnSuccess
  /\ resume' = IF o \in Job THEN [resume EXCEPT ![o] = Smaller(MaxResume, @ + 1)] ELSE resume
  /\ UNCHANGED <<current, status, live, faults>>

HeavyFails(o) ==
  /\ calls[o] > 0 /\ Release(o)
  /\ faults < MaxFaults /\ faults' = faults + 1
  /\ breaker' = RecordFailure("heavy") /\ limits' = OnStress
  /\ current' = current \ {o}
  /\ UNCHANGED <<resume, status, live>>

-----------------------------------------------------------------------------
(* The live lane: never queued, a stress signal when it fails, no ramp when it does not. *)

LiveCall ==
  /\ live < MaxLive /\ ~IsOpen("live")
  /\ live' = live + 1 /\ breaker' = Probing("live")
  /\ UNCHANGED <<limits, free, queue, calls, resume, current, status, faults>>

LiveSucceeds ==
  /\ live > 0 /\ live' = live - 1 /\ breaker' = RecordSuccess("live")
  /\ UNCHANGED <<limits, free, queue, calls, resume, current, status, faults>>

LiveFails ==
  /\ live > 0 /\ live' = live - 1
  /\ faults < MaxFaults /\ faults' = faults + 1
  /\ breaker' = RecordFailure("live") /\ limits' = OnStress
  /\ UNCHANGED <<free, queue, calls, resume, current, status>>

Tick ==
  LET Down(n) == Larger(0, n - 1) IN
  /\ breaker' = [b \in Breakers |-> [breaker[b] EXCEPT !.left = Down(@)]]
  /\ limits' = [limits EXCEPT !.debounce = Down(@), !.quiet = Down(@)]
  /\ <<breaker, limits>>' # <<breaker, limits>>
  /\ UNCHANGED <<free, queue, calls, resume, current, status, live, faults>>

-----------------------------------------------------------------------------
HeavyDone(o) == HeavySucceeds(o) \/ HeavyFails(o)
LiveDone == LiveSucceeds \/ LiveFails

Next ==
  \/ \E j \in Job : StartWalk(j) \/ Pump(j) \/ Finish(j)
  \/ FallBehind \/ ClaimCall \/ LiveCall \/ LiveDone \/ Tick
  \/ \E o \in Owner : HeavyDone(o)

Safety == Init /\ [][Next]_vars

\* Calls end within RPC_TIMEOUT_MS, time passes, the scheduler starts the backfiller and
\* polls the live lane.  Nobody has to ask for a claim or to fall behind, and a walk may
\* run out of heights at once: that heavy calls are made at all is not assumed.
Spec ==
  /\ Safety /\ WF_vars(Tick) /\ WF_vars(LiveCall) /\ WF_vars(LiveDone)
  /\ WF_vars(\E j \in Job : StartWalk(j))
  /\ \A j \in Job : WF_vars(Pump(j)) /\ WF_vars(Finish(j))
  /\ \A o \in Owner : WF_vars(HeavyDone(o))

-----------------------------------------------------------------------------
\* The heavy calls at the daemon: the i-th of o.
AtDaemon == {k \in Owner \X (1 .. Capacity) : k[2] <= calls[k[1]]}

\* The comment of Semaphore that `waiters[]` is bounded because the callers gate themselves:
\* whatever a walk was refused, lost or left behind, it has no more calls at the daemon and
\* in the queue than the configured maximum, so that only the calls of others queue.
SelfGated == \A o \in Owner : calls[o] + Queued(o) <= Capacity

LeftAlone == limits.quiet > 0 \/ \E b \in Breakers : IsOpen(b)

\* While the live lane is down, the drain window after a stress is open or the heavy lane
\* is down, no more heavy calls run than ran before, and nobody joins the queue.
DrainWindow == [][LeftAlone => Cardinality(AtDaemon') <= Cardinality(AtDaemon) /\ Len(queue') <= Len(queue)]_vars

Ramping == \E o \in Owner : HeavySucceeds(o)

\* However the faults of both lanes fell, once they are over the live breaker closes, and if
\* heavy calls keep succeeding the limits are back where they started.  Only a heavy success
\* raises them: a walk that reaches its last height first leaves them halved.
Recovers ==
  /\ <>[](breaker["live"].state = "closed")
  /\ []<><<Ramping>>_vars =>
       <>[](/\ limits.concurrency = Capacity /\ limits.span = MaxSpan
            /\ breaker["heavy"].state = "closed")

WalkProceeds == \E j \in Job : HeavySucceeds(j)

\* The heavy lane does not stay shut.  Refused walks are started again, a quiet window and
\* a cooldown end, whichever lane's faults opened them, and a probe gets through: an index
\* that stays in backfilling sees calls of its walks succeed again and again.
Reopens == <>[](status = "backfilling") => []<><<WalkProceeds>>_vars
=============================================================================
