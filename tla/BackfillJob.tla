----------------------------- MODULE BackfillJob -----------------------------
(***************************************************************************)
(* One walk of HistoricalBackfiller over the heights From .. To: the class *)
(* BackfillJob of services/indexer/HistoricalBackfiller.ts.  Spans of      *)
(* blocks are fetched concurrently from the daemon and arrive in any       *)
(* order; one drain() at a time parses them in height order and hands them *)
(* to BlockWriter.applyBlocks in groups.                                   *)
(*                                                                         *)
(* The code is single-threaded, so an action is what runs between two      *)
(* awaits.  `phase` is the await drain() is suspended at; a phase of       *)
(* "loop" or "tail" is a drain() that runs on without an await, and every  *)
(* other action waits for it (Calm).  `cooling` counts the fetch calls     *)
(* that are past drain() and have not called pump() yet: with              *)
(* BACKFILL_BATCH_DELAY_MS > 0 (cooldown) they sleep in between.           *)
(*                                                                         *)
(* A block is its height.  The limits that AdaptiveLimits moves between    *)
(* pumps are an arbitrary choice below their ceilings at each pump.        *)
(***************************************************************************)
EXTENDS Integers, Sequences, FiniteSets, SequencesExt

CONSTANTS
  From, To,          \* the range of the walk
  Concurrency,       \* BACKFILL_CONCURRENCY
  FetchSpan,         \* BACKFILL_FETCH_SPAN
  TxBatchSize,       \* BACKFILL_TX_BATCH_SIZE
  MaxUnderfills,     \* bound: answers with fewer blocks than asked for
  MaxRpcFaults,      \* bound: getBlocksBatch calls that fail
  MaxWriteFaults,    \* bound: awaits of drain() that throw
  MaxWipes,          \* bound: wipes started while the job lives
  MaxAborts          \* bound: calls of abort(); index.ts makes none

ASSUME BackfillAssumption ==
  /\ From \in Nat /\ To \in Nat /\ From <= To
  /\ {Concurrency, FetchSpan, TxBatchSize} \subseteq Nat \ {0}
  /\ {MaxUnderfills, MaxRpcFaults, MaxWriteFaults, MaxWipes, MaxAborts} \subseteq Nat

VARIABLES
  cooldown,     \* the deployment sets BACKFILL_BATCH_DELAY_MS > 0
  blocks,       \* the `blocks` table, as the heights it holds
  buffer,       \* this.blocks: fetched, not yet taken by the writer
  raw,          \* rawGroup, while its previous outputs are looked up
  pending,      \* this.pending: parsed, not yet handed to applyBlocks
  group,        \* the group applyBlocks is writing
  nextToWrite, nextToFetch,
  flights,      \* spans in flight, oldest first (inFlight is its length)
  cooling,      \* fetch calls between drain() and pump()
  phase,        \* where drain() is suspended; "idle" when none runs
  settled,      \* the promise of run()
  aborted, wipeAborted,
  wipe,         \* the wipe lock in Redis
  underfills, rpcFaults, writeFaults, wipes   \* counters for the bounds

walk == <<buffer, raw, pending, group, nextToWrite, phase>>
fetcher == <<nextToFetch, flights, cooling>>
flags == <<settled, aborted, wipeAborted, wipe>>
counters == <<underfills, rpcFaults, writeFaults, wipes>>
vars == <<cooldown, blocks, walk, fetcher, flags, counters>>

Heights == From .. To
Span == {s \in [start : Heights, count : 1 .. FetchSpan] :
           s.start + s.count - 1 <= To}
Phases == {"idle", "loop", "wipeCheck", "lookup", "flush",
           "eagerFlush", "tail", "finalFlush"}
Flushing == {"flush", "eagerFlush", "finalFlush"}
inFlight == Len(flights)

TypeOK ==
  /\ cooldown \in BOOLEAN
  /\ blocks \in SUBSET (0 .. To)
  /\ buffer \in SUBSET Heights /\ raw \in SUBSET Heights
  /\ pending \in SUBSET Heights /\ group \in SUBSET Heights
  /\ nextToWrite \in From .. To + 1 /\ nextToFetch \in From .. To + 1
  /\ flights \in Seq(Span) /\ cooling \in Nat
  /\ phase \in Phases
  /\ settled \in {"open", "resolved", "rejected"}
  /\ aborted \in BOOLEAN /\ wipeAborted \in BOOLEAN /\ wipe \in BOOLEAN
  /\ underfills \in 0 .. MaxUnderfills /\ rpcFaults \in 0 .. MaxRpcFaults
  /\ writeFaults \in 0 .. MaxWriteFaults /\ wipes \in 0 .. MaxWipes

(* run() calls pump() at once: a job starts as one call about to pump. *)
Init ==
  /\ cooldown \in BOOLEAN
  /\ blocks = 0 .. (From - 1)
  /\ buffer = {} /\ raw = {} /\ pending = {} /\ group = {}
  /\ nextToWrite = From /\ nextToFetch = From
  /\ flights = << >> /\ cooling = 1
  /\ phase = "idle" /\ settled = "open"
  /\ aborted = FALSE /\ wipeAborted = FALSE /\ wipe = FALSE
  /\ underfills = 0 /\ rpcFaults = 0 /\ writeFaults = 0 /\ wipes = 0

-----------------------------------------------------------------------------
(* Synchronous code runs to its next await before anything else happens.   *)
Running == phase \in {"loop", "tail"}
Calm == ~Running /\ (cooldown \/ cooling = 0)

(* A promise settles once; later calls of resolve and reject do nothing. *)
Settle(outcome) == settled' = IF settled = "open" THEN outcome ELSE settled

(* drain() returns to the fetch call that runs it, which goes on to pump(). *)
DrainReturns == phase' = "idle" /\ cooling' = cooling + 1

Lesser(a, b) == IF a < b THEN a ELSE b

-----------------------------------------------------------------------------
(* The fetcher.                                                            *)

(* The spans pump() issues for limits c and s: as many as fit below the    *)
(* concurrency limit and up to the end of the range.                       *)
SpansToIssue(c, s) ==
  LET room == IF c > inFlight THEN c - inFlight ELSE 0
      left == (To - nextToFetch + s) \div s
  IN  [i \in 1 .. Lesser(room, left) |->
         LET start == nextToFetch + (i - 1) * s
         IN  [start |-> start, count |-> Lesser(s, To - start + 1)]]

Pump ==
  /\ cooling > 0 /\ ~Running
  /\ cooling' = cooling - 1
  /\ IF aborted \/ wipeAborted
       THEN UNCHANGED <<flights, nextToFetch>>
       ELSE \E c \in 1 .. Concurrency, s \in 1 .. FetchSpan :
              LET issued == SpansToIssue(c, s)
              IN  /\ flights' = flights \o issued
                  /\ nextToFetch' = Lesser(nextToFetch + Len(issued) * s, To + 1)
  /\ UNCHANGED <<blocks, walk, flags, counters>>

(* A bug a change could introduce, which the properties below must catch:  *)
(* the missing tail is never asked for again.                              *)
Rewound_Never(span, k) == nextToFetch

(* fetchSpanCall() with an answer: the first k blocks of the span.  An     *)
(* under-fill rewinds nextToFetch.  drain() is entered at once; when one   *)
(* is running already, or a wipe cut the job off, it returns immediately.  *)
Rewound(span, k) ==
  IF k < span.count THEN Lesser(nextToFetch, span.start + k) ELSE nextToFetch

(* Bug: the drain() of an orphaned fetch runs although a wipe was seen.    *)
DrainRefused_IgnoresWipe == phase # "idle"

DrainRefused == phase # "idle" \/ wipeAborted

RpcReturns(i) ==
  \E k \in 0 .. flights[i].count :
    LET span == flights[i]
    IN  /\ Calm
        /\ k < span.count => underfills < MaxUnderfills
        /\ underfills' = IF k < span.count THEN underfills + 1 ELSE underfills
        /\ buffer' = buffer \cup (span.start .. span.start + k - 1)
        /\ nextToFetch' = Rewound(span, k)
        /\ flights' = RemoveAt(flights, i)
        /\ phase' = IF DrainRefused THEN phase ELSE "loop"
        /\ cooling' = IF DrainRefused THEN cooling + 1 ELSE cooling
        /\ UNCHANGED <<blocks, raw, pending, group, nextToWrite, flags,
                       rpcFaults, writeFaults, wipes>>

(* fetchSpanCall() with an error: the job is rejected, and this call ends  *)
(* without a drain(), a rewind or a pump().                                *)
RpcFails(i) ==
  /\ Calm /\ rpcFaults < MaxRpcFaults
  /\ rpcFaults' = rpcFaults + 1
  /\ flights' = RemoveAt(flights, i)
  /\ Settle("rejected")
  /\ UNCHANGED <<blocks, walk, nextToFetch, cooling, aborted, wipeAborted,
                 wipe, underfills, writeFaults, wipes>>

-----------------------------------------------------------------------------
(* The writer.                                                             *)

StartFlush(p) == /\ phase' = p
                 /\ group' = pending
                 /\ pending' = {}

(* Bug: done as soon as everything has been asked for.                     *)
Finished_WhenFetched == nextToFetch > To

Finished == nextToWrite > To /\ inFlight = 0 /\ nextToFetch > To
Stopped == aborted /\ inFlight = 0

(* The end of drain(): settle the job when the range is done or the abort  *)
(* has emptied the fetcher, after a last flush of what is parsed.          *)
Conclude ==
  IF (Finished \/ Stopped) /\ pending # {}
    THEN StartFlush("finalFlush") /\ UNCHANGED <<cooling, settled>>
    ELSE /\ IF Finished \/ Stopped THEN Settle("resolved") ELSE UNCHANGED settled
         /\ DrainReturns
         /\ UNCHANGED <<group, pending>>

EagerFlushDue ==
  pending # {} /\ inFlight = 0 /\ ~aborted /\ ~wipeAborted

(* The head of drain()'s while loop, and what follows when it ends. *)
DrainLoop ==
  /\ phase = "loop"
  /\ IF nextToWrite \in buffer
       THEN phase' = "wipeCheck" /\ UNCHANGED <<group, pending, cooling, settled>>
       ELSE IF EagerFlushDue
       THEN StartFlush("eagerFlush") /\ UNCHANGED <<cooling, settled>>
       ELSE Conclude
  /\ UNCHANGED <<blocks, buffer, raw, nextToWrite, nextToFetch, flights,
                 aborted, wipeAborted, wipe, counters>>

DrainTail ==
  /\ phase = "tail"
  /\ Conclude
  /\ UNCHANGED <<blocks, buffer, raw, nextToWrite, nextToFetch, flights,
                 aborted, wipeAborted, wipe, counters>>

(* isWipeInProgress() answered TRUE: drop everything and resolve. *)
WipeSeen ==
  /\ Calm /\ phase = "wipeCheck" /\ wipe
  /\ wipeAborted' = TRUE
  /\ Settle("resolved")
  /\ DrainReturns
  /\ UNCHANGED <<blocks, buffer, raw, pending, group, nextToWrite, nextToFetch,
                 flights, aborted, wipe, counters>>

(* isWipeInProgress() answered FALSE: take the longest run of consecutive  *)
(* blocks, at most TxBatchSize, and start looking up their inputs.         *)
Collect ==
  /\ Calm /\ phase = "wipeCheck" /\ ~wipe
  /\ \E end \in nextToWrite + 1 .. nextToWrite + TxBatchSize :
       /\ nextToWrite .. end - 1 \subseteq buffer
       /\ end = nextToWrite + TxBatchSize \/ end \notin buffer
       /\ raw' = nextToWrite .. end - 1
       /\ buffer' = buffer \ raw'
       /\ nextToWrite' = end
  /\ phase' = "lookup"
  /\ UNCHANGED <<blocks, pending, group, fetcher, flags, counters>>

(* Bug: the lookup knows the database and its own group only.              *)
VisibleOutputs_NotPending == blocks \cup raw

(* What an input of the raw group can be resolved against: rows of the     *)
(* table, outputs of the parsed blocks, outputs of the group itself.       *)
VisibleOutputs == blocks \cup pending \cup raw

BatchReady(parsed) == Cardinality(parsed) >= TxBatchSize \/ nextToWrite > To

(* Bug: only the newest group is flushed, and the pending one stays.       *)
Parse_NewestFirst ==
  /\ Calm /\ phase = "lookup"
  /\ raw' = {}
  /\ IF BatchReady(pending \cup raw)
       THEN phase' = "flush" /\ group' = raw /\ UNCHANGED pending
       ELSE phase' = "loop" /\ pending' = pending \cup raw /\ UNCHANGED group
  /\ UNCHANGED <<blocks, buffer, nextToWrite, fetcher, flags, counters>>

(* The lookup answered: parse the group and flush when there is enough.    *)
Parse ==
  /\ Calm /\ phase = "lookup"
  /\ raw' = {}
  /\ LET parsed == pending \cup raw
     IN  IF BatchReady(parsed)
           THEN phase' = "flush" /\ group' = parsed /\ pending' = {}
           ELSE phase' = "loop" /\ pending' = parsed /\ UNCHANGED group
  /\ UNCHANGED <<blocks, buffer, nextToWrite, fetcher, flags, counters>>

(* applyBlocks() wrote the group. *)
FlushDone ==
  /\ Calm /\ phase \in Flushing
  /\ blocks' = blocks \cup group
  /\ group' = {}
  /\ IF phase = "finalFlush"
       THEN Settle("resolved") /\ DrainReturns
       ELSE /\ phase' = IF phase = "flush" THEN "loop" ELSE "tail"
            /\ UNCHANGED <<cooling, settled>>
  /\ UNCHANGED <<buffer, raw, pending, nextToWrite, nextToFetch, flights,
                 aborted, wipeAborted, wipe, counters>>

(* An await of drain() or parseBlock() threw.  The blocks it had taken out *)
(* of the buffer are gone, but for those parsed before the one that failed.*)
(* A group counts as written when the error came after its `blocks` rows,  *)
(* from the cursor update of applyBlocks.                                  *)
DrainThrows ==
  /\ Calm /\ phase \in {"wipeCheck", "lookup"} \cup Flushing
  /\ writeFaults < MaxWriteFaults
  /\ writeFaults' = writeFaults + 1
  /\ blocks' \in {blocks, blocks \cup group}
  /\ IF phase = "lookup"
       THEN \E bad \in raw : pending' = pending \cup {h \in raw : h < bad}
       ELSE UNCHANGED pending
  /\ raw' = {} /\ group' = {}
  /\ Settle("rejected")
  /\ DrainReturns
  /\ UNCHANGED <<buffer, nextToWrite, nextToFetch, flights,
                 aborted, wipeAborted, wipe, underfills, rpcFaults, wipes>>

-----------------------------------------------------------------------------
(* The outside: HistoricalBackfiller.abort() and the wipe lock.            *)

Abort ==
  /\ Calm /\ ~aborted /\ MaxAborts > 0
  /\ aborted' = TRUE
  /\ UNCHANGED <<blocks, walk, fetcher, settled, wipeAborted, wipe, counters>>

WipeStarts ==
  /\ Calm /\ ~wipe /\ wipes < MaxWipes
  /\ wipe' = TRUE /\ wipes' = wipes + 1
  /\ UNCHANGED <<blocks, walk, fetcher, settled, aborted, wipeAborted,
                 underfills, rpcFaults, writeFaults>>

WipeEnds ==
  /\ Calm /\ wipe
  /\ wipe' = FALSE
  /\ UNCHANGED <<blocks, walk, fetcher, settled, aborted, wipeAborted, counters>>

(* No call in flight, asleep or in drain(): nothing runs on by itself. *)
Quiescent == flights = << >> /\ cooling = 0 /\ phase = "idle"

Done == Quiescent /\ UNCHANGED vars

Work ==
  \/ Pump
  \/ \E i \in 1 .. inFlight : RpcReturns(i)
  \/ DrainLoop \/ DrainTail \/ WipeSeen \/ Collect \/ Parse \/ FlushDone

Next ==
  /\ \/ Work
     \/ \E i \in 1 .. inFlight : RpcFails(i)
     \/ DrainThrows
     \/ Abort \/ WipeStarts \/ WipeEnds
     \/ Done
  /\ UNCHANGED cooldown

Safety == Init /\ [][Next]_vars

(* The event loop runs on: every call that was started answers in the end  *)
(* (an RPC within RPC_TIMEOUT_MS) and every timer of a cooldown fires.     *)
Spec == Safety /\ WF_vars(Work /\ UNCHANGED cooldown)

-----------------------------------------------------------------------------
(* Properties.                                                             *)

Contiguous(table) == \A h \in table : 0 .. h \subseteq table

(* Until an await of drain() throws, the `blocks` table has no hole: a     *)
(* restart at any moment may resume from max(height) + 1, as run() does,   *)
(* however the spans arrive and whatever aborts, fails or is wiped.        *)
ContiguousUntilFault == writeFaults = 0 => Contiguous(blocks)

(* When the inputs of a group are looked up, every block below each of its *)
(* blocks is visible to the lookup, written, parsed or in the group: no    *)
(* input stays unresolved because its block is still on the way.           *)
LookupComplete ==
  (writeFaults = 0 /\ phase = "lookup") =>
    \A h \in raw : 0 .. h \subseteq VisibleOutputs

(* A job that resolves, neither aborted nor cut off by a wipe, has written *)
(* the whole range: run() then hands over to TipFollower.                  *)
ResolvedMeansComplete ==
  (settled = "resolved" /\ ~aborted /\ ~wipeAborted) => blocks = 0 .. To

(* A job that saw the wipe lock writes no row and starts no fetch any more,*)
(* even when spans arrive after the wipe is over.                          *)
SilentAfterWipe ==
  [][wipeAborted => blocks' = blocks /\ Len(flights') <= Len(flights)]_vars

(* Without a cooldown the promise of run() settles: the scheduled job never*)
(* hangs, which would keep its single-flight flag set for good.            *)
Settles == <>(cooldown \/ settled # "open")

(* The job implements IndexedChain: the table grows at its top, group by   *)
(* group, until an await of drain() throws.                                *)
Chain == INSTANCE IndexedChain WITH intact <- (writeFaults = 0)
ImplementsChain == Chain!Spec
=============================================================================
