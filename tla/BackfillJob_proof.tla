-------------------------- MODULE BackfillJob_proof --------------------------
(***************************************************************************)
(* For every range, concurrency, span and batch size, and any number of    *)
(* under-fills, failed RPCs, wipes and aborts: until an await of drain()   *)
(* throws, the `blocks` table has no hole and every lookup is complete.    *)
(*                                                                         *)
(* Neither property is inductive.  The invariant behind both, Pipeline,    *)
(* says that the four places a block passes through on its way into the    *)
(* table hold, between them, exactly the heights below nextToWrite, each   *)
(* place only heights above those of the place after it.  The fetcher does *)
(* not appear: what arrives, in which order, cannot matter.                *)
(***************************************************************************)
EXTENDS BackfillJob, TLAPS, SequenceTheorems

LEMMA Parameters ==
  /\ From \in Nat /\ To \in Nat /\ From <= To
  /\ Concurrency \in Nat \ {0} /\ FetchSpan \in Nat \ {0} /\ TxBatchSize \in Nat \ {0}
  /\ MaxUnderfills \in Nat /\ MaxRpcFaults \in Nat
  /\ MaxWriteFaults \in Nat /\ MaxWipes \in Nat
  BY BackfillAssumption DEF BackfillAssumption

USE Parameters

(* All heights of S are below all of T. *)
Below(S, T) == \A s \in S, t \in T : s < t

Pipeline ==
  /\ blocks \cup group \cup pending \cup raw = 0 .. nextToWrite - 1
  /\ Below(blocks, group \cup pending \cup raw)
  /\ Below(group, pending \cup raw)
  /\ Below(pending, raw)

(* Which of the places may be in use at each await of drain(). *)
PlacesUsed ==
  /\ group # {} => phase \in Flushing
  /\ raw # {} => phase = "lookup"

IInv == TypeOK /\ PlacesUsed /\ (writeFaults = 0 => Pipeline)

-----------------------------------------------------------------------------
(* The flights stay a sequence of spans.                                   *)

LEMMA DivBound ==
  ASSUME NEW a \in Nat, NEW s \in Nat \ {0}
  PROVE  a \div s \in Nat /\ (a \div s) * s <= a
  BY Z3

LEMMA TimesMonotone ==
  ASSUME NEW i \in Nat, NEW j \in Nat, NEW s \in Nat, i <= j
  PROVE  i * s \in Nat /\ i * s <= j * s
  BY Z3

LEMMA TimesPred ==
  ASSUME NEW i \in Nat, NEW s \in Nat
  PROVE  (i - 1) * s = i * s - s
  BY Z3

LEMMA FunctionIsSeq ==
  ASSUME NEW n \in Nat, NEW S, NEW f \in [1 .. n -> S]
  PROVE  f \in Seq(S) /\ Len(f) = n
  BY SMT

LEMMA SpanInRange ==
  ASSUME NEW s \in Span
  PROVE  /\ s.start \in From .. To /\ s.count \in 1 .. FetchSpan
         /\ s.start + s.count - 1 <= To
  BY DEF Span, Heights

LEMMA RemoveFlight ==
  ASSUME NEW s \in Seq(Span), NEW i \in 1 .. Len(s)
  PROVE  RemoveAt(s, i) \in Seq(Span)
<1>1. SubSeq(s, 1, i - 1) \in Seq(Span)
  BY LenProperties, SubSeqProperties, ElementOfSeq, SMT
<1>2. SubSeq(s, i + 1, Len(s)) \in Seq(Span)
  BY LenProperties, SubSeqProperties, ElementOfSeq, SMT
<1> QED
  BY <1>1, <1>2, ConcatProperties DEF RemoveAt

(* pump() only issues spans inside the range: the quotient in SpansToIssue *)
(* never counts one that would start behind it.                            *)
LEMMA IssuedSpans ==
  ASSUME nextToFetch \in From .. To + 1, flights \in Seq(Span),
         NEW c \in 1 .. Concurrency, NEW s \in 1 .. FetchSpan
  PROVE  /\ SpansToIssue(c, s) \in Seq(Span)
         /\ Len(SpansToIssue(c, s)) * s \in Nat
<1> DEFINE room == IF c > inFlight THEN c - inFlight ELSE 0
           left == (To - nextToFetch + s) \div s
           n == Lesser(room, left)
           start(i) == nextToFetch + (i - 1) * s
<1>1. inFlight \in Nat
  BY LenProperties DEF inFlight
<1>2. left \in Nat /\ left * s <= To - nextToFetch + s
  <2>1. To - nextToFetch + s \in Nat /\ s \in Nat \ {0}
    OBVIOUS
  <2> HIDE DEF left
  <2> QED
    BY <2>1, DivBound DEF left
<1> HIDE DEF left
<1>3. n \in Nat /\ n <= left
  BY <1>1, <1>2 DEF Lesser
<1> HIDE DEF n
<1>4. ASSUME NEW i \in 1 .. n
      PROVE  [start |-> start(i), count |-> Lesser(s, To - start(i) + 1)] \in Span
  <2>1. i * s \in Nat /\ i * s <= left * s
    BY <1>2, <1>3, TimesMonotone
  <2>2. (i - 1) * s = i * s - s
    BY TimesPred
  <2>3. 1 * s <= i * s
    BY <1>3, TimesMonotone
  <2>4. start(i) \in From .. To
    BY <2>1, <2>2, <2>3, <1>2
  <2>5. /\ Lesser(s, To - start(i) + 1) \in 1 .. FetchSpan
        /\ start(i) + Lesser(s, To - start(i) + 1) - 1 <= To
    BY <2>4 DEF Lesser
  <2> QED
    BY <2>4, <2>5 DEF Span, Heights
<1> DEFINE span(i) == [start |-> start(i), count |-> Lesser(s, To - start(i) + 1)]
<1>5. SpansToIssue(c, s) = [i \in 1 .. n |-> span(i)]
  BY DEF SpansToIssue, n, left
<1>6. \A i \in 1 .. n : span(i) \in Span
  BY <1>4
<1> HIDE DEF span
<1>7. /\ SpansToIssue(c, s) \in Seq(Span)
      /\ Len(SpansToIssue(c, s)) = n
  <2>1. SpansToIssue(c, s) \in [1 .. n -> Span]
    BY <1>5, <1>6
  <2> QED
    BY <2>1, <1>3, FunctionIsSeq
<1>8. n * s \in Nat
  BY <1>3, TimesMonotone
<1> QED
  BY <1>7, <1>8

-----------------------------------------------------------------------------
(* Type correctness.                                                       *)

LEMMA InitType == Init => TypeOK
<1>1. << >> \in Seq(Span)
  BY EmptySeq
<1>2. 0 .. (From - 1) \in SUBSET (0 .. To)
  OBVIOUS
<1> SUFFICES ASSUME Init PROVE TypeOK
  OBVIOUS
<1>3. flights \in Seq(Span)
  BY <1>1 DEF Init
<1>4. blocks \in SUBSET (0 .. To)
  BY <1>2 DEF Init
<1>5. /\ buffer \in SUBSET Heights /\ raw \in SUBSET Heights
      /\ pending \in SUBSET Heights /\ group \in SUBSET Heights
  BY DEF Init
<1>6. /\ nextToWrite \in From .. To + 1 /\ nextToFetch \in From .. To + 1
      /\ cooling \in Nat
      /\ underfills \in 0 .. MaxUnderfills /\ rpcFaults \in 0 .. MaxRpcFaults
      /\ writeFaults \in 0 .. MaxWriteFaults /\ wipes \in 0 .. MaxWipes
  BY DEF Init
<1> QED
  BY <1>3, <1>4, <1>5, <1>6 DEF Init, TypeOK, Phases

LEMMA NextType == TypeOK /\ [Next]_vars => TypeOK'
<1> SUFFICES ASSUME TypeOK, [Next]_vars PROVE TypeOK'
  OBVIOUS
<1>. cooldown' = cooldown
  BY DEF Next, vars
<1> USE DEF TypeOK
<1>1. CASE Pump
  <2>1. UNCHANGED <<blocks, walk, flags, counters>>
    BY <1>1 DEF Pump
  <2>2. cooling' \in Nat
    BY <1>1 DEF Pump
  <2>3. flights' \in Seq(Span) /\ nextToFetch' \in From .. To + 1
    <3>1. CASE aborted \/ wipeAborted
      BY <1>1, <3>1 DEF Pump
    <3>2. CASE ~(aborted \/ wipeAborted)
      <4>1. PICK c \in 1 .. Concurrency, s \in 1 .. FetchSpan :
              LET issued == SpansToIssue(c, s)
              IN  /\ flights' = flights \o issued
                  /\ nextToFetch' = Lesser(nextToFetch + Len(issued) * s, To + 1)
        BY <1>1, <3>2 DEF Pump
      <4>2. /\ SpansToIssue(c, s) \in Seq(Span)
            /\ Len(SpansToIssue(c, s)) * s \in Nat
        BY IssuedSpans
      <4>3. flights' \in Seq(Span)
        BY <4>1, <4>2, ConcatProperties
      <4>4. nextToFetch' \in From .. To + 1
        <5> DEFINE fetched == Len(SpansToIssue(c, s)) * s
        <5>1. fetched \in Nat /\ nextToFetch' = Lesser(nextToFetch + fetched, To + 1)
          BY <4>1, <4>2
        <5> HIDE DEF fetched
        <5> QED
          BY <5>1 DEF Lesser
      <4> QED
        BY <4>3, <4>4
    <3> QED
      BY <3>1, <3>2
  <2> QED
    BY <2>1, <2>2, <2>3 DEF walk, flags, counters
<1>2. ASSUME NEW i \in 1 .. inFlight, RpcReturns(i) PROVE TypeOK'
  <2>1. flights[i] \in Span /\ flights' \in Seq(Span)
    BY <1>2, RemoveFlight, ElementOfSeq DEF inFlight, RpcReturns
  <2>2. PICK k \in 0 .. flights[i].count :
          /\ k < flights[i].count => underfills < MaxUnderfills
          /\ underfills' = IF k < flights[i].count THEN underfills + 1 ELSE underfills
          /\ buffer' = buffer \cup (flights[i].start .. flights[i].start + k - 1)
          /\ nextToFetch' = Rewound(flights[i], k)
          /\ phase' \in {phase, "loop"}
          /\ cooling' \in {cooling, cooling + 1}
          /\ UNCHANGED <<blocks, raw, pending, group, nextToWrite, flags,
                         rpcFaults, writeFaults, wipes>>
    BY <1>2 DEF RpcReturns
  <2>3. /\ flights[i].start \in From .. To
        /\ flights[i].count \in 1 .. FetchSpan
        /\ flights[i].start + flights[i].count - 1 <= To
    BY <2>1, SpanInRange
  <2>4. buffer' \in SUBSET Heights
    <3>1. flights[i].start .. flights[i].start + k - 1 \subseteq Heights
      <4> DEFINE a == flights[i].start
                 n == flights[i].count
      <4>1. a \in From .. To /\ n \in Nat /\ k \in 0 .. n /\ a + n - 1 <= To
        BY <2>3
      <4> HIDE DEF a, n
      <4>2. a .. a + k - 1 \subseteq Heights
        BY <4>1 DEF Heights
      <4> QED
        BY <4>2 DEF a
    <3> QED
      BY <2>2, <3>1
  <2>5. nextToFetch' \in From .. To + 1
    <3> DEFINE end == flights[i].start + k
    <3>1. end \in From .. To + 1
      BY <2>3
    <3>2. nextToFetch' = nextToFetch \/ nextToFetch' = Lesser(nextToFetch, end)
      BY <2>2 DEF Rewound
    <3> HIDE DEF end
    <3> QED
      BY <3>1, <3>2 DEF Lesser
  <2>6. underfills' \in 0 .. MaxUnderfills
    BY <2>2, <2>3
  <2>7. phase' \in Phases /\ cooling' \in Nat
    BY <2>2 DEF Phases
  <2> QED
    BY <2>1, <2>2, <2>4, <2>5, <2>6, <2>7 DEF flags
<1>3. ASSUME NEW i \in 1 .. inFlight, RpcFails(i) PROVE TypeOK'
  <2>1. flights' \in Seq(Span)
    BY <1>3, RemoveFlight DEF inFlight, RpcFails
  <2> QED
    BY <1>3, <2>1 DEF RpcFails, Settle, walk
<1>4. CASE DrainLoop
  BY <1>4 DEF DrainLoop, Conclude, StartFlush, Settle, DrainReturns, Phases, counters
<1>5. CASE DrainTail
  BY <1>5 DEF DrainTail, Conclude, StartFlush, Settle, DrainReturns, Phases, counters
<1>6. CASE WipeSeen
  BY <1>6 DEF WipeSeen, Settle, DrainReturns, Phases, counters
<1>7. CASE Collect
  BY <1>7 DEF Collect, Phases, Heights, fetcher, flags, counters
<1>8. CASE Parse
  BY <1>8 DEF Parse, Phases, fetcher, flags, counters
<1>9. CASE FlushDone
  BY <1>9 DEF FlushDone, Settle, DrainReturns, Phases, Heights, counters
<1>10. CASE DrainThrows
  <2>1. blocks' \in SUBSET (0 .. To)
    BY <1>10 DEF DrainThrows, Heights
  <2>2. pending' \in SUBSET Heights
    BY <1>10 DEF DrainThrows
  <2> QED
    BY <1>10, <2>1, <2>2 DEF DrainThrows, Settle, DrainReturns, Phases
<1>11. CASE Abort
  BY <1>11 DEF Abort, walk, fetcher, counters
<1>12. CASE WipeStarts
  BY <1>12 DEF WipeStarts, walk, fetcher
<1>13. CASE WipeEnds
  BY <1>13 DEF WipeEnds, walk, fetcher, counters
<1>14. CASE UNCHANGED vars
  BY <1>14 DEF vars, walk, fetcher, flags, counters
<1> QED
  BY <1>1, <1>2, <1>3, <1>4, <1>5, <1>6, <1>7, <1>8, <1>9, <1>10, <1>11, <1>12,
     <1>13, <1>14 DEF Next, Work, Done

(* Every variable of a job keeps its type, for every value of the constants*)
(* of the run: the fetcher never asks for a span outside the range of the  *)
(* walk, and nextToFetch, rewound or not, stays inside it.                 *)
THEOREM TypeCorrect == Safety => []TypeOK
<1> QED
  BY InitType, NextType, PTL DEF Safety

-----------------------------------------------------------------------------
(* The pipeline.                                                           *)

LEMMA InitPipeline == Init => IInv
<1> SUFFICES ASSUME Init PROVE IInv
  OBVIOUS
<1>1. TypeOK
  BY InitType
<1>2. PlacesUsed
  BY DEF Init, PlacesUsed
<1>3. Pipeline
  BY DEF Init, Pipeline, Below
<1> QED
  BY <1>1, <1>2, <1>3 DEF IInv

LEMMA NextPipeline == IInv /\ [Next]_vars => IInv'
<1> SUFFICES ASSUME IInv, [Next]_vars PROVE IInv'
  OBVIOUS
<1>1. TypeOK /\ TypeOK' /\ PlacesUsed
  BY NextType DEF IInv
<1> SUFFICES PlacesUsed' /\ (writeFaults' = 0 => Pipeline')
  BY <1>1 DEF IInv
<1>. writeFaults = 0 => Pipeline
  BY DEF IInv
<1> DEFINE Kept == UNCHANGED <<blocks, group, pending, raw, nextToWrite, writeFaults>>
           Guarded == PlacesUsed' /\ (writeFaults' = 0 => Pipeline')
(* A step that only moves drain() between awaits at which no group and no  *)
(* raw group is held.                                                      *)
<1>2. ASSUME Kept, phase' = phase \/ (group = {} /\ raw = {})
      PROVE  Guarded
  BY <1>1, <1>2 DEF PlacesUsed, Pipeline, Below
(* A flush starts when no other group is held. *)
<1>3. ASSUME NEW p \in Flushing, StartFlush(p), group = {}, raw = {},
             UNCHANGED <<blocks, raw, nextToWrite, writeFaults>>
      PROVE  Guarded
  BY <1>1, <1>3 DEF PlacesUsed, Pipeline, Below, StartFlush
<1>4. ASSUME Conclude, phase \in {"loop", "tail"},
             UNCHANGED <<blocks, raw, nextToWrite, writeFaults>>
      PROVE  Guarded
  <2>1. group = {} /\ raw = {}
    BY <1>1, <1>4 DEF PlacesUsed, Flushing
  <2>2. CASE (Finished \/ Stopped) /\ pending # {}
    BY <1>3, <1>4, <2>1, <2>2 DEF Conclude, Flushing
  <2>3. CASE ~((Finished \/ Stopped) /\ pending # {})
    BY <1>2, <1>4, <2>1, <2>3 DEF Conclude
  <2> QED
    BY <2>2, <2>3
<1>5. CASE Pump
  BY <1>2, <1>5 DEF Pump, walk, counters
<1>6. ASSUME NEW i \in 1 .. inFlight, RpcReturns(i) PROVE Guarded
  <2>1. Kept /\ (phase' = phase \/ phase = "idle")
    BY <1>6 DEF RpcReturns, DrainRefused
  <2> QED
    BY <1>1, <1>2, <2>1 DEF PlacesUsed, Flushing
<1>7. ASSUME NEW i \in 1 .. inFlight, RpcFails(i) PROVE Guarded
  BY <1>2, <1>7 DEF RpcFails, walk
<1>8. CASE DrainLoop
  <2>1. group = {} /\ raw = {} /\ UNCHANGED <<blocks, raw, nextToWrite, writeFaults>>
    BY <1>1, <1>8 DEF DrainLoop, PlacesUsed, Flushing, counters
  <2>2. CASE nextToWrite \in buffer
    BY <1>2, <1>8, <2>1, <2>2 DEF DrainLoop
  <2>3. CASE nextToWrite \notin buffer /\ EagerFlushDue
    BY <1>3, <1>8, <2>1, <2>3 DEF DrainLoop, Flushing
  <2>4. CASE nextToWrite \notin buffer /\ ~EagerFlushDue
    BY <1>4, <1>8, <2>1, <2>4 DEF DrainLoop
  <2> QED
    BY <2>2, <2>3, <2>4
<1>9. CASE DrainTail
  BY <1>4, <1>9 DEF DrainTail, counters
<1>10. CASE WipeSeen
  BY <1>1, <1>2, <1>10 DEF WipeSeen, PlacesUsed, Flushing, counters
(* The raw group starts at nextToWrite, above everything taken before. *)
<1>11. CASE Collect
  <2>1. group = {} /\ raw = {} /\ phase' = "lookup"
    BY <1>1, <1>11 DEF Collect, PlacesUsed, Flushing
  <2>2. PICK end \in nextToWrite + 1 .. nextToWrite + TxBatchSize :
          raw' = nextToWrite .. end - 1 /\ nextToWrite' = end
    BY <1>11 DEF Collect
  <2>3. UNCHANGED <<blocks, pending, group, writeFaults>>
    BY <1>11 DEF Collect, counters
  <2>4. nextToWrite \in Nat /\ end \in Nat /\ nextToWrite < end
    BY <1>1, <2>2 DEF TypeOK
  <2>5. ASSUME Pipeline PROVE Pipeline'
    <3>1. blocks \cup group \cup pending = 0 .. nextToWrite - 1
      BY <2>1, <2>5 DEF Pipeline
    <3>2. (blocks \cup group \cup pending \cup raw)' = 0 .. nextToWrite' - 1
      BY <2>2, <2>3, <2>4, <3>1
    <3>3. Below(blocks \cup pending, raw')
      BY <2>2, <2>4, <3>1 DEF Below
    <3> QED
      BY <2>1, <2>3, <2>5, <3>2, <3>3 DEF Pipeline, Below
  <2> QED
    BY <2>1, <2>3, <2>5 DEF PlacesUsed
(* Parsing moves the raw group to the top of what is pending. *)
<1>12. CASE Parse
  <2>1. group = {} /\ raw' = {}
    BY <1>1, <1>12 DEF Parse, PlacesUsed, Flushing
  <2>2. UNCHANGED <<blocks, nextToWrite, writeFaults>>
    BY <1>12 DEF Parse, counters
  <2>3. \/ group' = pending \cup raw /\ pending' = {} /\ phase' = "flush"
        \/ pending' = pending \cup raw /\ group' = {}
    BY <1>12, <2>1 DEF Parse
  <2> QED
    BY <2>1, <2>2, <2>3 DEF PlacesUsed, Pipeline, Below, Flushing
(* A group is written below all that is still on the way. *)
<1>13. CASE FlushDone
  <2>1. /\ blocks' = blocks \cup group /\ group' = {} /\ raw = {}
        /\ UNCHANGED <<raw, pending, nextToWrite, writeFaults>>
    BY <1>1, <1>13 DEF FlushDone, PlacesUsed, Flushing, counters
  <2> QED
    BY <2>1 DEF PlacesUsed, Pipeline, Below
<1>14. CASE DrainThrows
  BY <1>1, <1>14 DEF DrainThrows, PlacesUsed, TypeOK
<1>15. CASE Abort
  BY <1>2, <1>15 DEF Abort, walk, counters
<1>16. CASE WipeStarts
  BY <1>2, <1>16 DEF WipeStarts, walk
<1>17. CASE WipeEnds
  BY <1>2, <1>17 DEF WipeEnds, walk, counters
<1>18. CASE UNCHANGED vars
  BY <1>2, <1>18 DEF vars, walk, counters
<1> QED
  BY <1>5, <1>6, <1>7, <1>8, <1>9, <1>10, <1>11, <1>12, <1>13, <1>14, <1>15,
     <1>16, <1>17, <1>18 DEF Next, Work, Done

LEMMA PipelineInvariant == Safety => []IInv
<1> QED
  BY InitPipeline, NextPipeline, PTL DEF Safety

(* The `blocks` table has no hole as long as no await of drain() has       *)
(* thrown: HistoricalBackfiller.run() may resume at max(height) + 1.       *)
THEOREM TableContiguous == Safety => []ContiguousUntilFault
<1>1. IInv => ContiguousUntilFault
  BY DEF IInv, TypeOK, Pipeline, Below, ContiguousUntilFault, Contiguous
<1> QED
  BY <1>1, PipelineInvariant, PTL

(* Every input of a raw group can be resolved: all blocks below it are in  *)
(* the table, parsed, or in the group.                                     *)
THEOREM LookupsComplete == Safety => []LookupComplete
<1>1. IInv => LookupComplete
  <2> SUFFICES ASSUME IInv, writeFaults = 0, phase = "lookup",
                      NEW h \in raw, NEW k \in 0 .. h
               PROVE  k \in VisibleOutputs
    BY DEF LookupComplete
  <2>1. group = {}
    BY DEF IInv, PlacesUsed, Flushing
  <2>2. blocks \cup pending \cup raw = 0 .. nextToWrite - 1
    BY <2>1 DEF IInv, Pipeline
  <2>3. nextToWrite \in Nat /\ h \in 0 .. nextToWrite - 1
    BY <2>2 DEF IInv, TypeOK
  <2> QED
    BY <2>2, <2>3 DEF VisibleOutputs
<1> QED
  BY <1>1, PipelineInvariant, PTL

-----------------------------------------------------------------------------
(* How a walk ends, and that it implements IndexedChain.  Pipeline says    *)
(* which heights are in the four places of the writer; from here on each   *)
(* place is one interval, on top of the one before (Ladder), so that what  *)
(* a flush adds to the table is known.                                     *)


(* The four places, as intervals that lie on top of each other. *)
Rungs(a, b, c) ==
  /\ From <= a /\ a <= b /\ b <= c /\ c <= nextToWrite
  /\ blocks = 0 .. a - 1 /\ group = a .. b - 1
  /\ pending = b .. c - 1 /\ raw = c .. nextToWrite - 1

Ladder == \E a, b, c \in Nat : Rungs(a, b, c)

Complete == aborted \/ wipeAborted \/ blocks = 0 .. To

(* What is known of the end while the walk goes on: an open promise has    *)
(* seen no fault, the last flush takes everything, and starts for a reason.*)
Endings ==
  /\ settled = "open" => writeFaults = 0
  /\ phase = "finalFlush" => pending = {} /\ (nextToWrite > To \/ aborted)
  /\ settled = "resolved" => Complete

WipeStops == wipeAborted => phase = "idle"

Outcome == IInv /\ (writeFaults = 0 => Ladder) /\ Endings /\ WipeStops

-----------------------------------------------------------------------------
LEMMA InitOutcome == Init => Outcome
<1> SUFFICES ASSUME Init PROVE Outcome
  OBVIOUS
<1>1. IInv
  BY InitPipeline
<1>2. Rungs(From, From, From)
  BY DEF Init, Rungs
<1>3. Endings /\ WipeStops
  BY DEF Init, Endings, WipeStops
<1> QED
  BY <1>1, <1>2, <1>3, Parameters DEF Outcome, Ladder

(* With nothing between the table and nextToWrite, the table reaches there.*)
LEMMA LadderTop ==
  ASSUME TypeOK, Ladder, pending = {}, raw = {}
  PROVE  blocks \cup group = 0 .. nextToWrite - 1
<1>1. PICK a, b, c \in Nat : Rungs(a, b, c)
  BY DEF Ladder
<1>2. nextToWrite \in Nat /\ b = c /\ c = nextToWrite
  <2>1. nextToWrite \in Nat
    BY DEF TypeOK
  <2>2. b = c
    BY <1>1 DEF Rungs
  <2>3. c = nextToWrite
    BY <1>1, <2>1 DEF Rungs
  <2> QED
    BY <2>1, <2>2, <2>3
<1> QED
  BY <1>1, <1>2 DEF Rungs

(* The two ways a walk gets there: no block is missing when it does.       *)
LEMMA WholeRange ==
  ASSUME Outcome, writeFaults = 0, pending = {}, raw = {}, nextToWrite > To
  PROVE  blocks \cup group = 0 .. To
<1>1. blocks \cup group = 0 .. nextToWrite - 1
  BY LadderTop DEF Outcome, IInv
<1>2. nextToWrite = To + 1
  BY DEF Outcome, IInv, TypeOK
<1> QED
  BY <1>1, <1>2

(* A step after which the ladder is the same, up to the table and the      *)
(* group, which a flush has merged.                                        *)
LEMMA NextLadder ==
  ASSUME Outcome, [Next]_vars, writeFaults' = 0
  PROVE  Ladder'
<1>0. TypeOK /\ TypeOK' /\ PlacesUsed
  BY NextType DEF Outcome, IInv
<1>1. writeFaults = 0
  BY <1>0, SMT DEF TypeOK, Next, Work, Done, vars, counters, Pump, RpcReturns, RpcFails, DrainLoop,
     DrainTail, WipeSeen, Collect, Parse, FlushDone, DrainThrows, Abort, WipeStarts, WipeEnds
<1>2. PICK a, b, c \in Nat : Rungs(a, b, c)
  BY <1>1 DEF Outcome, Ladder
<1>3. nextToWrite \in Nat
  BY <1>0 DEF TypeOK
<1> DEFINE Kept == UNCHANGED <<blocks, group, pending, raw, nextToWrite>>
<1>4. ASSUME Kept PROVE Ladder'
  BY <1>2, <1>4 DEF Ladder, Rungs
(* A flush takes what is pending, with no other group on the way. *)
<1>5. ASSUME NEW p, StartFlush(p), group = {}, UNCHANGED <<blocks, raw, nextToWrite>>
      PROVE  Ladder'
  <2>1. a = b
    BY <1>2, <1>5 DEF Rungs
  <2>2. Rungs(a, c, c)'
    BY <1>2, <1>5, <2>1 DEF Rungs, StartFlush
  <2> QED
    BY <2>2 DEF Ladder
<1>6. ASSUME Conclude, group = {}, UNCHANGED <<blocks, raw, nextToWrite>>
      PROVE  Ladder'
  <2>1. CASE (Finished \/ Stopped) /\ pending # {}
    BY <1>5, <1>6, <2>1 DEF Conclude
  <2>2. CASE ~((Finished \/ Stopped) /\ pending # {})
    BY <1>4, <1>6, <2>2 DEF Conclude
  <2> QED
    BY <2>1, <2>2
<1>7. CASE Pump
  BY <1>4, <1>7 DEF Pump, walk
<1>8. ASSUME NEW i \in 1 .. inFlight, RpcReturns(i) PROVE Ladder'
  BY <1>4, <1>8 DEF RpcReturns
<1>9. ASSUME NEW i \in 1 .. inFlight, RpcFails(i) PROVE Ladder'
  BY <1>4, <1>9 DEF RpcFails, walk
<1>10. CASE DrainLoop
  <2>1. group = {} /\ UNCHANGED <<blocks, raw, nextToWrite>>
    BY <1>0, <1>10 DEF DrainLoop, PlacesUsed, Flushing
  <2>2. CASE nextToWrite \in buffer
    BY <1>4, <1>10, <2>1, <2>2 DEF DrainLoop
  <2>3. CASE nextToWrite \notin buffer /\ EagerFlushDue
    BY <1>5, <1>10, <2>1, <2>3 DEF DrainLoop
  <2>4. CASE nextToWrite \notin buffer /\ ~EagerFlushDue
    BY <1>6, <1>10, <2>1, <2>4 DEF DrainLoop
  <2> QED
    BY <2>2, <2>3, <2>4
<1>11. CASE DrainTail
  BY <1>0, <1>6, <1>11 DEF DrainTail, PlacesUsed, Flushing
<1>12. CASE WipeSeen
  BY <1>4, <1>12 DEF WipeSeen
<1>13. CASE Collect
  <2>1. PICK end \in nextToWrite + 1 .. nextToWrite + TxBatchSize :
          raw' = nextToWrite .. end - 1 /\ nextToWrite' = end
    BY <1>13 DEF Collect
  <2>2. raw = {} /\ UNCHANGED <<blocks, pending, group>>
    BY <1>0, <1>13 DEF Collect, PlacesUsed, Flushing
  <2>3. c = nextToWrite
    BY <1>2, <1>3, <2>2 DEF Rungs
  <2>4. Rungs(a, b, c)'
    BY <1>2, <1>3, <2>1, <2>2, <2>3 DEF Rungs
  <2> QED
    BY <2>4 DEF Ladder
<1>14. CASE Parse
  <2>1. group = {} /\ raw' = {} /\ UNCHANGED <<blocks, nextToWrite>>
    BY <1>0, <1>14 DEF Parse, PlacesUsed, Flushing
  <2>2. a = b /\ pending \cup raw = a .. nextToWrite - 1
    BY <1>2, <1>3, <2>1 DEF Rungs
  <2>3. \/ group' = pending \cup raw /\ pending' = {}
        \/ pending' = pending \cup raw /\ group' = {}
    BY <1>14, <2>1 DEF Parse
  <2> DEFINE n == nextToWrite
  <2>4. From <= a /\ a <= n /\ blocks = 0 .. a - 1 /\ n \in Nat
    BY <1>2, <1>3 DEF Rungs
  <2>5. CASE group' = pending \cup raw /\ pending' = {}
    <3>1. Rungs(a, n, n)'
      BY <2>1, <2>2, <2>4, <2>5 DEF Rungs
    <3> QED
      BY <2>4, <3>1, <2>1 DEF Ladder
  <2>6. CASE pending' = pending \cup raw /\ group' = {}
    <3>1. Rungs(a, a, n)'
      BY <2>1, <2>2, <2>4, <2>6 DEF Rungs
    <3> QED
      BY <2>4, <3>1, <2>1 DEF Ladder
  <2> QED
    BY <2>3, <2>5, <2>6
<1>15. CASE FlushDone
  <2>1. blocks' = blocks \cup group /\ group' = {} /\ UNCHANGED <<raw, pending, nextToWrite>>
    BY <1>15 DEF FlushDone
  <2>2. Rungs(b, b, c)'
    BY <1>2, <1>3, <2>1 DEF Rungs
  <2> QED
    BY <2>2 DEF Ladder
<1>16. CASE DrainThrows
  BY <1>0, <1>1, <1>16 DEF DrainThrows, TypeOK
<1>17. CASE Abort
  BY <1>4, <1>17 DEF Abort, walk
<1>18. CASE WipeStarts
  BY <1>4, <1>18 DEF WipeStarts, walk
<1>19. CASE WipeEnds
  BY <1>4, <1>19 DEF WipeEnds, walk
<1>20. CASE UNCHANGED vars
  BY <1>4, <1>20 DEF vars, walk
<1> QED
  BY <1>7, <1>8, <1>9, <1>10, <1>11, <1>12, <1>13, <1>14, <1>15, <1>16, <1>17, <1>18,
     <1>19, <1>20 DEF Next, Work, Done

-----------------------------------------------------------------------------
(* How a walk ends.                                                        *)

(* Work that keeps the table and the reasons to end, and a drain() that    *)
(* was running: nothing here starts one after a wipe was seen.             *)
LEMMA NextEndings ==
  ASSUME Outcome, [Next]_vars
  PROVE  Endings' /\ WipeStops'
<1>0. TypeOK /\ TypeOK' /\ PlacesUsed /\ Endings /\ WipeStops
  BY NextType DEF Outcome, IInv
<1> DEFINE Goal == Endings' /\ WipeStops'
<1>1. ASSUME UNCHANGED <<blocks, pending, nextToWrite, settled, wipeAborted, writeFaults>>,
             aborted => aborted', phase' # "finalFlush" \/ phase' = phase,
             phase' = phase \/ phase' = "idle" \/ ~wipeAborted
      PROVE  Goal
  BY <1>0, <1>1 DEF Endings, WipeStops, Complete
(* The last two exits of drain(): with something to flush, or without. *)
<1>2. ASSUME Conclude, phase \in {"loop", "tail"},
             UNCHANGED <<blocks, raw, nextToWrite, aborted, wipeAborted, writeFaults>>
      PROVE  Goal
  <2>1. ~wipeAborted /\ raw = {} /\ group = {}
    BY <1>0, <1>2 DEF WipeStops, PlacesUsed, Flushing
  <2>2. CASE (Finished \/ Stopped) /\ pending # {}
    BY <1>0, <1>2, <2>1, <2>2 DEF Conclude, StartFlush, Endings, WipeStops, Complete, Finished, Stopped
  <2>3. CASE (Finished \/ Stopped) /\ pending = {}
    <3>1. settled = "open" => Complete'
      <4>1. CASE aborted
        BY <1>2, <4>1 DEF Complete
      <4>2. CASE ~aborted /\ settled = "open"
        <5>1. writeFaults = 0 /\ nextToWrite > To
          BY <1>0, <2>3, <4>2 DEF Endings, Finished, Stopped
        <5>2. blocks = 0 .. To
          BY <2>1, <2>3, <5>1, WholeRange
        <5> QED
          BY <1>2, <5>2 DEF Complete
      <4> QED
        BY <4>1, <4>2
    <3>2. UNCHANGED pending /\ phase' = "idle" /\ settled' = IF settled = "open" THEN "resolved" ELSE settled
      BY <1>2, <2>3 DEF Conclude, Settle, DrainReturns
    <3> QED
      BY <1>0, <1>2, <2>1, <3>1, <3>2 DEF Endings, WipeStops, Complete
  <2>4. CASE ~(Finished \/ Stopped)
    BY <1>0, <1>2, <2>1, <2>4 DEF Conclude, DrainReturns, Endings, WipeStops, Complete
  <2> QED
    BY <2>2, <2>3, <2>4
<1>3. CASE Pump
  BY <1>1, <1>3 DEF Pump, walk, flags, counters
<1>4. ASSUME NEW i \in 1 .. inFlight, RpcReturns(i) PROVE Goal
  BY <1>1, <1>4 DEF RpcReturns, DrainRefused, flags
<1>5. ASSUME NEW i \in 1 .. inFlight, RpcFails(i) PROVE Goal
  BY <1>0, <1>5 DEF RpcFails, Settle, walk, Endings, WipeStops, Complete
<1>6. CASE DrainLoop
  <2>1. /\ phase = "loop" /\ ~wipeAborted
        /\ UNCHANGED <<blocks, raw, nextToWrite, aborted, wipeAborted, writeFaults>>
    BY <1>0, <1>6 DEF DrainLoop, WipeStops, counters
  <2>2. CASE nextToWrite \in buffer
    BY <1>1, <1>6, <2>1, <2>2 DEF DrainLoop
  <2>3. CASE nextToWrite \notin buffer /\ EagerFlushDue
    BY <1>0, <1>6, <2>1, <2>3 DEF DrainLoop, StartFlush, Endings, WipeStops, Complete
  <2>4. CASE nextToWrite \notin buffer /\ ~EagerFlushDue
    BY <1>2, <1>6, <2>1, <2>4 DEF DrainLoop
  <2> QED
    BY <2>2, <2>3, <2>4
<1>7. CASE DrainTail
  BY <1>2, <1>7 DEF DrainTail, counters
<1>8. CASE WipeSeen
  BY <1>0, <1>8 DEF WipeSeen, Settle, DrainReturns, counters, Endings, WipeStops, Complete
<1>9. CASE Collect
  BY <1>0, <1>9 DEF Collect, flags, counters, Endings, WipeStops, Complete
<1>10. CASE Parse
  BY <1>0, <1>10 DEF Parse, flags, counters, Endings, WipeStops, Complete
<1>11. CASE FlushDone
  <2>1. /\ phase \in Flushing /\ ~wipeAborted /\ blocks' = blocks \cup group
        /\ UNCHANGED <<pending, nextToWrite, aborted, wipeAborted, writeFaults>>
    BY <1>0, <1>11 DEF FlushDone, WipeStops, Flushing, counters
  <2>2. raw = {} /\ (blocks = 0 .. To => blocks' = 0 .. To)
    <3>1. blocks' \subseteq 0 .. To
      BY <1>0 DEF TypeOK
    <3> QED
      BY <1>0, <2>1, <3>1 DEF PlacesUsed, Flushing
  <2>3. CASE phase = "finalFlush"
    <3>1. phase' = "idle" /\ settled' = IF settled = "open" THEN "resolved" ELSE settled
      BY <1>11, <2>3 DEF FlushDone, Settle, DrainReturns
    <3>2. settled = "open" => Complete'
      <4>1. CASE settled = "open" /\ ~aborted
        <5>1. writeFaults = 0 /\ pending = {} /\ nextToWrite > To
          BY <1>0, <2>3, <4>1 DEF Endings
        <5>2. blocks' = 0 .. To
          BY <2>1, <2>2, <5>1, WholeRange
        <5> QED
          BY <5>2 DEF Complete
      <4> QED
        BY <2>1, <4>1 DEF Complete
    <3> QED
      BY <1>0, <2>1, <2>2, <3>1, <3>2 DEF Endings, WipeStops, Complete
  <2>4. CASE phase # "finalFlush"
    <3>1. phase' \in {"loop", "tail"} /\ settled' = settled
      BY <1>11, <2>4 DEF FlushDone
    <3> QED
      BY <1>0, <2>1, <2>2, <3>1 DEF Endings, WipeStops, Complete
  <2> QED
    BY <2>3, <2>4
<1>12. CASE DrainThrows
  <2>1. /\ phase' = "idle" /\ settled' = IF settled = "open" THEN "rejected" ELSE settled
        /\ UNCHANGED <<aborted, wipeAborted>>
    BY <1>12 DEF DrainThrows, Settle, DrainReturns
  <2>2. blocks = 0 .. To => blocks' = 0 .. To
    <3>1. blocks' \subseteq 0 .. To
      BY <1>0 DEF TypeOK
    <3> QED
      BY <1>12, <3>1 DEF DrainThrows
  <2> QED
    BY <1>0, <2>1, <2>2 DEF Endings, WipeStops, Complete
<1>13. CASE Abort
  BY <1>1, <1>13 DEF Abort, walk, counters
<1>14. CASE WipeStarts
  BY <1>1, <1>14 DEF WipeStarts, walk
<1>15. CASE WipeEnds
  BY <1>1, <1>15 DEF WipeEnds, walk, counters
<1>16. CASE UNCHANGED vars
  BY <1>1, <1>16 DEF vars, walk, flags, counters
<1> QED
  BY <1>3, <1>4, <1>5, <1>6, <1>7, <1>8, <1>9, <1>10, <1>11, <1>12, <1>13, <1>14,
     <1>15, <1>16 DEF Next, Work, Done

LEMMA OutcomeInvariant == Safety => []Outcome
<1>1. Outcome /\ [Next]_vars => Outcome'
  <2> SUFFICES ASSUME Outcome, [Next]_vars PROVE Outcome'
    OBVIOUS
  <2>1. IInv'
    BY NextPipeline DEF Outcome
  <2>2. writeFaults' = 0 => Ladder'
    BY NextLadder
  <2>3. Endings' /\ WipeStops'
    BY NextEndings
  <2> QED
    BY <2>1, <2>2, <2>3 DEF Outcome
<1> QED
  BY <1>1, InitOutcome, PTL DEF Safety

(* A job that resolves has written the whole range, unless it was aborted  *)
(* or cut off by a wipe: run() may hand the index over to TipFollower.     *)
THEOREM ResolvedComplete == Safety => []ResolvedMeansComplete
<1>1. Outcome => ResolvedMeansComplete
  BY DEF Outcome, Endings, Complete, ResolvedMeansComplete
<1> QED
  BY <1>1, OutcomeInvariant, PTL

LEMMA ShorterFlights ==
  ASSUME NEW s \in Seq(Span), NEW i \in 1 .. Len(s)
  PROVE  Len(RemoveAt(s, i)) <= Len(s)
<1>1. /\ SubSeq(s, 1, i - 1) \in Seq(Span) /\ Len(SubSeq(s, 1, i - 1)) = i - 1
      /\ SubSeq(s, i + 1, Len(s)) \in Seq(Span) /\ Len(SubSeq(s, i + 1, Len(s))) = Len(s) - i
  BY LenProperties, SubSeqProperties, ElementOfSeq, SMT
<1>2. Len(RemoveAt(s, i)) = Len(s) - 1
  BY <1>1, ConcatProperties, LenProperties, SMT DEF RemoveAt
<1> QED
  BY <1>2, LenProperties

(* Once the wipe lock was seen, no await of drain() is left, drain() is not*)
(* entered again, and pump() asks for nothing: no row is written under the *)
(* wipe, or after it, by a job of before it.                               *)
THEOREM NothingAfterWipe == Safety => SilentAfterWipe
<1>1. Outcome /\ [Next]_vars =>
        [wipeAborted => blocks' = blocks /\ Len(flights') <= Len(flights)]_vars
  <2> SUFFICES ASSUME Outcome, [Next]_vars, wipeAborted, ~UNCHANGED vars
               PROVE  blocks' = blocks /\ Len(flights') <= Len(flights)
    OBVIOUS
  <2>1. phase = "idle" /\ flights \in Seq(Span)
    BY DEF Outcome, IInv, TypeOK, WipeStops
  <2>2. Len(flights) <= Len(flights)
    BY <2>1, LenProperties
  <2>3. CASE UNCHANGED <<blocks, flights>>
    BY <2>2, <2>3
  <2>4. ASSUME NEW i \in 1 .. inFlight, UNCHANGED blocks, flights' = RemoveAt(flights, i)
        PROVE  blocks' = blocks /\ Len(flights') <= Len(flights)
    BY <2>1, <2>4, ShorterFlights DEF inFlight
  <2>5. CASE Pump
    BY <2>3, <2>5 DEF Pump
  <2>6. ASSUME NEW i \in 1 .. inFlight, RpcReturns(i) \/ RpcFails(i)
        PROVE  UNCHANGED blocks /\ flights' = RemoveAt(flights, i)
    BY <2>6 DEF RpcReturns, RpcFails
  <2>7. CASE Abort \/ WipeStarts \/ WipeEnds
    BY <2>3, <2>7 DEF Abort, WipeStarts, WipeEnds, fetcher
  <2>8. ~(DrainLoop \/ DrainTail \/ WipeSeen \/ Collect \/ Parse \/ FlushDone \/ DrainThrows)
    BY <2>1 DEF DrainLoop, DrainTail, WipeSeen, Collect, Parse, FlushDone, DrainThrows, Flushing
  <2> QED
    BY <2>4, <2>5, <2>6, <2>7, <2>8 DEF Next, Work, Done
<1> QED
  BY <1>1, OutcomeInvariant, PTL DEF Safety, SilentAfterWipe

-----------------------------------------------------------------------------
(* The refinement.                                                         *)

(* The group a flush writes lies on top of the table. *)
LEMMA FlushExtends ==
  ASSUME Outcome, writeFaults = 0, blocks' = blocks \cup group, writeFaults' = 0
  PROVE  Chain!Extend \/ UNCHANGED blocks
<1>1. PICK a, b, c \in Nat : Rungs(a, b, c)
  BY DEF Outcome, Ladder
<1>2. nextToWrite \in From .. To + 1
  BY DEF Outcome, IInv, TypeOK
<1>3. CASE a = b
  BY <1>1, <1>3 DEF Rungs
<1>4. CASE a < b
  <2>1. b - 1 \in From .. To
    BY <1>1, <1>2, <1>4 DEF Rungs
  <2>2. b - 1 \notin blocks /\ blocks' = 0 .. b - 1
    BY <1>1, <1>4 DEF Rungs
  <2> QED
    BY <2>1, <2>2 DEF Chain!Extend
<1> QED
  BY <1>1, <1>3, <1>4 DEF Rungs

LEMMA NextChain ==
  ASSUME Outcome, [Next]_vars
  PROVE  [Chain!Next]_Chain!vars
<1> USE DEF Chain!Next, Chain!vars
<1>0. writeFaults \in Nat
  BY DEF Outcome, IInv, TypeOK
<1>1. CASE UNCHANGED <<blocks, writeFaults>>
  BY <1>1
<1>2. CASE FlushDone
  <2>1. blocks' = blocks \cup group /\ writeFaults' = writeFaults
    BY <1>2 DEF FlushDone, counters
  <2>2. CASE writeFaults = 0
    BY <2>1, <2>2, FlushExtends
  <2>3. CASE writeFaults # 0
    BY <2>1, <2>3 DEF Chain!Lose
  <2> QED
    BY <2>2, <2>3
<1>3. CASE DrainThrows
  <2>1. writeFaults' # 0 /\ blocks \subseteq blocks'
    BY <1>0, <1>3 DEF DrainThrows
  <2> QED
    BY <2>1 DEF Chain!Lose
<1>4. CASE Pump \/ Abort \/ WipeStarts \/ WipeEnds
  BY <1>1, <1>4 DEF Pump, Abort, WipeStarts, WipeEnds, counters
<1>5. ASSUME NEW i \in 1 .. inFlight, RpcReturns(i) \/ RpcFails(i)
      PROVE  UNCHANGED <<blocks, writeFaults>>
  BY <1>5 DEF RpcReturns, RpcFails
<1>6. CASE DrainLoop \/ DrainTail \/ WipeSeen \/ Collect \/ Parse
  BY <1>1, <1>6 DEF DrainLoop, DrainTail, WipeSeen, Collect, Parse, counters
<1>7. CASE UNCHANGED vars
  BY <1>1, <1>7 DEF vars, counters
<1> QED
  BY <1>1, <1>2, <1>3, <1>4, <1>5, <1>6, <1>7 DEF Next, Work, Done

(* The walk implements IndexedChain: seen through the `blocks` table, it   *)
(* does nothing but put one more group on top, until an await of drain()   *)
(* throws; after that it still takes nothing away.                         *)
THEOREM RefinesIndexedChain == Safety => ImplementsChain
<1>1. Init => Chain!Init
  BY DEF Init, Chain!Init
<1>2. Outcome /\ [Next]_vars => [Chain!Next]_Chain!vars
  BY NextChain
<1> QED
  BY <1>1, <1>2, OutcomeInvariant, PTL DEF Safety, ImplementsChain, Chain!Spec
=============================================================================
