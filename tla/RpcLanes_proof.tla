---------------------------- MODULE RpcLanes_proof ----------------------------
(***************************************************************************)
(* For every capacity, window and threshold, any number of walks that      *)
(* overlap and any faults of either lane: no caller has more calls in the  *)
(* semaphore than its capacity, permits are neither lost nor made up, and  *)
(* while the lane is left alone nothing is added to it.                    *)
(*                                                                         *)
(* What it takes is the count of a queue under Append and Tail, and of the *)
(* calls at the daemon under a permit that changes hands.                  *)
(***************************************************************************)
EXTENDS RpcLanes, TLAPS, FiniteSetTheorems, SequenceTheorems

(* A breaker counts no more failures than there were faults. *)
Recorded == \A b \in Breakers : breaker[b].fails <= faults

(* Every permit is free or held by a call at the daemon. *)
Conserved == free + Cardinality(AtDaemon) = Capacity

IInv == TypeOK /\ Recorded /\ SelfGated /\ Conserved

LEMMA Parameters ==
  /\ Capacity \in Nat \ {0} /\ MinConcurrency \in 1 .. Capacity
  /\ MaxSpan \in Nat \ {0} /\ MinSpan \in 1 .. MaxSpan
  /\ RampThreshold \in Nat \ {0} /\ BreakerThreshold \in Nat
  /\ Debounce \in Nat /\ Quiet \in Nat /\ Cooldown \in Nat \ {0}
  /\ IsFiniteSet(Job) /\ Claims \notin Job
  /\ MaxLive \in Nat /\ MaxResume \in Nat \ {0} /\ MaxFaults \in Nat
  BY LanesAssumption DEF LanesAssumption

USE Parameters

-----------------------------------------------------------------------------
(* Cardinalities, in the form they are needed.                             *)

LEMMA DisjointUnion ==
  ASSUME NEW S, IsFiniteSet(S), NEW T, IsFiniteSet(T), S \cap T = {}
  PROVE  Cardinality(S \cup T) = Cardinality(S) + Cardinality(T)
<1>1. Cardinality(S \cup T) = Cardinality(S) + Cardinality(T) - Cardinality(S \cap T)
  BY FS_Union
<1>2. Cardinality(S \cap T) = 0
  BY FS_EmptySet
<1>3. Cardinality(S) \in Nat /\ Cardinality(T) \in Nat
  BY FS_CardinalityType
<1> QED
  BY <1>1, <1>2, <1>3

LEMMA IntervalCount ==
  ASSUME NEW a \in Nat, NEW n \in Nat
  PROVE  IsFiniteSet(a + 1 .. a + n) /\ Cardinality(a + 1 .. a + n) = n
<1> DEFINE first == a + 1
           last == a + n
<1>1. first \in Int /\ last \in Int /\ last - first + 1 = n /\ (first > last => n = 0)
  OBVIOUS
<1> HIDE DEF first, last
<1>2. /\ IsFiniteSet(first .. last)
      /\ Cardinality(first .. last) = IF first > last THEN 0 ELSE last - first + 1
  BY <1>1, FS_Interval
<1>3. Cardinality(first .. last) = n
  BY <1>1, <1>2
<1> QED
  BY <1>2, <1>3 DEF first, last

LEMMA OneLess ==
  ASSUME NEW S, IsFiniteSet(S), NEW x \in S
  PROVE  Cardinality(S \ {x}) = Cardinality(S) - 1
  BY FS_RemoveElement

-----------------------------------------------------------------------------
(* How often a value stands in a sequence.                                 *)

Positions(s, v) == {i \in DOMAIN s : s[i] = v}

LEMMA PositionsFinite ==
  ASSUME NEW S, NEW s \in Seq(S), NEW v
  PROVE  /\ IsFiniteSet(Positions(s, v)) /\ Positions(s, v) \subseteq 1 .. Len(s)
         /\ Cardinality(Positions(s, v)) \in Nat
<1>1. Len(s) \in Nat /\ DOMAIN s = 1 .. Len(s)
  BY LenProperties
<1>2. Positions(s, v) \in SUBSET (1 .. Len(s))
  BY <1>1 DEF Positions
<1>3. IsFiniteSet(1 .. Len(s))
  BY <1>1, FS_Interval
<1>4. IsFiniteSet(Positions(s, v))
  BY <1>2, <1>3, FS_Subset
<1> QED
  BY <1>2, <1>4, FS_CardinalityType

(* The same value appended m times. *)
LEMMA PositionsAppend ==
  ASSUME NEW S, NEW s \in Seq(S), NEW u \in S, NEW m \in Nat, NEW v
  PROVE  /\ s \o [i \in 1 .. m |-> u] \in Seq(S)
         /\ Cardinality(Positions(s \o [i \in 1 .. m |-> u], v)) =
              Cardinality(Positions(s, v)) + (IF u = v THEN m ELSE 0)
<1> DEFINE r == [i \in 1 .. m |-> u]
           t == s \o r
           A == Positions(s, v)
           B == Len(s) + 1 .. Len(s) + m
<1>1. r \in Seq(S) /\ Len(r) = m /\ \A i \in 1 .. m : r[i] = u
  BY SMT
<1>2. Len(s) \in Nat /\ DOMAIN s = 1 .. Len(s)
  BY LenProperties
<1> HIDE DEF r
<1>3. /\ t \in Seq(S) /\ Len(t) = Len(s) + m
      /\ \A i \in 1 .. Len(s) + m : t[i] = IF i <= Len(s) THEN s[i] ELSE r[i - Len(s)]
  BY <1>1, ConcatProperties
<1> HIDE DEF t
<1>4. DOMAIN t = 1 .. Len(s) + m
  BY <1>3, LenProperties
<1>5. ASSUME NEW i \in B
      PROVE  t[i] = u
  <2>1. i \in 1 .. Len(s) + m /\ ~(i <= Len(s)) /\ i - Len(s) \in 1 .. m
    BY <1>2
  <2>2. t[i] = r[i - Len(s)]
    BY <1>3, <2>1
  <2> QED
    BY <1>1, <2>1, <2>2
<1>6. \A i \in 1 .. Len(s) : t[i] = s[i]
  BY <1>2, <1>3
<1>7. 1 .. Len(s) + m = (1 .. Len(s)) \cup B
  BY <1>2
<1>8. Positions(t, v) = IF u = v THEN A \cup B ELSE A
  BY <1>2, <1>4, <1>5, <1>6, <1>7 DEF Positions
<1>9. IsFiniteSet(A) /\ A \subseteq 1 .. Len(s) /\ Cardinality(A) \in Nat
  BY PositionsFinite
<1>10. A \cap B = {}
  BY <1>2, <1>9
<1>11. IsFiniteSet(B) /\ Cardinality(B) = m
  BY <1>2, IntervalCount
<1> HIDE DEF A, B
<1>12. Cardinality(A \cup B) = Cardinality(A) + m
  BY <1>9, <1>10, <1>11, DisjointUnion
<1>13. Cardinality(Positions(t, v)) = Cardinality(A) + (IF u = v THEN m ELSE 0)
  BY <1>8, <1>9, <1>12
<1> QED
  BY <1>3, <1>13 DEF A, t, r

(* The head taken off. *)
LEMMA PositionsTail ==
  ASSUME NEW S, NEW s \in Seq(S), s # << >>, NEW v
  PROVE  Cardinality(Positions(Tail(s), v)) =
           Cardinality(Positions(s, v)) - (IF Head(s) = v THEN 1 ELSE 0)
<1> DEFINE A == Positions(s, v) \ {1}
           B == Positions(Tail(s), v)
           f == [i \in A |-> i - 1]
<1>1. Len(s) \in Nat \ {0} /\ DOMAIN s = 1 .. Len(s) /\ Head(s) = s[1]
  BY EmptySeq, LenProperties
<1>2. /\ Tail(s) \in Seq(S) /\ DOMAIN Tail(s) = 1 .. Len(s) - 1
      /\ \A i \in 1 .. Len(s) - 1 : Tail(s)[i] = s[i + 1]
  BY HeadTailProperties, LenProperties
<1>3. A = {i \in 2 .. Len(s) : s[i] = v} /\ B = {i \in 1 .. Len(s) - 1 : s[i + 1] = v}
  BY <1>1, <1>2 DEF Positions
<1>4. IsFiniteSet(Positions(s, v)) /\ Cardinality(Positions(s, v)) \in Nat
  BY PositionsFinite
<1>5. 1 \in Positions(s, v) <=> Head(s) = v
  BY <1>1 DEF Positions
<1>6. /\ IsFiniteSet(A)
      /\ Cardinality(A) = Cardinality(Positions(s, v)) - (IF Head(s) = v THEN 1 ELSE 0)
  BY <1>4, <1>5, FS_RemoveElement
<1>7. f \in [A -> B]
  BY <1>1, <1>3
<1>8. \A i, j \in A : f[i] = f[j] => i = j
  BY <1>3
<1>9. \A k \in B : \E i \in A : f[i] = k
  <2> SUFFICES ASSUME NEW k \in B PROVE k + 1 \in A /\ f[k + 1] = k
    OBVIOUS
  <2> QED
    BY <1>1, <1>3
<1> HIDE DEF A, B, f
<1>10. f \in Bijection(A, B)
  BY <1>7, <1>8, <1>9 DEF Bijection, Injection, Surjection, IsInjective
<1>11. ExistsBijection(A, B)
  BY <1>10 DEF ExistsBijection
<1>12. Cardinality(B) = Cardinality(A)
  BY <1>6, <1>11, FS_Bijection
<1> QED
  BY <1>6, <1>12 DEF B

-----------------------------------------------------------------------------
(* The calls at the daemon, as a permit is taken or given back.            *)

Holding(c) == {k \in Owner \X (1 .. Capacity) : k[2] <= c[k[1]]}

LEMMA HoldingFinite ==
  ASSUME NEW c
  PROVE  IsFiniteSet(Holding(c)) /\ Cardinality(Holding(c)) \in Nat
<1>1. IsFiniteSet(Owner)
  BY FS_AddElement DEF Owner
<1>2. IsFiniteSet(1 .. Capacity)
  BY FS_Interval
<1>3. IsFiniteSet(Owner \X (1 .. Capacity))
  BY <1>1, <1>2, FS_Product
<1>4. Holding(c) \in SUBSET (Owner \X (1 .. Capacity))
  BY DEF Holding
<1>5. IsFiniteSet(Holding(c))
  BY <1>3, <1>4, FS_Subset
<1> QED
  BY <1>5, FS_CardinalityType

LEMMA HoldingMore ==
  ASSUME NEW c \in [Owner -> Nat], NEW o \in Owner, NEW n \in Nat, c[o] + n <= Capacity
  PROVE  Cardinality(Holding([c EXCEPT ![o] = @ + n])) = Cardinality(Holding(c)) + n
<1> DEFINE d == [c EXCEPT ![o] = @ + n]
           I == c[o] + 1 .. c[o] + n
           B == {o} \X I
           f == [i \in I |-> <<o, i>>]
<1>1. c[o] \in Nat /\ d \in [Owner -> Nat] /\ d[o] = c[o] + n /\ \A p \in Owner \ {o} : d[p] = c[p]
  OBVIOUS
<1>2. Holding(d) = Holding(c) \cup B
  BY <1>1 DEF Holding
<1>3. Holding(c) \cap B = {}
  BY <1>1 DEF Holding
<1>4. IsFiniteSet(I) /\ Cardinality(I) = n
  BY <1>1, IntervalCount
<1>5. f \in Bijection(I, B)
  <2>1. f \in [I -> B] /\ \A i, j \in I : f[i] = f[j] => i = j
    OBVIOUS
  <2>2. \A b \in B : \E i \in I : f[i] = b
    OBVIOUS
  <2> HIDE DEF f, I, B
  <2> QED
    BY <2>1, <2>2 DEF Bijection, Injection, Surjection, IsInjective
<1>6. ExistsBijection(I, B)
  BY <1>5 DEF ExistsBijection
<1> HIDE DEF d, I, B, f
<1>7. IsFiniteSet(B) /\ Cardinality(B) = n
  BY <1>4, <1>6, FS_Bijection
<1>8. Cardinality(Holding(d)) = Cardinality(Holding(c)) + n
  BY <1>2, <1>3, <1>7, HoldingFinite, DisjointUnion
<1> QED
  BY <1>8 DEF d

LEMMA HoldingLess ==
  ASSUME NEW c \in [Owner -> Nat], NEW o \in Owner, c[o] \in 1 .. Capacity
  PROVE  /\ [c EXCEPT ![o] = @ - 1] \in [Owner -> Nat]
         /\ Cardinality(Holding([c EXCEPT ![o] = @ - 1])) = Cardinality(Holding(c)) - 1
<1> DEFINE d == [c EXCEPT ![o] = @ - 1]
<1>1. d \in [Owner -> Nat] /\ d[o] = c[o] - 1 /\ \A p \in Owner \ {o} : d[p] = c[p]
  OBVIOUS
<1>2. Holding(d) = Holding(c) \ {<<o, c[o]>>} /\ <<o, c[o]>> \in Holding(c)
  BY <1>1 DEF Holding
<1> HIDE DEF d
<1>3. Cardinality(Holding(d)) = Cardinality(Holding(c)) - 1
  BY <1>2, HoldingFinite, OneLess
<1> QED
  BY <1>1, <1>3 DEF d

-----------------------------------------------------------------------------
(* What the two operations of the semaphore do to the books.               *)

LEMMA QueuedIs ==
  \A p : Queued(p) = Cardinality(Positions(queue, p)) /\ Queued(p)' = Cardinality(Positions(queue', p))
  BY DEF Queued, Positions

LEMMA FlightType ==
  ASSUME TypeOK, NEW o \in Owner
  PROVE  Queued(o) \in Nat /\ calls[o] \in Nat /\ InFlight(o) \in Nat
<1>1. Queued(o) \in Nat
  <2>1. queue \in Seq(Owner)
    BY DEF TypeOK
  <2> QED
    BY <2>1, PositionsFinite, QueuedIs
<1> QED
  BY <1>1 DEF TypeOK, InFlight

(* Calls that are let in or queue count for their caller, and no other. *)
LEMMA AcquireBooks ==
  ASSUME TypeOK, Conserved, NEW o \in Owner, NEW n \in Nat, InFlight(o) + n <= Capacity,
         Acquire(o, n)
  PROVE  /\ free' \in 0 .. Capacity /\ calls' \in [Owner -> Nat] /\ queue' \in Seq(Owner)
         /\ \A p \in Owner : InFlight(p)' = InFlight(p) + (IF p = o THEN n ELSE 0)
         /\ Conserved'
<1> DEFINE now == Smaller(n, free)
           rest == n - now
<1>1. /\ free' = free - now /\ calls' = [calls EXCEPT ![o] = @ + now]
      /\ queue' = queue \o [i \in 1 .. rest |-> o]
  BY DEF Acquire
<1>2. now \in 0 .. free /\ rest \in Nat /\ now + rest = n /\ free \in 0 .. Capacity
  BY DEF TypeOK, Smaller
<1> HIDE DEF now, rest
<1>3. calls \in [Owner -> Nat] /\ queue \in Seq(Owner)
  BY DEF TypeOK
<1>4. calls' \in [Owner -> Nat]
  BY <1>1, <1>2, <1>3
<1>5. queue' \in Seq(Owner)
  BY <1>1, <1>2, <1>3, PositionsAppend
<1>6. \A p \in Owner : Queued(p)' = Queued(p) + (IF p = o THEN rest ELSE 0)
  <2> SUFFICES ASSUME NEW p \in Owner
               PROVE  Cardinality(Positions(queue', p))
                        = Cardinality(Positions(queue, p)) + (IF o = p THEN rest ELSE 0)
    BY QueuedIs
  <2>1. Cardinality(Positions(queue \o [i \in 1 .. rest |-> o], p))
          = Cardinality(Positions(queue, p)) + (IF o = p THEN rest ELSE 0)
    BY <1>2, <1>3, PositionsAppend
  <2> QED
    BY <1>1, <2>1
<1>7. \A p \in Owner : InFlight(p)' = InFlight(p) + (IF p = o THEN n ELSE 0)
  <2> TAKE p \in Owner
  <2>1. calls'[p] = calls[p] + (IF p = o THEN now ELSE 0)
    BY <1>1, <1>2, <1>3
  <2>2. Queued(p)' = Queued(p) + (IF p = o THEN rest ELSE 0)
    BY <1>6
  <2>3. Queued(p) \in Nat /\ calls[p] \in Nat
    BY FlightType
  <2> QED
    BY <1>2, <2>1, <2>2, <2>3 DEF InFlight
<1>8. Conserved'
  <2>1. calls[o] + now <= Capacity
    <3>1. Queued(o) \in Nat /\ calls[o] \in Nat
      BY FlightType
    <3> QED
      BY <1>2, <3>1 DEF InFlight
  <2>2. Cardinality(Holding(calls')) = Cardinality(Holding(calls)) + now
    <3>1. Cardinality(Holding([calls EXCEPT ![o] = @ + now])) = Cardinality(Holding(calls)) + now
      <4>1. now \in Nat
        BY <1>2
      <4> QED
        BY <1>3, <2>1, <4>1, HoldingMore
    <3> QED
      BY <1>1, <3>1
  <2>3. Cardinality(Holding(calls)) \in Nat
    BY HoldingFinite
  <2> QED
    BY <1>1, <1>2, <2>2, <2>3 DEF Conserved, AtDaemon, Holding
<1>9. free' \in 0 .. Capacity
  BY <1>1, <1>2
<1> QED
  BY <1>4, <1>5, <1>7, <1>8, <1>9

(* The permit of a call that ends goes to the head of the queue, or is     *)
(* free: its caller has one call less, and no more calls run than before.  *)
LEMMA ReleaseBooks ==
  ASSUME TypeOK, Conserved, SelfGated, NEW o \in Owner, calls[o] > 0, Release(o)
  PROVE  /\ free' \in 0 .. Capacity /\ calls' \in [Owner -> Nat] /\ queue' \in Seq(Owner)
         /\ \A p \in Owner : InFlight(p)' = InFlight(p) - (IF p = o THEN 1 ELSE 0)
         /\ Conserved'
         /\ Cardinality(AtDaemon') <= Cardinality(AtDaemon)
         /\ Len(queue') <= Len(queue)
<1> DEFINE c == [calls EXCEPT ![o] = @ - 1]
<1>1. calls \in [Owner -> Nat] /\ queue \in Seq(Owner) /\ free \in 0 .. Capacity
  BY DEF TypeOK
<1>2. \A p \in Owner : calls[p] \in Nat /\ Queued(p) \in Nat /\ calls[p] + Queued(p) <= Capacity
  BY FlightType DEF SelfGated
<1>3. calls[o] \in 1 .. Capacity
  BY <1>2
<1>4. /\ c \in [Owner -> Nat]
      /\ Cardinality(Holding(c)) = Cardinality(Holding(calls)) - 1
  BY <1>1, <1>3, HoldingLess
<1>5. \A p \in Owner : c[p] = calls[p] - (IF p = o THEN 1 ELSE 0)
  BY <1>1, <1>2
<1>6. Cardinality(Holding(calls)) \in Nat /\ AtDaemon = Holding(calls) /\ AtDaemon' = Holding(calls')
  BY HoldingFinite DEF AtDaemon, Holding
<1>7. CASE queue = << >>
  <2>1. calls' = c /\ free' = free + 1 /\ queue' = queue
    BY <1>7 DEF Release
  <2> HIDE DEF c
  <2>2. Cardinality(AtDaemon') = Cardinality(AtDaemon) - 1
    BY <1>4, <1>6, <2>1
  <2>3. Conserved'
    BY <1>1, <1>6, <2>1, <2>2 DEF Conserved
  <2>4. free' \in 0 .. Capacity
    <3>1. Cardinality(Holding(calls')) \in Nat
      BY HoldingFinite
    <3> QED
      BY <1>1, <1>6, <2>1, <2>3, <3>1 DEF Conserved
  <2>5. \A p \in Owner : InFlight(p)' = InFlight(p) - (IF p = o THEN 1 ELSE 0)
    <3> TAKE p \in Owner
    <3>1. Queued(p)' = Queued(p) /\ Queued(p) \in Nat /\ calls[p] \in Nat
      BY <1>2, <2>1 DEF Queued
    <3> QED
      BY <1>5, <2>1, <3>1 DEF InFlight
  <2>6. Len(queue') <= Len(queue)
    BY <1>1, <2>1, LenProperties
  <2> QED
    BY <1>1, <1>4, <1>6, <2>1, <2>2, <2>3, <2>4, <2>5, <2>6
<1>8. CASE queue # << >>
  <2> DEFINE h == Head(queue)
  <2>1. calls' = [c EXCEPT ![h] = @ + 1] /\ free' = free /\ queue' = Tail(queue)
    BY <1>8 DEF Release
  <2>2. h \in Owner /\ queue' \in Seq(Owner) /\ Len(queue') = Len(queue) - 1
    BY <1>1, <1>8, <2>1, HeadTailProperties
  <2>3. \A p \in Owner : Queued(p)' = Queued(p) - (IF p = h THEN 1 ELSE 0)
    <3> SUFFICES ASSUME NEW p \in Owner
                 PROVE  Cardinality(Positions(queue', p))
                          = Cardinality(Positions(queue, p)) - (IF h = p THEN 1 ELSE 0)
      BY QueuedIs
    <3> QED
      BY <1>1, <1>8, <2>1, PositionsTail
  <2>4. Queued(h) >= 1
    <3>1. 1 \in Positions(queue, h)
      BY <1>1, <1>8, EmptySeq, LenProperties DEF Positions
    <3>2. Cardinality(Positions(queue, h)) # 0
      BY <1>1, <3>1, PositionsFinite, FS_EmptySet
    <3> QED
      BY <1>2, <2>2, <3>2, QueuedIs
  <2> HIDE DEF c, h
  <2>5. calls' \in [Owner -> Nat] /\ \A p \in Owner : calls'[p] = c[p] + (IF p = h THEN 1 ELSE 0)
    BY <1>4, <2>1, <2>2
  <2>6. \A p \in Owner : InFlight(p)' = InFlight(p) - (IF p = o THEN 1 ELSE 0)
    <3> TAKE p \in Owner
    <3>1. /\ calls'[p] = c[p] + (IF p = h THEN 1 ELSE 0)
          /\ c[p] = calls[p] - (IF p = o THEN 1 ELSE 0)
          /\ Queued(p)' = Queued(p) - (IF p = h THEN 1 ELSE 0)
          /\ calls[p] \in Nat /\ Queued(p) \in Nat
      BY <1>2, <1>5, <2>3, <2>5
    <3> QED
      BY <3>1 DEF InFlight
  <2>7. c[h] + 1 <= Capacity
    <3>1. calls[h] \in Nat /\ Queued(h) \in Nat /\ calls[h] + Queued(h) <= Capacity
      BY <1>2, <2>2
    <3>2. c[h] <= calls[h] /\ c[h] \in Nat
      BY <1>4, <1>5, <2>2, <3>1
    <3> QED
      BY <2>4, <3>1, <3>2
  <2>8. Cardinality(Holding(calls')) = Cardinality(Holding(c)) + 1
    BY <1>4, <2>1, <2>2, <2>7, HoldingMore
  <2>9. Cardinality(AtDaemon') = Cardinality(AtDaemon)
    BY <1>4, <1>6, <2>8
  <2>10. Conserved'
    BY <2>1, <2>9 DEF Conserved
  <2>11. Len(queue') <= Len(queue) /\ Cardinality(AtDaemon') <= Cardinality(AtDaemon)
    BY <1>1, <1>6, <2>2, <2>9, LenProperties
  <2> QED
    BY <1>1, <2>1, <2>2, <2>5, <2>6, <2>10, <2>11
<1> QED
  BY <1>7, <1>8

-----------------------------------------------------------------------------
(* The breakers and the limits.                                            *)

BreakerState == [state : {"closed", "open", "half-open"},
                 fails : 0 .. BreakerThreshold + MaxFaults, left : 0 .. Cooldown]
LimitsState == [concurrency : MinConcurrency .. Capacity, span : MinSpan .. MaxSpan,
                streak : 0 .. RampThreshold - 1, debounce : 0 .. Debounce, quiet : 0 .. Quiet]

(* What Recorded and the types say of a value of breaker, after n faults. *)
BreakerFits(v, n) == v \in [Breakers -> BreakerState] /\ \A b \in Breakers : v[b].fails <= n

LEMMA FewerFaults ==
  ASSUME NEW v, NEW m \in Nat, NEW n \in Nat, m <= n, BreakerFits(v, m)
  PROVE  BreakerFits(v, n)
  BY DEF BreakerFits, BreakerState

LEMMA ProbingFits ==
  ASSUME BreakerFits(breaker, faults), NEW b \in Breakers
  PROVE  BreakerFits(Probing(b), faults)
  BY DEF BreakerFits, BreakerState, Probing

LEMMA SuccessFits ==
  ASSUME BreakerFits(breaker, faults), faults \in Nat, NEW b \in Breakers
  PROVE  BreakerFits(RecordSuccess(b), faults)
<1> DEFINE v == RecordSuccess(b)
<1>1. breaker \in [Breakers -> BreakerState]
  BY DEF BreakerFits
<1>2. v[b] = [breaker[b] EXCEPT !.state = "closed", !.fails = 0]
  BY <1>1 DEF RecordSuccess
<1>3. breaker[b] \in BreakerState
  BY <1>1
<1>4. v[b] \in BreakerState /\ v[b].fails = 0
  <2>1. /\ breaker[b].left \in 0 .. Cooldown
        /\ 0 \in 0 .. BreakerThreshold + MaxFaults
    BY <1>3 DEF BreakerState
  <2>2. \A r \in BreakerState : [r EXCEPT !.state = "closed", !.fails = 0] \in BreakerState
    BY <2>1 DEF BreakerState
  <2>3. \A r \in BreakerState : [r EXCEPT !.state = "closed", !.fails = 0].fails = 0
    BY DEF BreakerState
  <2> HIDE DEF v
  <2> QED
    BY <1>2, <1>3, <2>2, <2>3
<1>5. v = [c \in Breakers |-> v[c]] /\ \A c \in Breakers \ {b} : v[c] = breaker[c]
  BY <1>1 DEF RecordSuccess
<1> HIDE DEF v
<1>6. \A c \in Breakers : v[c] \in BreakerState /\ v[c].fails <= faults
  BY <1>1, <1>4, <1>5 DEF BreakerFits
<1>7. BreakerFits(v, faults)
  BY <1>5, <1>6 DEF BreakerFits
<1> QED
  BY <1>7 DEF v

LEMMA FailureFits ==
  ASSUME BreakerFits(breaker, faults), faults \in Nat, faults < MaxFaults, NEW b \in Breakers
  PROVE  BreakerFits(RecordFailure(b), faults + 1)
<1>1. BreakerFits(breaker, faults + 1)
  BY FewerFaults
<1>2. breaker[b] \in BreakerState /\ breaker[b].fails + 1 <= faults + 1
  BY DEF BreakerFits, BreakerState
<1>3. \A f \in 0 .. BreakerThreshold + MaxFaults :
        f <= faults + 1 => BreakerFits(Tripped(b, f), faults + 1)
  BY <1>1 DEF BreakerFits, BreakerState, Tripped
<1>4. breaker[b].fails + 1 \in 0 .. BreakerThreshold + MaxFaults
  BY <1>2 DEF BreakerState
<1>5. BreakerFits([breaker EXCEPT ![b].fails = breaker[b].fails + 1], faults + 1)
  BY <1>1, <1>2, <1>4 DEF BreakerFits, BreakerState
<1>6. BreakerFits(Tripped(b, breaker[b].fails), faults + 1)
  BY <1>1, <1>2, <1>3 DEF BreakerState, BreakerFits
<1>7. BreakerFits(Tripped(b, breaker[b].fails + 1), faults + 1)
  BY <1>2, <1>3, <1>4
<1> QED
  BY <1>1, <1>5, <1>6, <1>7 DEF RecordFailure

(* The updates of the limits, for whatever the fields range over. *)
LEMMA LimitsUpdates ==
  ASSUME NEW A, NEW B, NEW C, NEW D, NEW E,
         NEW r \in [concurrency : A, span : B, streak : C, debounce : D, quiet : E],
         NEW a \in A, NEW b \in B, NEW c \in C, NEW d \in D, NEW e \in E
  PROVE  LET R == [concurrency : A, span : B, streak : C, debounce : D, quiet : E] IN
         /\ [r EXCEPT !.streak = c] \in R
         /\ [r EXCEPT !.streak = c, !.concurrency = a] \in R
         /\ [r EXCEPT !.streak = c, !.span = b] \in R
         /\ [r EXCEPT !.quiet = e, !.streak = c] \in R
         /\ [r EXCEPT !.debounce = d, !.quiet = e] \in R
         /\ [concurrency |-> a, span |-> b, streak |-> c, debounce |-> d, quiet |-> e] \in R
  OBVIOUS

LEMMA LimitsFields ==
  ASSUME limits \in LimitsState
  PROVE  /\ limits.concurrency \in MinConcurrency .. Capacity /\ limits.span \in MinSpan .. MaxSpan
         /\ limits.streak \in 0 .. RampThreshold - 1
         /\ limits.debounce \in 0 .. Debounce /\ limits.quiet \in 0 .. Quiet
         /\ 0 \in 0 .. RampThreshold - 1 /\ Debounce \in 0 .. Debounce /\ Quiet \in 0 .. Quiet
         /\ limits.concurrency \div 2 \in 0 .. limits.concurrency
         /\ limits.span \div 2 \in 0 .. limits.span
<1>1. \A n \in Nat : n \div 2 \in 0 .. n
  OBVIOUS
<1>2. /\ limits.concurrency \in MinConcurrency .. Capacity /\ limits.span \in MinSpan .. MaxSpan
      /\ limits.streak \in 0 .. RampThreshold - 1
      /\ limits.debounce \in 0 .. Debounce /\ limits.quiet \in 0 .. Quiet
  BY DEF LimitsState
<1> QED
  BY <1>1, <1>2

LEMMA SuccessLimits ==
  ASSUME limits \in LimitsState
  PROVE  OnSuccess \in LimitsState
<1>1. CASE limits.concurrency >= Capacity /\ limits.span >= MaxSpan
  BY <1>1, LimitsFields, LimitsUpdates DEF OnSuccess, LimitsState
<1>2. CASE limits.streak + 1 < RampThreshold
  <2>1. limits.streak + 1 \in 0 .. RampThreshold - 1
    BY <1>2, LimitsFields
  <2>2. [limits EXCEPT !.streak = limits.streak + 1] \in LimitsState
    BY <2>1, LimitsFields, LimitsUpdates DEF LimitsState
  <2> QED
    BY <1>1, <1>2, <2>2 DEF OnSuccess
<1>3. Ramped \in LimitsState
  <2>1. CASE limits.concurrency < Capacity
    <3>1. limits.concurrency + 1 \in MinConcurrency .. Capacity
      BY <2>1, LimitsFields
    <3> QED
      BY <2>1, <3>1, LimitsFields, LimitsUpdates DEF Ramped, LimitsState
  <2>2. CASE ~(limits.concurrency < Capacity)
    <3>1. Smaller(MaxSpan, limits.span + Larger(1, limits.span \div 2)) \in MinSpan .. MaxSpan
      BY LimitsFields DEF Smaller, Larger
    <3> QED
      BY <2>2, <3>1, LimitsFields, LimitsUpdates DEF Ramped, LimitsState
  <2> QED
    BY <2>1, <2>2
<1> QED
  BY <1>1, <1>2, <1>3 DEF OnSuccess

LEMMA StressLimits ==
  ASSUME limits \in LimitsState
  PROVE  OnStress \in LimitsState
<1>1. CASE limits.debounce > 0
  BY <1>1, LimitsFields, LimitsUpdates DEF OnStress, LimitsState
<1>2. CASE ~(limits.debounce > 0)
  <2>1. /\ Larger(MinConcurrency, limits.concurrency \div 2) \in MinConcurrency .. Capacity
        /\ Larger(MinSpan, limits.span \div 2) \in MinSpan .. MaxSpan
    BY LimitsFields DEF Larger
  <2> QED
    BY <1>2, <2>1, LimitsFields, LimitsUpdates DEF OnStress, LimitsState
<1> QED
  BY <1>1, <1>2

-----------------------------------------------------------------------------
(* The invariant.                                                          *)

(* The part of it that is about the semaphore. *)
Books ==
  /\ free \in 0 .. Capacity /\ queue \in Seq(Owner) /\ calls \in [Owner -> Nat]
  /\ SelfGated /\ Conserved

(* And the part that is not. *)
Lanes ==
  /\ BreakerFits(breaker, faults) /\ limits \in LimitsState
  /\ resume \in [Job -> 0 .. MaxResume] /\ current \in {{}} \cup {{j} : j \in Job}
  /\ status \in {"backfilling", "live"} /\ live \in 0 .. MaxLive /\ faults \in 0 .. MaxFaults

LEMMA InvariantParts == IInv <=> Books /\ Lanes
  BY DEF IInv, TypeOK, Recorded, Books, Lanes, BreakerFits, BreakerState, LimitsState

LEMMA InitInvariant == Init => IInv
<1> SUFFICES ASSUME Init PROVE IInv
  OBVIOUS
<1>1. queue = << >> /\ queue \in Seq(Owner) /\ DOMAIN queue = {}
  BY SMT DEF Init
<1>2. calls \in [Owner -> Nat] /\ \A o \in Owner : calls[o] = 0
  BY DEF Init
<1>3. \A o \in Owner : Queued(o) = 0
  BY <1>1, FS_EmptySet DEF Queued
<1>4. AtDaemon = {}
  BY <1>2 DEF AtDaemon
<1>5. Conserved
  BY <1>4, FS_EmptySet DEF Init, Conserved
<1>6. SelfGated
  BY <1>2, <1>3 DEF SelfGated
<1>7. Lanes
  BY DEF Init, Lanes, BreakerFits, BreakerState, LimitsState
<1>8. Books
  BY <1>1, <1>2, <1>5, <1>6 DEF Init, Books
<1> QED
  BY <1>7, <1>8, InvariantParts

LEMMA BooksFrame ==
  ASSUME Books, UNCHANGED <<free, queue, calls>>
  PROVE  Books'
<1>1. SelfGated'
  BY DEF Books, SelfGated, Queued
<1>2. Conserved'
  BY DEF Books, Conserved, AtDaemon
<1> QED
  BY <1>1, <1>2 DEF Books

(* A walk fills up to the limit it finds at most, whatever it has under way. *)
LEMMA PumpBooks ==
  ASSUME IInv, NEW j \in Job, Pump(j)
  PROVE  Books'
<1> DEFINE room == limits.concurrency - InFlight(j)
<1>1. j \in Owner /\ InFlight(j) \in Nat /\ limits.concurrency \in 1 .. Capacity
  <2>1. j \in Owner
    BY DEF Owner
  <2>2. limits.concurrency \in MinConcurrency .. Capacity
    BY DEF IInv, TypeOK
  <2> QED
    BY <2>1, <2>2, FlightType DEF IInv
<1>2. CASE UNCHANGED <<free, queue, calls>>
  BY <1>2, BooksFrame, InvariantParts
<1>3. ASSUME NEW n \in 1 .. room, Acquire(j, n) PROVE Books'
  <2>1. n \in Nat /\ InFlight(j) + n <= Capacity
    BY <1>1, <1>3
  <2> HIDE DEF room
  <2>2. /\ free' \in 0 .. Capacity /\ calls' \in [Owner -> Nat] /\ queue' \in Seq(Owner)
        /\ \A p \in Owner : InFlight(p)' = InFlight(p) + (IF p = j THEN n ELSE 0)
        /\ Conserved'
    BY <1>1, <1>3, <2>1, AcquireBooks DEF IInv
  <2>3. \A p \in Owner : InFlight(p)' <= Capacity
    <3> TAKE p \in Owner
    <3>1. InFlight(p) <= Capacity /\ InFlight(p)' = InFlight(p) + (IF p = j THEN n ELSE 0)
      BY <2>2 DEF IInv, SelfGated, InFlight
    <3>2. InFlight(p) \in Nat
      BY FlightType DEF IInv
    <3> QED
      BY <2>1, <3>1, <3>2
  <2> QED
    BY <2>2, <2>3 DEF Books, SelfGated, InFlight
<1> QED
  BY <1>2, <1>3 DEF Pump

LEMMA ClaimBooks ==
  ASSUME IInv, ClaimCall
  PROVE  Books'
<1>1. Claims \in Owner /\ InFlight(Claims) = 0 /\ InFlight(Claims) + 1 <= Capacity
  BY DEF ClaimCall, Owner
<1>2. /\ free' \in 0 .. Capacity /\ calls' \in [Owner -> Nat] /\ queue' \in Seq(Owner)
      /\ \A p \in Owner : InFlight(p)' = InFlight(p) + (IF p = Claims THEN 1 ELSE 0)
      /\ Conserved'
  BY <1>1, AcquireBooks DEF IInv, ClaimCall
<1>3. \A p \in Owner : InFlight(p)' <= Capacity
  <2> TAKE p \in Owner
  <2>1. InFlight(p) <= Capacity /\ InFlight(p)' = InFlight(p) + (IF p = Claims THEN 1 ELSE 0)
    BY <1>2 DEF IInv, SelfGated, InFlight
  <2>2. InFlight(p) \in Nat
    BY FlightType DEF IInv
  <2> QED
    BY <1>1, <2>1, <2>2
<1> QED
  BY <1>2, <1>3 DEF Books, SelfGated, InFlight

LEMMA DoneBooks ==
  ASSUME IInv, NEW o \in Owner, HeavyDone(o)
  PROVE  /\ Books' /\ Cardinality(AtDaemon') <= Cardinality(AtDaemon)
         /\ Len(queue') <= Len(queue)
<1>1. calls[o] > 0 /\ Release(o)
  BY DEF HeavyDone, HeavySucceeds, HeavyFails
<1>2. /\ free' \in 0 .. Capacity /\ calls' \in [Owner -> Nat] /\ queue' \in Seq(Owner)
      /\ \A p \in Owner : InFlight(p)' = InFlight(p) - (IF p = o THEN 1 ELSE 0)
      /\ Conserved'
      /\ Cardinality(AtDaemon') <= Cardinality(AtDaemon)
      /\ Len(queue') <= Len(queue)
  BY <1>1, ReleaseBooks DEF IInv
<1>3. \A p \in Owner : InFlight(p)' <= Capacity
  <2> TAKE p \in Owner
  <2>1. InFlight(p) <= Capacity /\ InFlight(p)' = InFlight(p) - (IF p = o THEN 1 ELSE 0)
    BY <1>2 DEF IInv, SelfGated, InFlight
  <2>2. InFlight(p) \in Nat
    BY FlightType DEF IInv
  <2> QED
    BY <2>1, <2>2
<1> QED
  BY <1>2, <1>3 DEF Books, SelfGated, InFlight

LEMMA NextBooks == IInv /\ [Next]_vars => Books'
<1> SUFFICES ASSUME IInv, [Next]_vars PROVE Books'
  OBVIOUS
<1>1. CASE UNCHANGED <<free, queue, calls>>
  BY <1>1, BooksFrame, InvariantParts
<1>2. ASSUME NEW j \in Job, StartWalk(j) \/ Pump(j) \/ Finish(j) PROVE Books'
  BY <1>1, <1>2, PumpBooks DEF StartWalk, Finish
<1>3. CASE ClaimCall
  BY <1>3, ClaimBooks
<1>4. ASSUME NEW o \in Owner, HeavyDone(o) PROVE Books'
  BY <1>4, DoneBooks
<1> QED
  BY <1>1, <1>2, <1>3, <1>4 DEF Next, FallBehind, LiveCall, LiveDone, LiveSucceeds, LiveFails, Tick, vars

LEMMA TickFits ==
  ASSUME Lanes, Tick
  PROVE  BreakerFits(breaker', faults) /\ limits' \in LimitsState
<1>1. breaker \in [Breakers -> BreakerState] /\ \A b \in Breakers : breaker[b].fails <= faults
  BY DEF Lanes, BreakerFits
<1>2. \A r \in BreakerState : \A n \in 0 .. Cooldown :
        [r EXCEPT !.left = n] \in BreakerState /\ [r EXCEPT !.left = n].fails = r.fails
  BY DEF BreakerState
<1>3. \A b \in Breakers : breaker[b].left \in 0 .. Cooldown
  BY <1>1 DEF BreakerState
<1>4. breaker' = [b \in Breakers |-> [breaker[b] EXCEPT !.left = Larger(0, breaker[b].left - 1)]]
  BY DEF Tick
<1>5. \A b \in Breakers : Larger(0, breaker[b].left - 1) \in 0 .. Cooldown
  BY <1>3 DEF Larger
<1>6. BreakerFits(breaker', faults)
  <2>1. \A b \in Breakers : breaker'[b] \in BreakerState /\ breaker'[b].fails <= faults
    <3> TAKE b \in Breakers
    <3>1. breaker'[b] = [breaker[b] EXCEPT !.left = Larger(0, breaker[b].left - 1)]
      BY <1>4
    <3> QED
      BY <1>1, <1>2, <1>5, <3>1
  <2>2. breaker' = [b \in Breakers |-> breaker'[b]]
    BY <1>4
  <2> QED
    BY <2>1, <2>2 DEF BreakerFits
<1>7. limits' \in LimitsState
  <2>1. limits \in LimitsState
    BY DEF Lanes
  <2>2. /\ Larger(0, limits.debounce - 1) \in 0 .. Debounce
        /\ Larger(0, limits.quiet - 1) \in 0 .. Quiet
    BY <2>1, LimitsFields DEF Larger
  <2>3. limits' = [limits EXCEPT !.debounce = Larger(0, limits.debounce - 1),
                                 !.quiet = Larger(0, limits.quiet - 1)]
    BY <2>1 DEF Tick, LimitsState
  <2> QED
    BY <2>1, <2>2, <2>3, LimitsFields, LimitsUpdates DEF LimitsState
<1> QED
  BY <1>6, <1>7

LEMMA NextLanes == IInv /\ [Next]_vars => Lanes'
<1> SUFFICES ASSUME IInv, [Next]_vars PROVE Lanes'
  OBVIOUS
<1>0. /\ Lanes /\ faults \in Nat /\ "live" \in Breakers /\ "heavy" \in Breakers
      /\ BreakerFits(breaker, faults) /\ limits \in LimitsState
  BY InvariantParts DEF Lanes, Breakers
<1>1. CASE UNCHANGED vars
  BY <1>0, <1>1 DEF vars, Lanes
<1>2. ASSUME NEW j \in Job, StartWalk(j) PROVE Lanes'
  BY <1>0, <1>2 DEF StartWalk, Lanes
<1>3. ASSUME NEW j \in Job, Pump(j) PROVE Lanes'
  <2>1. BreakerFits(breaker', faults)
    BY <1>0, <1>3, ProbingFits DEF Pump, Acquire
  <2>2. current' \in {{}} \cup {{k} : k \in Job} /\ UNCHANGED <<limits, status, live, faults>>
    BY <1>0, <1>3 DEF Pump, Lanes
  <2>3. resume' \in [Job -> 0 .. MaxResume]
    BY <1>0, <1>3 DEF Pump, Lanes
  <2> QED
    BY <1>0, <2>1, <2>2, <2>3 DEF Lanes
<1>4. CASE ClaimCall
  <2>1. BreakerFits(breaker', faults)
    BY <1>0, <1>4, ProbingFits DEF ClaimCall, Acquire
  <2> QED
    BY <1>0, <1>4, <2>1 DEF ClaimCall, Lanes
<1>5. ASSUME NEW o \in Owner, HeavySucceeds(o) PROVE Lanes'
  <2>1. BreakerFits(breaker', faults) /\ limits' \in LimitsState
    BY <1>0, <1>5, SuccessFits, SuccessLimits DEF HeavySucceeds
  <2>2. resume' \in [Job -> 0 .. MaxResume]
    BY <1>0, <1>5 DEF HeavySucceeds, Lanes, Smaller
  <2> QED
    BY <1>0, <1>5, <2>1, <2>2 DEF HeavySucceeds, Lanes
<1>6. ASSUME NEW o \in Owner, HeavyFails(o) PROVE Lanes'
  <2>1. faults < MaxFaults /\ faults' = faults + 1
    BY <1>6 DEF HeavyFails
  <2>2. BreakerFits(breaker', faults') /\ limits' \in LimitsState
    BY <1>0, <1>6, <2>1, FailureFits, StressLimits DEF HeavyFails
  <2>3. current' \in {{}} \cup {{k} : k \in Job} /\ UNCHANGED <<resume, status, live>>
    BY <1>0, <1>6 DEF HeavyFails, Lanes
  <2>4. faults' \in 0 .. MaxFaults
    BY <1>0, <2>1
  <2> QED
    BY <1>0, <2>2, <2>3, <2>4 DEF Lanes
<1>7. CASE LiveCall
  <2>1. BreakerFits(breaker', faults)
    BY <1>0, <1>7, ProbingFits DEF LiveCall
  <2> QED
    BY <1>0, <1>7, <2>1 DEF LiveCall, Lanes
<1>8. CASE LiveSucceeds
  <2>1. BreakerFits(breaker', faults)
    BY <1>0, <1>8, SuccessFits DEF LiveSucceeds
  <2> QED
    BY <1>0, <1>8, <2>1 DEF LiveSucceeds, Lanes
<1>9. CASE LiveFails
  <2>1. faults < MaxFaults /\ faults' = faults + 1
    BY <1>9 DEF LiveFails
  <2>2. BreakerFits(breaker', faults') /\ limits' \in LimitsState
    BY <1>0, <1>9, <2>1, FailureFits, StressLimits DEF LiveFails
  <2>3. faults' \in 0 .. MaxFaults /\ live' \in 0 .. MaxLive /\ UNCHANGED <<resume, current, status>>
    BY <1>0, <1>9, <2>1 DEF LiveFails, Lanes
  <2> QED
    BY <1>0, <2>2, <2>3 DEF Lanes
<1>10. CASE Tick
  <2>1. BreakerFits(breaker', faults) /\ limits' \in LimitsState
    BY <1>0, <1>10, TickFits
  <2> QED
    BY <1>0, <1>10, <2>1 DEF Tick, Lanes
<1>11. ASSUME NEW j \in Job, Finish(j) PROVE Lanes'
  BY <1>0, <1>11 DEF Finish, Lanes
<1>12. CASE FallBehind
  BY <1>0, <1>12 DEF FallBehind, Lanes
<1> QED
  BY <1>1, <1>2, <1>3, <1>4, <1>5, <1>6, <1>7, <1>8, <1>9, <1>10, <1>11, <1>12
  DEF Next, HeavyDone, LiveDone

LEMMA NextInvariant == IInv /\ [Next]_vars => IInv'
<1>1. IInv' <=> Books' /\ Lanes'
  BY InvariantParts, PTL
<1> QED
  BY <1>1, NextBooks, NextLanes

LEMMA LanesInvariant == Safety => []IInv
  BY InitInvariant, NextInvariant, PTL DEF Safety

-----------------------------------------------------------------------------
(* Limits and breakers stay in their ranges, whatever the lanes return.    *)
THEOREM LanesTypes == Safety => []TypeOK
<1>1. IInv => TypeOK
  BY DEF IInv
<1> QED
  BY <1>1, LanesInvariant, PTL

(* "Each caller gates itself": a walk that was refused, or rejected with   *)
(* calls under way, and the walk that follows it, never have more calls in *)
(* the semaphore, each, than the configured maximum.                       *)
THEOREM CallersGateThemselves == Safety => []SelfGated
<1>1. IInv => SelfGated
  BY DEF IInv
<1> QED
  BY <1>1, LanesInvariant, PTL

(* A permit is free or held by a call at the daemon: handing one to the    *)
(* oldest waiter neither loses nor doubles it.                             *)
THEOREM PermitsConserved == Safety => []Conserved
<1>1. IInv => Conserved
  BY DEF IInv
<1> QED
  BY <1>1, LanesInvariant, PTL

(* A stress window or an open breaker drains the heavy lane: calls answer, *)
(* waiters take their permits, and nobody is let in or queued.             *)
THEOREM NothingJoinsTheDrain == Safety => DrainWindow
<1>1. ASSUME IInv, [Next]_vars
      PROVE  LeftAlone => Cardinality(AtDaemon') <= Cardinality(AtDaemon) /\ Len(queue') <= Len(queue)
  <2> SUFFICES ASSUME LeftAlone
               PROVE  Cardinality(AtDaemon') <= Cardinality(AtDaemon) /\ Len(queue') <= Len(queue)
    OBVIOUS
  <2>1. HeavyRefused
    BY DEF LeftAlone, HeavyRefused, Breakers
  <2>2. Cardinality(AtDaemon) \in Nat /\ Len(queue) \in Nat
    BY <1>1, HoldingFinite, LenProperties DEF AtDaemon, Holding, IInv, TypeOK
  <2>3. CASE UNCHANGED <<queue, calls>>
    BY <2>2, <2>3 DEF AtDaemon
  <2>4. ASSUME NEW o \in Owner, HeavyDone(o)
        PROVE  Cardinality(AtDaemon') <= Cardinality(AtDaemon) /\ Len(queue') <= Len(queue)
    BY <1>1, <2>4, DoneBooks
  <2> QED
    BY <1>1, <2>1, <2>3, <2>4
    DEF Next, StartWalk, Pump, Finish, FallBehind, ClaimCall, LiveCall, LiveDone, LiveSucceeds, LiveFails, Tick, vars
<1> QED
  BY <1>1, LanesInvariant, PTL DEF Safety, DrainWindow
=============================================================================
