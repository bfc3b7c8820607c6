-------------------------- MODULE TrafficOrderProofs --------------------------
(***************************************************************************)
(* Proofs about the order of messages in Traffic, for any number of        *)
(* messages, partitions, retries, fetch errors and redeliveries: what the  *)
(* tracker reports when the producer is idempotent, that a baseline that   *)
(* passed without a redelivery was consumed in order, and that one that    *)
(* failed was disturbed.                                                   *)
(***************************************************************************)
EXTENDS TrafficProofs

(***************************************************************************)
(* Partition and sequence of a message                                     *)
(***************************************************************************)
LEMMA DivMod ==
    ASSUME NEW n \in Nat \ {0}, NEW a \in Nat
    PROVE  /\ a = n * (a \div n) + (a % n)
           /\ a \div n \in Nat
           /\ a % n \in 0..n - 1
OBVIOUS

LEMMA Multiply ==
    ASSUME NEW n \in Nat \ {0}, NEW x \in Nat, NEW y \in Nat, x <= y
    PROVE  n * x <= n * y
OBVIOUS

LEMMA DivGrows ==
    ASSUME NEW n \in Nat \ {0}, NEW a \in Nat, NEW b \in Nat, a % n = b % n, a < b
    PROVE  a \div n < b \div n
<1>1. a = n * (a \div n) + (a % n) /\ b = n * (b \div n) + (b % n)
  BY DivMod
<1>2. a \div n \in Nat /\ b \div n \in Nat /\ a % n \in Nat
  <2>1. a \div n \in Nat /\ a % n \in 0..n - 1 /\ b \div n \in Nat
    BY DivMod
  <2> QED
    BY <2>1
<1>3. b \div n <= a \div n => n * (b \div n) <= n * (a \div n)
  BY <1>2, Multiply
<1> QED
  BY <1>1, <1>2, <1>3

LEMMA DivModUnique ==
    ASSUME NEW n \in Nat \ {0}, NEW x \in Nat, NEW y \in Nat,
           NEW u \in 0..n - 1, NEW v \in 0..n - 1, n * x + u = n * y + v
    PROVE  x = y /\ u = v
<1>1. ASSUME NEW i \in Nat, NEW j \in Nat, NEW r \in 0..n - 1, NEW s \in 0..n - 1,
             n * i + r = n * j + s, i < j
      PROVE  FALSE
  <2>1. n * (i + 1) <= n * j
    BY <1>1, Multiply
  <2>2. n * (i + 1) = n * i + n
    OBVIOUS
  <2>3. n * i \in Nat /\ n * j \in Nat
    OBVIOUS
  <2> QED
    BY <1>1, <2>1, <2>2, <2>3
<1>2. x = y
  BY <1>1
<1> QED
  BY <1>2

LEMMA DivModBefore ==
    ASSUME NEW n \in Nat \ {0}, NEW b \in Nat
    PROVE  (b + n) % n = b % n /\ (b + n) \div n = b \div n + 1
<1> DEFINE q == b \div n
           r == b % n
           x == (b + n) \div n
           u == (b + n) % n
<1>1. b = n * q + r /\ q \in Nat /\ r \in 0..n - 1
  BY DivMod
<1>2. b + n \in Nat
  OBVIOUS
<1>3. b + n = n * x + u /\ x \in Nat /\ u \in 0..n - 1
  BY <1>2, DivMod
<1> HIDE DEF q, r, x, u
<1>4. n * (q + 1) = n * q + n /\ n * q \in Nat /\ n * x \in Nat
  BY <1>1, <1>3
<1>5. n * (q + 1) + r = n * x + u
  BY <1>1, <1>3, <1>4
<1>6. q + 1 \in Nat
  BY <1>1
<1>7. q + 1 = x /\ r = u
  BY <1>1, <1>3, <1>5, <1>6, DivModUnique
<1> QED
  BY <1>7 DEF q, r, x, u

\* In a partition the sequence grows with the message (Generator.Next).
LEMMA SequenceGrows ==
    ASSUME NEW a \in Nat \ {0}, NEW b \in Nat \ {0}, PartitionOf(a) = PartitionOf(b), a < b
    PROVE  SequenceOf(a) < SequenceOf(b)
<1>1. NPartitions \in Nat \ {0} /\ a - 1 \in Nat /\ b - 1 \in Nat /\ a - 1 < b - 1
  BY TrafficAssumption
<1>2. (a - 1) % NPartitions = (b - 1) % NPartitions
  BY DEF PartitionOf
<1>3. (a - 1) \div NPartitions < (b - 1) \div NPartitions
  BY <1>1, <1>2, DivGrows
<1>4. (a - 1) \div NPartitions \in Nat /\ (b - 1) \div NPartitions \in Nat
  BY <1>1, DivMod
<1> QED
  BY <1>3, <1>4 DEF SequenceOf

LEMMA SequenceOrders ==
    ASSUME NEW a \in Nat \ {0}, NEW b \in Nat \ {0}, PartitionOf(a) = PartitionOf(b),
           SequenceOf(a) < SequenceOf(b)
    PROVE  a < b
<1>1. b < a => SequenceOf(b) < SequenceOf(a)
  BY SequenceGrows
<1>2. SequenceOf(a) \in Nat /\ SequenceOf(b) \in Nat
  BY SequenceType
<1>3. a # b
  BY <1>2
<1> QED
  BY <1>1, <1>2, <1>3

\* The message before in the partition.
LEMMA SequenceBefore ==
    ASSUME NEW a \in Nat \ {0}
    PROVE  PartitionOf(a + NPartitions) = PartitionOf(a) /\ SequenceOf(a + NPartitions) = SequenceOf(a) + 1
<1>1. NPartitions \in Nat \ {0} /\ a - 1 \in Nat
  BY TrafficAssumption
<1> SUFFICES ASSUME NEW b, b = a + NPartitions, NEW c, c = a - 1
             PROVE  PartitionOf(b) = PartitionOf(a) /\ SequenceOf(b) = SequenceOf(a) + 1
  OBVIOUS
<1>2. b - 1 = c + NPartitions /\ c \in Nat
  BY <1>1
<1>3. (c + NPartitions) % NPartitions = c % NPartitions
  BY <1>1, <1>2, DivModBefore
<1>4. (c + NPartitions) \div NPartitions = c \div NPartitions + 1
  BY <1>1, <1>2, DivModBefore
<1>5. PartitionOf(b) = c % NPartitions /\ SequenceOf(b) = c \div NPartitions + 1 + 1
  BY <1>2, <1>3, <1>4, Zenon DEF PartitionOf, SequenceOf
<1>6. PartitionOf(a) = c % NPartitions /\ SequenceOf(a) = c \div NPartitions + 1
  BY Zenon DEF PartitionOf, SequenceOf
<1> QED
  BY <1>5, <1>6
-----------------------------------------------------------------------------
(***************************************************************************)
(* Sequences in order                                                      *)
(***************************************************************************)
Increasing(s) == \A i, j \in 1..Len(s) : i < j => s[i] < s[j]

\* Everything in s is before whatever b has after its first n elements.
Ahead(s, b, n) == \A i \in 1..Len(s), j \in 1..Len(b) : n < j => s[i] < b[j]

\* A partition's buffer is in order; with an idempotent producer so is its log,
\* which ends before what the buffer has yet to append.
InOrder(l, b, n, a) ==
    /\ Increasing(b)
    /\ n > 0 => a > 0
    /\ Idempotent => Increasing(l) /\ Ahead(l, b, n)

LEMMA OrderProduced ==
    ASSUME NEW l \in Seq(Messages), NEW b \in Seq(Messages), NEW n \in 0..Len(b), NEW a \in Nat,
           InOrder(l, b, n, a), NEW m \in Messages,
           \A i \in 1..Len(l) : l[i] < m, \A i \in 1..Len(b) : b[i] < m
    PROVE  InOrder(l, Append(b, m), n, a)
<1> SUFFICES ASSUME NEW c, c = Append(b, m) PROVE InOrder(l, c, n, a)
  OBVIOUS
<1>1. /\ Len(c) = Len(b) + 1
      /\ \A i \in 1..Len(b) : c[i] = b[i]
      /\ c[Len(b) + 1] = m
  BY Appended
<1>2. Len(b) \in Nat /\ \A i \in 1..Len(b) + 1 : i \in 1..Len(b) \/ i = Len(b) + 1
  OBVIOUS
<1>3. Increasing(c)
  BY <1>1, <1>2 DEF Increasing, InOrder
<1>4. Idempotent => Ahead(l, c, n)
  BY <1>1, <1>2 DEF Ahead, InOrder
<1> QED
  BY <1>3, <1>4 DEF InOrder

LEMMA OrderAppended ==
    ASSUME NEW l \in Seq(Messages), NEW b \in Seq(Messages), NEW n \in 0..Len(b), NEW a \in Nat,
           InOrder(l, b, n, a), Idempotent => a = 0, NEW k \in 0..Len(b)
    PROVE  InOrder(l \o SubSeq(b, 1, k), b, k, a + 1)
<1> SUFFICES ASSUME NEW t, t = SubSeq(b, 1, k), NEW c, c = l \o t PROVE InOrder(c, b, k, a + 1)
  OBVIOUS
<1>1. t \in Seq(Messages) /\ Len(t) = k /\ \A i \in 1..k : t[i] = b[i]
  BY Cut
<1>2. /\ Len(c) = Len(l) + k
      /\ \A i \in 1..Len(l) : c[i] = l[i]
      /\ \A i \in 1..k : c[Len(l) + i] = t[i]
  BY <1>1, Joined
<1>3. Len(l) \in Nat /\ k \in Nat /\ Len(b) \in Nat
  OBVIOUS
<1>4. ASSUME NEW i \in 1..Len(c), i \notin 1..Len(l)
      PROVE  i - Len(l) \in 1..k /\ i - Len(l) \in 1..Len(b) /\ c[i] = b[i - Len(l)]
  <2>1. i - Len(l) \in 1..k /\ Len(l) + (i - Len(l)) = i
    BY <1>2, <1>3, <1>4
  <2> DEFINE j == i - Len(l)
  <2>2. j \in 1..k /\ Len(l) + j = i
    BY <2>1
  <2>3. j \in 1..Len(b)
    BY <1>3, <2>2
  <2> HIDE DEF j
  <2>4. c[i] = b[j]
    BY <1>1, <1>2, <2>2
  <2> QED
    BY <2>2, <2>3, <2>4 DEF j
<1>5. ASSUME Idempotent PROVE n = 0 /\ Increasing(l) /\ Ahead(l, b, 0) /\ Increasing(b)
  BY <1>5 DEF InOrder
<1>6. ASSUME Idempotent, NEW i \in 1..Len(c), NEW j \in 1..Len(c), i < j PROVE c[i] < c[j]
  <2>1. CASE j \in 1..Len(l)
    <3>1. i \in 1..Len(l)
      BY <1>3, <1>6, <2>1
    <3> QED
      BY <1>2, <1>5, <1>6, <2>1, <3>1 DEF Increasing
  <2>2. CASE i \in 1..Len(l) /\ j \notin 1..Len(l)
    BY <1>2, <1>4, <1>5, <1>6, <2>2 DEF Ahead
  <2>3. CASE i \notin 1..Len(l) /\ j \notin 1..Len(l)
    <3>1. i - Len(l) < j - Len(l)
      BY <1>2, <1>3, <1>6
    <3> QED
      BY <1>4, <1>5, <1>6, <2>3, <3>1 DEF Increasing
  <2> QED
    BY <2>1, <2>2, <2>3
<1>7. ASSUME Idempotent, NEW i \in 1..Len(c), NEW j \in 1..Len(b), k < j PROVE c[i] < b[j]
  <2>1. CASE i \in 1..Len(l)
    BY <1>2, <1>5, <1>7, <2>1 DEF Ahead
  <2>2. CASE i \notin 1..Len(l)
    <3>1. i - Len(l) \in 1..Len(b) /\ c[i] = b[i - Len(l)] /\ i - Len(l) \in 1..k
      BY <1>4, <2>2
    <3>2. i - Len(l) < j
      BY <1>3, <1>7, <3>1
    <3> QED
      BY <1>5, <1>7, <3>1, <3>2 DEF Increasing
  <2> QED
    BY <2>1, <2>2
<1> QED
  BY <1>6, <1>7 DEF InOrder, Increasing, Ahead

LEMMA OrderFinished ==
    ASSUME NEW l \in Seq(Messages), NEW b \in Seq(Messages), NEW n \in 0..Len(b), NEW a \in Nat,
           InOrder(l, b, n, a), NEW k \in n..Len(b)
    PROVE  InOrder(l, SubSeq(b, k + 1, Len(b)), 0, 0)
<1> SUFFICES ASSUME NEW c, c = SubSeq(b, k + 1, Len(b)) PROVE InOrder(l, c, 0, 0)
  OBVIOUS
<1>1. Len(b) \in Nat /\ k \in 0..Len(b) /\ n <= k
  OBVIOUS
<1>2. c \in Seq(Messages) /\ Len(c) = Len(b) - k /\ \A i \in 1..Len(b) - k : c[i] = b[k + i]
  BY <1>1, Cut
<1>3. \A i \in 1..Len(c) : k + i \in 1..Len(b) /\ c[i] = b[k + i] /\ n < k + i
  BY <1>1, <1>2
<1>4. \A i, j \in 1..Len(c) : i < j => k + i < k + j
  BY <1>1
<1>5. Increasing(c)
  BY <1>3, <1>4 DEF Increasing, InOrder
<1>6. Idempotent => Ahead(l, c, 0)
  BY <1>3 DEF Ahead, InOrder
<1> QED
  BY <1>5, <1>6 DEF InOrder
-----------------------------------------------------------------------------
(***************************************************************************)
(* The order of a partition's log                                          *)
(***************************************************************************)
OrderInv == \A p \in Partitions : InOrder(log[p], buffered[p], inflight[p], appends[p])

\* The parts of a step that matter to the order.
LEMMA OrderSteps ==
    ASSUME PlaceInv, [Next]_vars
    PROVE  \/ Produce
           \/ \E p \in Partitions : BrokerAppends(p)
           \/ \E p \in Partitions, ok \in BOOLEAN : \E k \in inflight[p]..Len(buffered[p]) :
                 Finish(p, k, ok)
           \/ UNCHANGED <<log, buffered, inflight, appends>>
<1> USE DEF clientVars
<1>1. CASE UNCHANGED vars
  BY <1>1 DEF vars
<1>2. ASSUME NEW p \in Partitions, BatchAcknowledged(p) \/ BatchFails(p)
      PROVE  \E ok \in BOOLEAN : \E k \in inflight[p]..Len(buffered[p]) : Finish(p, k, ok)
  <2>1. Len(buffered[p]) \in Nat /\ inflight[p] \in 0..Len(buffered[p])
    BY DEF PlaceInv, CoreType, BatchFits
  <2>2. CASE BatchAcknowledged(p)
    <3>1. inflight[p] \in inflight[p]..Len(buffered[p]) /\ TRUE \in BOOLEAN
      BY <2>1
    <3>2. Finish(p, inflight[p], TRUE)
      BY <2>2 DEF BatchAcknowledged
    <3> QED
      BY <3>1, <3>2, Zenon
  <2>3. CASE BatchFails(p)
    <3>1. PICK k \in IF inflight[p] = 0 THEN 1..Len(buffered[p]) ELSE {inflight[p]} :
              Finish(p, k, FALSE)
      BY <2>3 DEF BatchFails
    <3>2. k \in inflight[p]..Len(buffered[p])
      BY <2>1
    <3> QED
      BY <3>1, <3>2
  <2> QED
    BY <1>2, <2>2, <2>3
<1>3. CASE RunnerStep
  BY <1>3 DEF RunnerStep, Running, Available, Abort, StopProducer, ProducerDone, Drained,
              DrainDeadline, ConsumerDone, Analyse, systemVars
<1>4. CASE ConsumerStep
  BY <1>4 DEF ConsumerStep, Running, PollDelivers, Process, Commit, ConsumerCancelled
<1>5. CASE ProducerStep
  BY <1>5 DEF ProducerStep, Running, ProducerCancelled, Flushed, Callback
<1>6. CASE Running(PollFails \/ ArtifactFails \/ ExperimentTimeout \/ \E p \in Partitions : Rebalance(p))
  BY <1>6 DEF Running, PollFails, ArtifactFails, ExperimentTimeout, Rebalance, systemVars
<1> QED
  BY <1>1, <1>2, <1>3, <1>4, <1>5, <1>6 DEF Next, ClientStep, Disturbance, Running

LEMMA OrderParts ==
    ASSUME PlaceInv, RestInv, OrderInv, NEW p \in Partitions
    PROVE  /\ log[p] \in Seq(Messages) /\ buffered[p] \in Seq(Messages)
           /\ inflight[p] \in 0..Len(buffered[p]) /\ appends[p] \in Nat
           /\ InOrder(log[p], buffered[p], inflight[p], appends[p])
<1>1. appends[p] \in Nat
  BY BoundsAreNat DEF RestInv, ClientType
<1>2. log[p] \in Seq(Messages) /\ buffered[p] \in Seq(Messages) /\ inflight[p] \in 0..Len(buffered[p])
  BY DEF PlaceInv, CoreType, BatchFits, RestInv, ClientType
<1> QED
  BY <1>1, <1>2 DEF OrderInv

LEMMA OrderStep ==
    ASSUME PlaceInv, RestInv, LogIsProduced, OrderInv, [Next]_vars
    PROVE  OrderInv'
<1> SUFFICES ASSUME NEW q \in Partitions
             PROVE  InOrder(log'[q], buffered'[q], inflight'[q], appends'[q])
  BY DEF OrderInv, InOrder, Increasing, Ahead, Partitions
<1>1. InOrder(log[q], buffered[q], inflight[q], appends[q])
  BY DEF OrderInv
<1>2. CASE Produce
  <2> SUFFICES ASSUME NEW m, m = produced + 1
               PROVE  InOrder(log'[q], buffered'[q], inflight'[q], appends'[q])
    OBVIOUS
  <2>1. /\ buffered' = [buffered EXCEPT ![PartitionOf(m)] = Append(@, m)]
        /\ UNCHANGED <<inflight, appends, log>>
    BY <1>2 DEF Produce
  <2>2. m \in Messages /\ produced \in Nat
    BY <1>2, BoundsAreNat DEF Produce, Messages, PlaceInv, CoreType
  <2>3. CASE q = PartitionOf(m)
    <3>1. buffered'[q] = Append(buffered[q], m)
      BY <2>1, <2>3 DEF PlaceInv, CoreType
    <3>2. \A i \in 1..Len(log[q]) : log[q][i] < m
      BY <2>2 DEF LogIsProduced
    <3>3. \A i \in 1..Len(buffered[q]) : buffered[q][i] < m
      BY <2>2 DEF PlaceInv, BufferedOnce
    <3>4. InOrder(log[q], Append(buffered[q], m), inflight[q], appends[q])
      BY <2>2, <3>2, <3>3, OrderParts, OrderProduced
    <3> QED
      BY <2>1, <3>1, <3>4
  <2>4. CASE q # PartitionOf(m)
    <3>1. buffered'[q] = buffered[q]
      BY <2>1, <2>4 DEF PlaceInv, CoreType
    <3> QED
      BY <1>1, <2>1, <3>1
  <2> QED
    BY <2>3, <2>4
<1>3. ASSUME NEW p \in Partitions, BrokerAppends(p)
      PROVE  InOrder(log'[q], buffered'[q], inflight'[q], appends'[q])
  <2>1. PICK k \in 0..Len(buffered[p]) :
            /\ inflight' = [inflight EXCEPT ![p] = k]
            /\ log'[p] = log[p] \o SubSeq(buffered[p], 1, k)
    BY <1>3, LogGrows
  <2>2. \A r \in Partitions : r # p => log'[r] = log[r]
    BY <1>3, LogGrows
  <2>3. appends' = [appends EXCEPT ![p] = @ + 1] /\ UNCHANGED buffered
    BY <1>3 DEF BrokerAppends
  <2>4. CASE q = p
    <3>1. Idempotent => appends[q] = 0
      <4>1. appends[q] \in Nat
        BY OrderParts
      <4> QED
        BY <1>3, <2>4, <4>1 DEF BrokerAppends
    <3>2. InOrder(log[q] \o SubSeq(buffered[q], 1, k), buffered[q], k, appends[q] + 1)
      BY <2>4, <3>1, OrderParts, OrderAppended
    <3>3. inflight'[q] = k /\ appends'[q] = appends[q] + 1 /\ buffered'[q] = buffered[q]
      BY <2>1, <2>3, <2>4 DEF PlaceInv, CoreType, RestInv, ClientType
    <3>4. log'[q] = log[q] \o SubSeq(buffered[q], 1, k)
      BY <2>1, <2>4
    <3> QED
      BY <3>2, <3>3, <3>4
  <2>5. CASE q # p
    <3>1. inflight'[q] = inflight[q] /\ appends'[q] = appends[q] /\ buffered'[q] = buffered[q]
      BY <2>1, <2>3, <2>5 DEF PlaceInv, CoreType, RestInv, ClientType
    <3>2. log'[q] = log[q]
      BY <2>2, <2>5
    <3> QED
      BY <1>1, <3>1, <3>2
  <2> QED
    BY <2>4, <2>5
<1>4. ASSUME NEW p \in Partitions, NEW ok \in BOOLEAN, NEW k \in inflight[p]..Len(buffered[p]),
             Finish(p, k, ok)
      PROVE  InOrder(log'[q], buffered'[q], inflight'[q], appends'[q])
  <2>1. /\ buffered' = [buffered EXCEPT ![p] = SubSeq(@, k + 1, Len(@))]
        /\ inflight' = [inflight EXCEPT ![p] = 0]
        /\ appends' = [appends EXCEPT ![p] = 0]
        /\ UNCHANGED log
    BY <1>4 DEF Finish
  <2>2. CASE q = p
    <3>1. InOrder(log[q], SubSeq(buffered[q], k + 1, Len(buffered[q])), 0, 0)
      BY <2>2, OrderParts, OrderFinished
    <3>2. /\ buffered'[q] = SubSeq(buffered[q], k + 1, Len(buffered[q]))
          /\ inflight'[q] = 0 /\ appends'[q] = 0 /\ log'[q] = log[q]
      BY <2>1, <2>2 DEF PlaceInv, CoreType, RestInv, ClientType
    <3> QED
      BY <3>1, <3>2
  <2>3. CASE q # p
    <3>1. /\ inflight'[q] = inflight[q] /\ appends'[q] = appends[q]
          /\ buffered'[q] = buffered[q] /\ log'[q] = log[q]
      BY <2>1, <2>3 DEF PlaceInv, CoreType, RestInv, ClientType
    <3> QED
      BY <1>1, <3>1
  <2> QED
    BY <2>2, <2>3
<1>5. CASE UNCHANGED <<log, buffered, inflight, appends>>
  BY <1>1, <1>5
<1> QED
  BY <1>2, <1>3, <1>4, <1>5, OrderSteps

LEMMA OrderAlways == Spec => []OrderInv
<1>1. Init => OrderInv
  <2>1. Len(<<>>) = 0 /\ 1..0 = {}
    OBVIOUS
  <2> QED
    BY <2>1 DEF Init, OrderInv, InOrder, Increasing, Ahead
<1>2. PlaceInv /\ RestInv /\ LogIsProduced /\ OrderInv /\ [Next]_vars => OrderInv'
  BY OrderStep
<1> QED
  BY <1>1, <1>2, PlaceAlways, RestAlways, ConsumedAlways, PTL DEF Spec
-----------------------------------------------------------------------------
(***************************************************************************)
(* The tracker                                                             *)
(***************************************************************************)
\* What the tracker remembers of a partition with log l is a record of it.
LastInLog(x, l) ==
    x # NoPosition =>
        /\ x.offset \in 0..Len(l) - 1
        /\ x.sequence = SequenceOf(l[x.offset + 1])

\* A message the tracker knows is not beyond its partition's last one.
Behind(t, m) ==
    /\ t.last[PartitionOf(m)] # NoPosition
    /\ SequenceOf(m) <= t.last[PartitionOf(m)].sequence

TrackerInv ==
    /\ \A p \in Partitions : LastInLog(tracker.last[p], log[p])
    /\ Idempotent => \A m \in tracker.seen : Behind(tracker, m)

\* What the consumer reads at an offset.
LEMMA ProcessParts ==
    ASSUME RestInv, LogIsProduced, NEW p \in Partitions, Process(p)
    PROVE  \E o \in Nat, m \in Messages :
              /\ o = next[p] /\ o + 1 \in 1..Len(log[p]) /\ m = log[p][o + 1] /\ PartitionOf(m) = p
              /\ tracker' = Observed(tracker, p, o, m, SequenceOf(m))
              /\ \/ /\ ~cBroken /\ ~cBroken'
                    /\ cFile' = Append(cFile,
                                  [id |-> m, flags |-> Observe(tracker, p, o, m, SequenceOf(m))])
                 \/ cBroken' /\ cFile' = cFile
<1> SUFFICES ASSUME NEW o, o = next[p], NEW m, m = log[p][o + 1]
             PROVE  /\ o \in Nat /\ m \in Messages
                    /\ o + 1 \in 1..Len(log[p]) /\ PartitionOf(m) = p
                    /\ tracker' = Observed(tracker, p, o, m, SequenceOf(m))
                    /\ \/ /\ ~cBroken /\ ~cBroken'
                          /\ cFile' = Append(cFile,
                                        [id |-> m, flags |-> Observe(tracker, p, o, m, SequenceOf(m))])
                       \/ cBroken' /\ cFile' = cFile
  OBVIOUS
<1>1. o \in Nat /\ o + 1 \in 1..Len(log[p]) /\ m \in Messages
  BY ProcessRead
<1>2. PartitionOf(m) = p
  BY <1>1 DEF LogIsProduced
<1>3. tracker' = Observed(tracker, p, o, m, SequenceOf(m))
  BY DEF Process
<1>4. \/ /\ ~cBroken /\ ~cBroken'
         /\ cFile' = Append(cFile, [id |-> m, flags |-> Observe(tracker, p, o, m, SequenceOf(m))])
      \/ cBroken' /\ cFile' = cFile
  BY DEF Process
<1> QED
  BY <1>1, <1>2, <1>3, <1>4

\* A record beyond the tracker's last one of an ordered log has a higher
\* sequence, and any other one is not beyond it.
LEMMA ObservedInOrder ==
    ASSUME NEW p, NEW l \in Seq(Messages), Increasing(l),
           \A i \in 1..Len(l) : PartitionOf(l[i]) = p,
           NEW x \in [offset : Int, sequence : Nat], x # NoPosition, LastInLog(x, l),
           NEW o \in Nat, o + 1 \in 1..Len(l), NEW m, m = l[o + 1]
    PROVE  /\ x.offset < o => x.sequence < SequenceOf(m)
           /\ ~(x.offset < o) => SequenceOf(m) <= x.sequence
<1> SUFFICES ASSUME NEW i, i = x.offset + 1, NEW n, n = l[i]
             PROVE  /\ x.offset < o => x.sequence < SequenceOf(m)
                    /\ ~(x.offset < o) => SequenceOf(m) <= x.sequence
  OBVIOUS
<1>1. /\ i \in 1..Len(l) /\ x.offset \in Int /\ i = x.offset + 1
      /\ x.sequence = SequenceOf(n)
  BY DEF LastInLog
<1>2. m \in Nat \ {0} /\ n \in Nat \ {0} /\ PartitionOf(m) = PartitionOf(n)
  <2>1. m \in Messages /\ n \in Messages
    BY <1>1
  <2> QED
    BY <1>1, <2>1 DEF Messages
<1>3. SequenceOf(m) \in Nat /\ SequenceOf(n) \in Nat
  BY <1>2, SequenceType
<1>4. CASE x.offset < o
  <2>1. n < m
    BY <1>1, <1>4 DEF Increasing
  <2> QED
    BY <1>1, <1>2, <1>3, <1>4, <2>1, SequenceGrows
<1>5. CASE x.offset = o
  BY <1>1, <1>3, <1>5
<1>6. CASE o < x.offset
  <2>1. m < n
    BY <1>1, <1>6 DEF Increasing
  <2>2. SequenceOf(m) < SequenceOf(n)
    BY <1>2, <2>1, SequenceGrows
  <2> QED
    BY <1>1, <1>3, <1>6, <2>2
<1> QED
  BY <1>1, <1>4, <1>5, <1>6

LEMMA TrackerParts ==
    ASSUME RestInv, LogIsProduced, OrderInv, TrackerInv, NEW p \in Partitions
    PROVE  /\ tracker.last[p] \in [offset : Int, sequence : Nat]
           /\ LastInLog(tracker.last[p], log[p])
           /\ log[p] \in Seq(Messages)
           /\ \A i \in 1..Len(log[p]) : PartitionOf(log[p][i]) = p
           /\ Idempotent => Increasing(log[p])
<1>1. tracker.last[p] \in [offset : Int, sequence : Nat] /\ log[p] \in Seq(Messages)
  BY DEF RestInv, ConsumerType, ClientType, Trackers
<1> QED
  BY <1>1 DEF TrackerInv, LogIsProduced, OrderInv, InOrder

\* Observing a record keeps what the tracker remembers behind its last one.
LEMMA ObservedBehind ==
    ASSUME NEW t \in Trackers, NEW p \in Partitions, NEW l \in Seq(Messages), Increasing(l),
           \A i \in 1..Len(l) : PartitionOf(l[i]) = p,
           LastInLog(t.last[p], l),
           \A n \in t.seen : Behind(t, n),
           NEW o \in Nat, o + 1 \in 1..Len(l), NEW m \in Messages, m = l[o + 1],
           NEW u, u = Observed(t, p, o, m, SequenceOf(m)),
           NEW n \in u.seen
    PROVE  Behind(u, n)
<1> DEFINE x == t.last[p]
<1>1. x \in [offset : Int, sequence : Nat] /\ PartitionOf(m) = p /\ SequenceOf(m) \in Nat
  BY SequenceType DEF Trackers, Messages
<1>2. x # NoPosition => /\ x.offset < o => x.sequence < SequenceOf(m)
                        /\ ~(x.offset < o) => SequenceOf(m) <= x.sequence
  BY <1>1, ObservedInOrder
<1>3. u.seen = t.seen \cup {m}
  BY DEF Observed
<1>4. n \in Messages /\ SequenceOf(n) \in Nat
  BY <1>3, SequenceType DEF Trackers, Messages
<1>5. x = NoPosition => x.offset = -1
  BY DEF NoPosition
<1>6. CASE Advances(t, p, o, m)
  <2>1. u.last = [t.last EXCEPT ![p] = [offset |-> o, sequence |-> SequenceOf(m)]]
    BY <1>6 DEF Observed
  <2>2. /\ u.last[p] = [offset |-> o, sequence |-> SequenceOf(m)]
        /\ \A q \in Partitions : q # p => u.last[q] = t.last[q]
    BY <2>1 DEF Trackers
  <2>3. u.last[p] # NoPosition /\ u.last[p].sequence = SequenceOf(m)
    BY <2>2 DEF NoPosition
  <2>4. CASE n = m
    BY <1>1, <2>3, <2>4 DEF Behind
  <2>5. CASE n # m /\ PartitionOf(n) = p
    <3>1. x # NoPosition /\ SequenceOf(n) <= x.sequence
      BY <1>3, <2>5 DEF Behind
    <3>2. x.offset < o
      BY <1>1, <1>6 DEF Advances
    <3> QED
      BY <1>1, <1>2, <1>4, <2>3, <2>5, <3>1, <3>2 DEF Behind
  <2>6. CASE n # m /\ PartitionOf(n) # p
    <3>1. PartitionOf(n) \in Partitions
      BY <1>4, PartitionType DEF Messages
    <3>2. u.last[PartitionOf(n)] = t.last[PartitionOf(n)]
      BY <2>2, <2>6, <3>1
    <3> QED
      BY <1>3, <2>6, <3>2 DEF Behind
  <2> QED
    BY <2>4, <2>5, <2>6
<1>7. CASE ~Advances(t, p, o, m)
  <2>1. u.last = t.last
    BY <1>7 DEF Observed
  <2>2. CASE n \in t.seen
    BY <2>1, <2>2 DEF Behind
  <2>3. CASE n \notin t.seen
    <3>1. n = m /\ ~(x.offset < o)
      BY <1>1, <1>3, <1>7, <2>3 DEF Advances
    <3>2. x # NoPosition
      BY <1>5, <3>1
    <3> QED
      BY <1>1, <1>2, <2>1, <3>1, <3>2 DEF Behind
  <2> QED
    BY <2>2, <2>3
<1> QED
  BY <1>6, <1>7

LEMMA LastInLonger ==
    ASSUME NEW l \in Seq(Messages), NEW t \in Seq(Messages),
           NEW x \in [offset : Int, sequence : Nat], LastInLog(x, l)
    PROVE  LastInLog(x, l \o t)
<1> SUFFICES ASSUME NEW c, c = l \o t PROVE LastInLog(x, c)
  OBVIOUS
<1>1. /\ Len(c) = Len(l) + Len(t)
      /\ \A i \in 1..Len(l) : c[i] = l[i]
  BY Joined
<1>2. Len(l) \in Nat /\ Len(t) \in Nat
  OBVIOUS
<1>3. CASE x # NoPosition
  <2>1. x.offset \in 0..Len(l) - 1 /\ x.sequence = SequenceOf(l[x.offset + 1])
    BY <1>3 DEF LastInLog
  <2>2. x.offset + 1 \in 1..Len(l) /\ x.offset \in 0..Len(c) - 1
    BY <1>1, <1>2, <2>1
  <2>3. c[x.offset + 1] = l[x.offset + 1]
    BY <1>1, <2>2
  <2> QED
    BY <2>1, <2>2, <2>3 DEF LastInLog
<1> QED
  BY <1>3 DEF LastInLog

LEMMA TrackerStep ==
    ASSUME PlaceInv, RestInv, LogIsProduced, OrderInv, TrackerInv, [Next]_vars
    PROVE  TrackerInv'
<1> SUFFICES /\ \A q \in Partitions : LastInLog(tracker'.last[q], log'[q])
             /\ Idempotent => \A m \in tracker'.seen : Behind(tracker', m)
  BY DEF TrackerInv, LastInLog, Behind, Partitions, PartitionOf, SequenceOf, NoPosition
<1>1. CASE UNCHANGED <<tracker, log>>
  BY <1>1 DEF TrackerInv
<1>2. ASSUME NEW p \in Partitions, Running(BrokerAppends(p))
      PROVE  /\ \A q \in Partitions : LastInLog(tracker'.last[q], log'[q])
             /\ Idempotent => \A m \in tracker'.seen : Behind(tracker', m)
  <2>1. UNCHANGED tracker
    BY <1>2 DEF Running, BrokerAppends, consumerVars
  <2>2. \A q \in Partitions : q # p => log'[q] = log[q]
    BY <1>2, LogGrows DEF Running
  <2>3. LastInLog(tracker.last[p], log'[p])
    <3>1. PICK k \in 0..Len(buffered[p]) : log'[p] = log[p] \o SubSeq(buffered[p], 1, k)
      BY <1>2, LogGrows DEF Running
    <3>2. log[p] \in Seq(Messages) /\ buffered[p] \in Seq(Messages)
      BY OrderParts
    <3>3. SubSeq(buffered[p], 1, k) \in Seq(Messages)
      BY <3>2, Cut
    <3>4. tracker.last[p] \in [offset : Int, sequence : Nat] /\ LastInLog(tracker.last[p], log[p])
      BY TrackerParts
    <3> QED
      BY ONLY <3>1, <3>2, <3>3, <3>4, LastInLonger
  <2> QED
    BY <2>1, <2>2, <2>3 DEF TrackerInv
<1>3. ASSUME NEW p \in Partitions, Running(Process(p))
      PROVE  /\ \A q \in Partitions : LastInLog(tracker'.last[q], log'[q])
             /\ Idempotent => \A m \in tracker'.seen : Behind(tracker', m)
  <2>1. PICK o \in Nat, m \in Messages :
            /\ o + 1 \in 1..Len(log[p]) /\ m = log[p][o + 1]
            /\ tracker' = Observed(tracker, p, o, m, SequenceOf(m))
    BY <1>3, ProcessParts DEF Running
  <2>2. UNCHANGED log
    BY <1>3 DEF Running, Process
  <2>3. tracker \in Trackers
    BY DEF RestInv, ConsumerType
  <2>4. \A q \in Partitions : LastInLog(tracker'.last[q], log'[q])
    <3>1. CASE tracker'.last = tracker.last
      BY <2>2, <3>1 DEF TrackerInv
    <3>2. CASE tracker'.last = [tracker.last EXCEPT ![p] = [offset |-> o, sequence |-> SequenceOf(m)]]
      <4>1. tracker'.last[p] = [offset |-> o, sequence |-> SequenceOf(m)]
        BY <2>3, <3>2 DEF Trackers
      <4>2. \A q \in Partitions : q # p => tracker'.last[q] = tracker.last[q]
        BY <2>3, <3>2 DEF Trackers
      <4>3. Len(log[p]) \in Nat
        BY OrderParts
      <4>4. o \in 0..Len(log[p]) - 1
        BY <2>1, <4>3
      <4>5. LastInLog(tracker'.last[p], log[p])
        <5> SUFFICES ASSUME NEW x, x = [offset |-> o, sequence |-> SequenceOf(m)]
                     PROVE  LastInLog(x, log[p])
          BY <4>1
        <5> QED
          BY <2>1, <4>4 DEF LastInLog
      <4> QED
        BY <2>2, <4>2, <4>5 DEF TrackerInv
    <3> QED
      BY <2>1, <3>1, <3>2 DEF Observed
  <2>5. ASSUME Idempotent, NEW n \in tracker'.seen PROVE Behind(tracker', n)
    <3> SUFFICES ASSUME NEW u, u = tracker', n \in u.seen, NEW l, l = log[p] PROVE Behind(u, n)
      OBVIOUS
    <3>1. /\ l \in Seq(Messages) /\ Increasing(l)
          /\ \A i \in 1..Len(l) : PartitionOf(l[i]) = p
          /\ LastInLog(tracker.last[p], l)
      BY <2>5, TrackerParts
    <3>2. \A k \in tracker.seen : Behind(tracker, k)
      BY <2>5 DEF TrackerInv
    <3> QED
      BY <2>1, <2>3, <3>1, <3>2, ObservedBehind
  <2> QED
    BY <2>4, <2>5
<1> QED
  <2>1. UNCHANGED log \/ \E p \in Partitions : Running(BrokerAppends(p))
    BY LogChange
  <2>2. UNCHANGED tracker \/ \E p \in Partitions : Running(Process(p))
    BY ConsumptionChange
  <2> QED
    BY <1>1, <1>2, <1>3, <2>1, <2>2

LEMMA TrackerAlways == Spec => []TrackerInv
<1>1. Init => TrackerInv
  BY DEF Init, NewTracker, TrackerInv, LastInLog
<1>2. PlaceInv /\ RestInv /\ LogIsProduced /\ OrderInv /\ TrackerInv /\ [Next]_vars => TrackerInv'
  BY TrackerStep
<1> QED
  BY <1>1, <1>2, PlaceAlways, RestAlways, ConsumedAlways, OrderAlways, PTL DEF Spec
-----------------------------------------------------------------------------
(***************************************************************************)
(* What the tracker reports                                                *)
(***************************************************************************)
\* A step that consumes leaves the entries before as they are.
LEMMA EntriesAfter ==
    ASSUME PlaceInv, RestInv, LogIsProduced, [Next]_vars
    PROVE  \/ UNCHANGED cFile
           \/ \E p \in Partitions, o \in Nat, m \in Messages :
                 /\ o = next[p] /\ o + 1 \in 1..Len(log[p]) /\ m = log[p][o + 1] /\ PartitionOf(m) = p
                 /\ tracker' = Observed(tracker, p, o, m, SequenceOf(m))
                 /\ Len(cFile) \in Nat /\ Len(cFile') = Len(cFile) + 1
                 /\ \A k \in 1..Len(cFile) : cFile'[k] = cFile[k]
                 /\ cFile'[Len(cFile) + 1] =
                       [id |-> m, flags |-> Observe(tracker, p, o, m, SequenceOf(m))]
<1> SUFFICES ASSUME NEW p \in Partitions, Running(Process(p)), ~UNCHANGED cFile
             PROVE  \E o \in Nat, m \in Messages :
                       /\ o = next[p] /\ o + 1 \in 1..Len(log[p]) /\ m = log[p][o + 1] /\ PartitionOf(m) = p
                       /\ tracker' = Observed(tracker, p, o, m, SequenceOf(m))
                       /\ Len(cFile) \in Nat /\ Len(cFile') = Len(cFile) + 1
                       /\ \A k \in 1..Len(cFile) : cFile'[k] = cFile[k]
                       /\ cFile'[Len(cFile) + 1] =
                             [id |-> m, flags |-> Observe(tracker, p, o, m, SequenceOf(m))]
  BY ConsumptionChange
<1>1. PICK o \in Nat, m \in Messages :
          /\ o = next[p] /\ o + 1 \in 1..Len(log[p]) /\ m = log[p][o + 1] /\ PartitionOf(m) = p
          /\ tracker' = Observed(tracker, p, o, m, SequenceOf(m))
          /\ cFile' = Append(cFile, [id |-> m, flags |-> Observe(tracker, p, o, m, SequenceOf(m))])
  BY ProcessParts DEF Running
<1> SUFFICES ASSUME NEW e, e = [id |-> m, flags |-> Observe(tracker, p, o, m, SequenceOf(m))]
             PROVE  /\ Len(cFile) \in Nat /\ Len(cFile') = Len(cFile) + 1
                    /\ \A k \in 1..Len(cFile) : cFile'[k] = cFile[k]
                    /\ cFile'[Len(cFile) + 1] = e
  BY <1>1
<1>2. cFile \in Seq(Entry) /\ e \in Entry
  BY ObserveType DEF RestInv, ConsumerType
<1>3. cFile' = Append(cFile, e)
  BY <1>1
<1>4. Len(cFile) \in Nat
  BY <1>2
<1> QED
  BY <1>2, <1>3, <1>4, Appended

\* What the tracker reports when the producer is idempotent.
FlagsInv ==
    Idempotent => \A k \in 1..Len(cFile) :
        /\ ~cFile[k].flags.regression
        /\ cFile[k].flags.gap => \A j \in 1..(k - 1) : cFile[j].id # cFile[k].id - NPartitions

LEMMA FlagsOfRecord ==
    ASSUME RestInv, LogIsProduced, OrderInv, TrackerInv, Idempotent, NEW p \in Partitions,
           NEW o \in Nat, o + 1 \in 1..Len(log[p]), NEW m \in Messages, m = log[p][o + 1],
           PartitionOf(m) = p,
           NEW f, f = Observe(tracker, p, o, m, SequenceOf(m))
    PROVE  /\ ~f.regression
           /\ f.gap => \A n \in tracker.seen : n # m - NPartitions
<1> SUFFICES ASSUME NEW x, x = tracker.last[p], NEW l, l = log[p]
             PROVE  /\ ~f.regression
                    /\ f.gap => \A n \in tracker.seen : n # m - NPartitions
  OBVIOUS
<1>1. /\ x \in [offset : Int, sequence : Nat] /\ LastInLog(x, l)
      /\ l \in Seq(Messages) /\ Increasing(l)
      /\ \A i \in 1..Len(l) : PartitionOf(l[i]) = p
  BY TrackerParts
<1>2. x # NoPosition /\ x.offset < o => x.sequence < SequenceOf(m)
  <2>1. o + 1 \in 1..Len(l) /\ m = l[o + 1]
    OBVIOUS
  <2> QED
    BY ONLY <1>1, <2>1, o \in Nat, ObservedInOrder
<1>3. SequenceOf(m) \in Nat
  BY SequenceType DEF Messages
<1>4. f.regression <=> x # NoPosition /\ Advances(tracker, p, o, m) /\ SequenceOf(m) <= x.sequence
  BY DEF Observe
<1>5. f.gap <=> x # NoPosition /\ Advances(tracker, p, o, m) /\ SequenceOf(m) > x.sequence + 1
  BY DEF Observe
<1>6. Advances(tracker, p, o, m) => x.offset < o
  BY <1>1 DEF Advances
<1>7. ~f.regression
  BY <1>1, <1>2, <1>3, <1>4, <1>6
<1>8. ASSUME f.gap, NEW n \in tracker.seen, n = m - NPartitions
      PROVE  FALSE
  <2>1. n \in Nat \ {0} /\ m = n + NPartitions
    <3>1. n \in Messages
      BY DEF RestInv, ConsumerType, Trackers
    <3> QED
      BY <1>8, <3>1, TrafficAssumption DEF Messages
  <2>2. PartitionOf(n) = p /\ SequenceOf(m) = SequenceOf(n) + 1 /\ SequenceOf(n) \in Nat
    BY <2>1, SequenceBefore, SequenceType
  <2>3. SequenceOf(n) <= x.sequence
    BY <2>2 DEF TrackerInv, Behind
  <2> QED
    BY <1>1, <1>5, <1>8, <2>2, <2>3
<1> QED
  BY <1>7, <1>8

LEMMA FlagsStep ==
    ASSUME PlaceInv, RestInv, LogIsProduced, ConsumedIsKnown, OrderInv, TrackerInv, FlagsInv,
           [Next]_vars
    PROVE  FlagsInv'
<1>1. CASE UNCHANGED cFile
  BY <1>1 DEF FlagsInv
<1>2. CASE ~UNCHANGED cFile
  <2> SUFFICES ASSUME NEW n, n = Len(cFile) PROVE FlagsInv'
    OBVIOUS
  <2>1. PICK p \in Partitions, o \in Nat, m \in Messages :
            /\ o + 1 \in 1..Len(log[p]) /\ m = log[p][o + 1] /\ PartitionOf(m) = p
            /\ n \in Nat /\ Len(cFile') = n + 1
            /\ \A k \in 1..n : cFile'[k] = cFile[k]
            /\ cFile'[n + 1] = [id |-> m, flags |-> Observe(tracker, p, o, m, SequenceOf(m))]
    BY <1>2, EntriesAfter
  <2>2. ASSUME Idempotent, NEW k \in 1..n + 1
        PROVE  /\ ~cFile'[k].flags.regression
               /\ cFile'[k].flags.gap => \A j \in 1..(k - 1) : cFile'[j].id # cFile'[k].id - NPartitions
    <3>1. CASE k \in 1..n
      <4>1. \A j \in 1..(k - 1) : j \in 1..n
        BY <2>1, <3>1
      <4>2. cFile'[k] = cFile[k] /\ \A j \in 1..(k - 1) : cFile'[j] = cFile[j]
        BY <2>1, <3>1, <4>1
      <4> QED
        BY <2>2, <3>1, <4>2 DEF FlagsInv
    <3>2. CASE k = n + 1
      <4> SUFFICES ASSUME NEW f, f = Observe(tracker, p, o, m, SequenceOf(m))
                   PROVE  /\ ~cFile'[k].flags.regression
                          /\ cFile'[k].flags.gap =>
                                \A j \in 1..(k - 1) : cFile'[j].id # cFile'[k].id - NPartitions
        OBVIOUS
      <4>1. ~f.regression /\ (f.gap => \A i \in tracker.seen : i # m - NPartitions)
        BY <2>1, <2>2, FlagsOfRecord
      <4>2. cFile'[k].flags = f /\ cFile'[k].id = m
        BY <2>1, <3>2
      <4>3. \A j \in 1..(k - 1) : j \in 1..n
        BY <2>1, <3>2
      <4>4. \A j \in 1..(k - 1) : cFile'[j].id \in tracker.seen
        BY <2>1, <4>3 DEF ConsumedIsKnown
      <4> QED
        BY <4>1, <4>2, <4>4
    <3> QED
      BY <2>1, <3>1, <3>2
  <2> QED
    BY <2>1, <2>2 DEF FlagsInv
<1> QED
  BY <1>1, <1>2

LEMMA FlagsAlways == Spec => []FlagsInv
<1>1. Init => FlagsInv
  <2>1. Len(<<>>) = 0 /\ 1..0 = {}
    OBVIOUS
  <2> QED
    BY <2>1 DEF Init, FlagsInv
<1>2. /\ PlaceInv /\ RestInv /\ LogIsProduced /\ ConsumedIsKnown /\ OrderInv /\ TrackerInv /\ FlagsInv
      /\ [Next]_vars
      => FlagsInv'
  BY FlagsStep
<1> QED
  BY <1>1, <1>2, PlaceAlways, RestAlways, ConsumedAlways, OrderAlways, TrackerAlways, PTL DEF Spec

\* With an idempotent producer no redelivery, fetch error or failed commit makes
\* Tracker.Observe report a regression.
THEOREM RegressionsAreReal == Spec => []NoFalseRegression
<1>1. FlagsInv => NoFalseRegression
  BY DEF FlagsInv, NoFalseRegression, Flagged
<1> QED
  BY <1>1, FlagsAlways, PTL

\* ... and a gap it reports is one: the message before was not yet consumed.
THEOREM ReportedGapsAreReal == Spec => []GapsAreReal
<1>1. FlagsInv => GapsAreReal
  BY DEF FlagsInv, GapsAreReal
<1> QED
  BY <1>1, FlagsAlways, PTL
-----------------------------------------------------------------------------
(***************************************************************************)
(* Consumption in order                                                    *)
(***************************************************************************)
\* Without a redelivery the consumer only goes forward.
ForwardInv ==
    rebalances = 0 => \A p \in Partitions :
        tracker.last[p].offset < next[p] /\ next[p] <= pos[p] /\ end[p] <= pos[p]

Unflagged == \A k \in 1..Len(cFile) : ~cFile[k].flags.duplicate /\ ~cFile[k].flags.regression

\* Then entries without a flag are in the order of their partition, and none is
\* beyond what the tracker remembers.
SortedInv ==
    rebalances = 0 /\ ~cBroken /\ Unflagged =>
        /\ \A k \in 1..Len(cFile) : Behind(tracker, cFile[k].id)
        /\ \A i, j \in 1..Len(cFile) :
              i < j /\ PartitionOf(cFile[i].id) = PartitionOf(cFile[j].id) => cFile[i].id < cFile[j].id

\* Redeliveries are never undone.
LEMMA NoRebalanceBefore ==
    ASSUME PlaceInv, RestInv, [Next]_vars, rebalances' = 0
    PROVE  rebalances = 0 /\ \A p \in Partitions : ~Running(Rebalance(p))
<1>1. rebalances \in Nat
  BY BoundsAreNat DEF RestInv, ConsumerType
<1>2. ASSUME NEW p \in Partitions, Rebalance(p) PROVE rebalances' = rebalances + 1
  BY <1>2 DEF Rebalance
<1>3. UNCHANGED rebalances \/ \E p \in Partitions : Running(Rebalance(p))
  <2> USE DEF boundVars
  <2>1. CASE ConsumerStep \/ RunnerStep \/ ProducerStep \/ UNCHANGED vars
    BY <2>1 DEF ConsumerStep, RunnerStep, ProducerStep, Running, PollDelivers, Process, Commit, ConsumerCancelled,
                Available, Abort, StopProducer, ProducerDone, Drained, DrainDeadline, ConsumerDone, Analyse,
                ProducerCancelled, Flushed, Callback, systemVars, vars
  <2>2. ASSUME NEW p \in Partitions, ClientStep(p) PROVE UNCHANGED rebalances
    BY <2>2, BatchFinishes DEF ClientStep, Running, Finish
  <2>3. CASE Running(\/ Produce \/ PollFails \/ ArtifactFails \/ ExperimentTimeout
                     \/ \E p \in Partitions : BrokerAppends(p))
    BY <2>3 DEF Running, Produce, PollFails, ArtifactFails, ExperimentTimeout, BrokerAppends, systemVars
  <2> QED
    BY <2>1, <2>2, <2>3 DEF Next, Disturbance, Running
<1> QED
  BY <1>1, <1>2, <1>3 DEF Running

LEMMA ForwardStep ==
    ASSUME PlaceInv, RestInv, LogIsProduced, ForwardInv, [Next]_vars
    PROVE  ForwardInv'
<1> SUFFICES ASSUME rebalances' = 0, NEW q \in Partitions
             PROVE  tracker'.last[q].offset < next'[q] /\ next'[q] <= pos'[q] /\ end'[q] <= pos'[q]
  BY DEF ForwardInv, Partitions
<1>1. /\ tracker.last[q].offset < next[q] /\ next[q] <= pos[q] /\ end[q] <= pos[q]
      /\ \A p \in Partitions : ~Running(Rebalance(p))
  BY NoRebalanceBefore DEF ForwardInv
<1>2. /\ tracker.last[q].offset \in Int /\ next[q] \in Nat /\ pos[q] \in Nat /\ end[q] \in Nat
      /\ tracker \in Trackers
  BY OffsetsType DEF RestInv, ConsumerType, Trackers
<1>3. CASE Running(PollDelivers)
  <2>1. PICK e \in FetchEnds : /\ next' = pos /\ pos' = e
                              /\ end' = [p \in Partitions |-> IF e[p] > pos[p] THEN e[p] ELSE 0]
                              /\ tracker' = tracker
    BY <1>3 DEF Running, PollDelivers
  <2>2. e[q] \in Nat /\ pos[q] <= e[q]
    BY <2>1, FetchRange
  <2>3. next'[q] = pos[q] /\ pos'[q] = e[q] /\ end'[q] \in {e[q], 0}
    BY <2>1
  <2> QED
    BY <1>1, <1>2, <2>1, <2>2, <2>3
<1>4. CASE Running(PollFails)
  <2>1. pos' \in FetchEnds /\ UNCHANGED <<next, end, tracker>>
    BY <1>4 DEF Running, PollFails, consumerVars
  <2>2. pos'[q] \in Nat /\ pos[q] <= pos'[q]
    BY <2>1, FetchRange
  <2> QED
    BY <1>1, <1>2, <2>1, <2>2
<1>5. ASSUME NEW p \in Partitions, Running(Process(p))
      PROVE  tracker'.last[q].offset < next'[q] /\ next'[q] <= pos'[q] /\ end'[q] <= pos'[q]
  <2>1. PICK o \in Nat, m \in Messages :
            o = next[p] /\ tracker' = Observed(tracker, p, o, m, SequenceOf(m))
    BY <1>5, ProcessParts DEF Running
  <2>2. /\ next' = [next EXCEPT ![p] = @ + 1] /\ next[p] < end[p]
        /\ UNCHANGED <<pos, end>>
    BY <1>5 DEF Running, Process
  <2>3. next \in [Partitions -> Offsets]
    BY DEF RestInv, ConsumerType
  <2>4. CASE q = p
    <3>1. next'[q] = next[q] + 1 /\ next[q] < end[q]
      BY <2>2, <2>3, <2>4
    <3>2. tracker'.last[q] = tracker.last[q] \/ tracker'.last[q].offset = next[q]
      BY <1>2, <2>1, <2>4 DEF Observed, Trackers
    <3> QED
      BY <1>1, <1>2, <2>2, <3>1, <3>2
  <2>5. CASE q # p
    <3>1. tracker'.last[q] = tracker.last[q]
      BY <1>2, <2>1, <2>5 DEF Observed, Trackers
    <3>2. next'[q] = next[q]
      BY <2>2, <2>3, <2>5
    <3> QED
      BY <1>1, <2>2, <3>1, <3>2
  <2> QED
    BY <2>4, <2>5
<1>6. CASE UNCHANGED <<pos, next, end, tracker>>
  BY <1>1, <1>6
<1>7. CASE Running(Commit \/ ConsumerCancelled) \/ RunnerStep \/ ProducerStep \/ UNCHANGED vars
  <2> UNCHANGED <<pos, next, end, tracker>>
    BY <1>7 DEF RunnerStep, ProducerStep, Running, Commit, ConsumerCancelled,
                Available, Abort, StopProducer, ProducerDone, Drained, DrainDeadline, ConsumerDone, Analyse,
                ProducerCancelled, Flushed, Callback, systemVars, consumerVars, vars
  <2> QED
    BY <1>6
<1>8. ASSUME NEW p \in Partitions, ClientStep(p) PROVE UNCHANGED <<pos, next, end, tracker>>
  BY <1>8, BatchFinishes DEF ClientStep, Running, Finish, consumerVars
<1>9. CASE Running(\/ Produce \/ ArtifactFails \/ ExperimentTimeout
                   \/ \E p \in Partitions : BrokerAppends(p))
  <2> UNCHANGED <<pos, next, end, tracker>>
    BY <1>9 DEF Running, Produce, ArtifactFails, ExperimentTimeout, BrokerAppends, systemVars, consumerVars
  <2> QED
    BY <1>6
<1> QED
  BY <1>1, <1>3, <1>4, <1>5, <1>6, <1>7, <1>8, <1>9 DEF Next, ConsumerStep, Disturbance, Running

LEMMA SortedStep ==
    ASSUME PlaceInv, RestInv, LogIsProduced, ConsumedIsKnown, OrderInv, TrackerInv, ForwardInv, SortedInv,
           [Next]_vars
    PROVE  SortedInv'
<1> SUFFICES ASSUME rebalances' = 0, ~cBroken', Unflagged'
             PROVE  /\ \A k \in 1..Len(cFile') : Behind(tracker', cFile'[k].id)
                    /\ \A i, j \in 1..Len(cFile') :
                          i < j /\ PartitionOf(cFile'[i].id) = PartitionOf(cFile'[j].id) =>
                              cFile'[i].id < cFile'[j].id
  BY DEF SortedInv, Behind, NoPosition, PartitionOf, SequenceOf
<1>1. rebalances = 0
  BY NoRebalanceBefore
<1>2. CASE UNCHANGED <<tracker, cFile, processed, cBroken>>
  BY <1>1, <1>2 DEF SortedInv, Unflagged
<1>3. ASSUME NEW p \in Partitions, Running(Process(p))
      PROVE  /\ \A k \in 1..Len(cFile') : Behind(tracker', cFile'[k].id)
             /\ \A i, j \in 1..Len(cFile') :
                   i < j /\ PartitionOf(cFile'[i].id) = PartitionOf(cFile'[j].id) =>
                       cFile'[i].id < cFile'[j].id
  <2> SUFFICES ASSUME NEW n, n = Len(cFile), NEW t, t = tracker, NEW x, x = tracker.last[p]
               PROVE  /\ \A k \in 1..Len(cFile') : Behind(tracker', cFile'[k].id)
                      /\ \A i, j \in 1..Len(cFile') :
                            i < j /\ PartitionOf(cFile'[i].id) = PartitionOf(cFile'[j].id) =>
                                cFile'[i].id < cFile'[j].id
    OBVIOUS
  <2>1. PICK o \in Nat, m \in Messages :
            /\ o = next[p] /\ o + 1 \in 1..Len(log[p]) /\ m = log[p][o + 1] /\ PartitionOf(m) = p
            /\ tracker' = Observed(t, p, o, m, SequenceOf(m))
            /\ ~cBroken
            /\ cFile' = Append(cFile, [id |-> m, flags |-> Observe(t, p, o, m, SequenceOf(m))])
    BY <1>3, ProcessParts DEF Running
  <2> SUFFICES ASSUME NEW f, f = Observe(t, p, o, m, SequenceOf(m)), NEW e, e = [id |-> m, flags |-> f]
               PROVE  /\ \A k \in 1..Len(cFile') : Behind(tracker', cFile'[k].id)
                      /\ \A i, j \in 1..Len(cFile') :
                            i < j /\ PartitionOf(cFile'[i].id) = PartitionOf(cFile'[j].id) =>
                                cFile'[i].id < cFile'[j].id
    OBVIOUS
  <2>2. /\ n \in Nat /\ Len(cFile') = n + 1
        /\ \A k \in 1..n : cFile'[k] = cFile[k]
        /\ cFile'[n + 1] = e
    <3>1. cFile \in Seq(Entry) /\ e \in Entry
      BY ObserveType DEF RestInv, ConsumerType
    <3>2. cFile' = Append(cFile, e)
      BY <2>1
    <3>3. n \in Nat
      BY <3>1
    <3> QED
      BY <3>1, <3>2, <3>3, Appended
  <2>3. \A k \in 1..n + 1 : k \in 1..n \/ k = n + 1
    BY <2>2
  <2>4. ~f.duplicate /\ ~f.regression
    <3>1. n + 1 \in 1..Len(cFile') /\ cFile'[n + 1].flags = f
      BY <2>2
    <3> QED
      BY <3>1 DEF Unflagged
  <2>5. Unflagged
    <3>1. \A k \in 1..n : k \in 1..Len(cFile')
      BY <2>2
    <3> QED
      BY <2>2, <3>1 DEF Unflagged
  <2>6. /\ \A k \in 1..n : Behind(t, cFile[k].id) /\ cFile[k].id \in Messages
        /\ \A i, j \in 1..n :
              i < j /\ PartitionOf(cFile[i].id) = PartitionOf(cFile[j].id) => cFile[i].id < cFile[j].id
    <3>1. cFile \in Seq(Entry)
      BY DEF RestInv, ConsumerType
    <3>2. ASSUME NEW k \in 1..n PROVE cFile[k].id \in Messages
      <4>1. cFile[k] \in Entry
        BY <3>1
      <4> QED
        BY <4>1 DEF Entry
    <3> QED
      BY <1>1, <2>1, <2>5, <3>2 DEF SortedInv
  <2>7. Advances(t, p, o, m) /\ x \in [offset : Int, sequence : Nat] /\ t \in Trackers
    <3>1. x.offset < o
      BY <1>1, <2>1 DEF ForwardInv
    <3>2. m \notin t.seen
      BY <2>4 DEF Observe
    <3>3. x \in [offset : Int, sequence : Nat] /\ t \in Trackers
      BY DEF RestInv, ConsumerType, Trackers
    <3> QED
      BY <2>1, <3>1, <3>2, <3>3 DEF Advances
  <2>8. SequenceOf(m) \in Nat /\ m \in Nat \ {0}
    BY SequenceType DEF Messages
  <2>9. x # NoPosition => x.sequence < SequenceOf(m)
    <3>1. t.last[p] = x
      OBVIOUS
    <3>2. f.regression <=> x # NoPosition /\ Advances(t, p, o, m) /\ SequenceOf(m) <= x.sequence
      BY <3>1 DEF Observe
    <3>3. x # NoPosition => ~(SequenceOf(m) <= x.sequence)
      BY <2>4, <2>7, <3>2
    <3> QED
      BY <2>7, <2>8, <3>3
  <2>10. /\ tracker'.last[p] = [offset |-> o, sequence |-> SequenceOf(m)]
         /\ \A q \in Partitions : q # p => tracker'.last[q] = t.last[q]
    BY <2>1, <2>7 DEF Observed, Trackers
  <2>11. tracker'.last[p] # NoPosition /\ tracker'.last[p].sequence = SequenceOf(m)
    BY <2>10 DEF NoPosition
  <2>12. ASSUME NEW k \in 1..n, PartitionOf(cFile[k].id) = p
         PROVE  SequenceOf(cFile[k].id) < SequenceOf(m) /\ cFile[k].id < m
    <3> SUFFICES ASSUME NEW i, i = cFile[k].id PROVE SequenceOf(i) < SequenceOf(m) /\ i < m
      OBVIOUS
    <3>1. i \in Nat \ {0} /\ PartitionOf(i) = p /\ SequenceOf(i) \in Nat
      BY <2>6, <2>12, SequenceType DEF Messages
    <3>2. x # NoPosition /\ SequenceOf(i) <= x.sequence
      BY <2>6, <3>1 DEF Behind
    <3>3. SequenceOf(i) < SequenceOf(m)
      BY <2>7, <2>8, <2>9, <3>1, <3>2
    <3> QED
      BY <2>1, <2>8, <3>1, <3>3, SequenceOrders
  <2>13. ASSUME NEW k \in 1..n + 1 PROVE Behind(tracker', cFile'[k].id)
    <3>1. CASE k = n + 1
      <4>1. cFile'[k].id = m /\ PartitionOf(m) = p
        BY <2>1, <2>2, <3>1
      <4>2. SequenceOf(m) <= SequenceOf(m)
        BY <2>8
      <4> QED
        BY <2>11, <4>1, <4>2 DEF Behind
    <3>2. CASE k \in 1..n /\ PartitionOf(cFile[k].id) = p
      <4>1. SequenceOf(cFile[k].id) < SequenceOf(m) /\ SequenceOf(cFile[k].id) \in Nat
        BY <2>6, <2>12, <3>2, SequenceType DEF Messages
      <4> QED
        BY <2>2, <2>8, <2>11, <3>2, <4>1 DEF Behind
    <3>3. CASE k \in 1..n /\ PartitionOf(cFile[k].id) # p
      <4>1. PartitionOf(cFile[k].id) \in Partitions
        BY <2>6, <3>3, PartitionType DEF Messages
      <4>2. tracker'.last[PartitionOf(cFile[k].id)] = t.last[PartitionOf(cFile[k].id)]
        BY <2>10, <3>3, <4>1
      <4>3. Behind(t, cFile[k].id) /\ cFile'[k] = cFile[k]
        BY <2>2, <2>6, <3>3
      <4> QED
        BY <4>2, <4>3 DEF Behind
    <3> QED
      BY <2>3, <3>1, <3>2, <3>3
  <2>14. ASSUME NEW i \in 1..n + 1, NEW j \in 1..n + 1, i < j,
                PartitionOf(cFile'[i].id) = PartitionOf(cFile'[j].id)
         PROVE  cFile'[i].id < cFile'[j].id
    <3>1. i \in 1..n
      BY <2>2, <2>14
    <3>2. CASE j \in 1..n
      BY <2>2, <2>6, <2>14, <3>1, <3>2
    <3>3. CASE j = n + 1
      <4>1. cFile'[i] = cFile[i] /\ cFile'[j].id = m /\ PartitionOf(cFile[i].id) = p
        BY <2>1, <2>2, <2>14, <3>1, <3>3
      <4> QED
        BY <2>12, <3>1, <4>1
    <3> QED
      BY <2>3, <3>2, <3>3
  <2> QED
    BY <2>2, <2>13, <2>14
<1> QED
  BY <1>2, <1>3, ConsumptionChange

LEMMA SortedAlways == Spec => []SortedInv
<1>1. Init => ForwardInv /\ SortedInv
  <2>1. Len(<<>>) = 0 /\ 1..0 = {}
    OBVIOUS
  <2> QED
    BY <2>1 DEF Init, NewTracker, NoPosition, ForwardInv, SortedInv
<1>2. PlaceInv /\ RestInv /\ LogIsProduced /\ ForwardInv /\ [Next]_vars => ForwardInv'
  BY ForwardStep
<1>3. /\ PlaceInv /\ RestInv /\ LogIsProduced /\ ConsumedIsKnown /\ OrderInv /\ TrackerInv
      /\ ForwardInv /\ SortedInv /\ [Next]_vars
      => SortedInv'
  BY SortedStep
<1> QED
  BY <1>1, <1>2, <1>3, PlaceAlways, RestAlways, ConsumedAlways, OrderAlways, TrackerAlways, PTL DEF Spec

\* A baseline that passed without a redelivery was consumed in the order of each
\* partition, also when retries had reordered the log: validateBaselineSummary
\* rejects what the tracker flags, and the tracker flags whatever is out of order.
THEOREM PassedBaselinesAreInOrder == Spec => []PassedBaselineIsInOrder
<1>1. ControlInv /\ SortedInv => PassedBaselineIsInOrder
  <2> SUFFICES ASSUME ControlInv, SortedInv, scenario = "baseline", verdict = "passed", rebalances = 0
               PROVE  \A i, j \in 1..Len(cFile) :
                          i < j /\ PartitionOf(cFile[i].id) = PartitionOf(cFile[j].id) =>
                              cFile[i].id < cFile[j].id
    BY DEF PassedBaselineIsInOrder
  <2>1. BaselineValid /\ ~cBroken
    BY DEF ControlInv, VerdictIsValidation
  <2>2. Unflagged
    BY <2>1 DEF BaselineValid, Flagged, Unflagged
  <2> QED
    BY <2>1, <2>2 DEF SortedInv
<1> QED
  BY <1>1, ControlAlways, SortedAlways, PTL
-----------------------------------------------------------------------------
(***************************************************************************)
(* The reasons of a failed baseline                                        *)
(***************************************************************************)
\* Without a redelivery an idempotent producer's messages are never consumed
\* twice, so the tracker has no duplicate to report.
NoFalseDuplicate == Idempotent /\ rebalances = 0 => Flagged("duplicate") = {}

\* A first message of a partition is not after a gap.
GapsFollow == \A k \in 1..Len(cFile) : cFile[k].flags.gap => SequenceOf(cFile[k].id) > 1

ReportInv ==
    /\ Idempotent /\ rebalances = 0 => \A k \in 1..Len(cFile) : ~cFile[k].flags.duplicate
    /\ GapsFollow

\* The record at the consumer's offset is beyond everything it consumed.
LEMMA FreshRecord ==
    ASSUME RestInv, LogIsProduced, OrderInv, TrackerInv, ForwardInv, Idempotent, rebalances = 0,
           NEW p \in Partitions, NEW o \in Nat, o = next[p], o + 1 \in 1..Len(log[p]),
           NEW m \in Messages, m = log[p][o + 1], PartitionOf(m) = p
    PROVE  m \notin tracker.seen
<1> SUFFICES ASSUME NEW x, x = tracker.last[p], NEW l, l = log[p], m \in tracker.seen
             PROVE  FALSE
  OBVIOUS
<1>1. /\ x \in [offset : Int, sequence : Nat] /\ LastInLog(x, l)
      /\ l \in Seq(Messages) /\ Increasing(l)
      /\ \A i \in 1..Len(l) : PartitionOf(l[i]) = p
  BY TrackerParts
<1>2. x # NoPosition /\ SequenceOf(m) <= x.sequence
  BY DEF TrackerInv, Behind
<1>3. x.offset < o
  BY DEF ForwardInv
<1>4. x.sequence < SequenceOf(m)
  <2>1. o + 1 \in 1..Len(l) /\ m = l[o + 1]
    OBVIOUS
  <2> QED
    BY ONLY <1>1, <1>2, <1>3, <2>1, o \in Nat, ObservedInOrder
<1>5. SequenceOf(m) \in Nat
  BY ONLY m \in Messages, SequenceType DEF Messages
<1>6. x.sequence \in Nat
  BY ONLY <1>1
<1> QED
  BY ONLY <1>2, <1>4, <1>5, <1>6

LEMMA ReportStep ==
    ASSUME PlaceInv, RestInv, LogIsProduced, OrderInv, TrackerInv, ForwardInv, ReportInv, [Next]_vars
    PROVE  ReportInv'
<1>1. CASE UNCHANGED cFile
  <2>1. rebalances' = 0 => rebalances = 0
    BY NoRebalanceBefore
  <2> QED
    BY <1>1, <2>1 DEF ReportInv, GapsFollow, SequenceOf
<1>2. CASE ~UNCHANGED cFile
  <2> SUFFICES ASSUME NEW n, n = Len(cFile) PROVE ReportInv'
    OBVIOUS
  <2>1. PICK p \in Partitions, o \in Nat, m \in Messages :
            /\ o = next[p] /\ o + 1 \in 1..Len(log[p]) /\ m = log[p][o + 1] /\ PartitionOf(m) = p
            /\ n \in Nat /\ Len(cFile') = n + 1
            /\ \A k \in 1..n : cFile'[k] = cFile[k]
            /\ cFile'[n + 1] = [id |-> m, flags |-> Observe(tracker, p, o, m, SequenceOf(m))]
    BY <1>2, EntriesAfter
  <2>2. \A k \in 1..n + 1 : k \in 1..n \/ k = n + 1
    BY <2>1
  <2>3. ASSUME Idempotent, rebalances' = 0, NEW k \in 1..n + 1
        PROVE  ~cFile'[k].flags.duplicate
    <3>1. rebalances = 0
      BY <2>3, NoRebalanceBefore
    <3>2. CASE k \in 1..n
      BY <2>1, <2>3, <3>1, <3>2 DEF ReportInv
    <3>3. CASE k = n + 1
      <4>1. m \notin tracker.seen
        BY <2>1, <2>3, <3>1, FreshRecord
      <4> SUFFICES ASSUME NEW f, f = Observe(tracker, p, o, m, SequenceOf(m))
                   PROVE  ~cFile'[k].flags.duplicate
        OBVIOUS
      <4>2. f.duplicate <=> m \in tracker.seen
        BY DEF Observe
      <4>3. cFile'[k].flags = f
        BY <2>1, <3>3
      <4> QED
        BY <4>1, <4>2, <4>3
    <3> QED
      BY <2>2, <3>2, <3>3
  <2>4. ASSUME NEW k \in 1..n + 1, cFile'[k].flags.gap
        PROVE  SequenceOf(cFile'[k].id) > 1
    <3>1. CASE k \in 1..n
      BY <2>1, <2>4, <3>1 DEF ReportInv, GapsFollow
    <3>2. CASE k = n + 1
      <4> SUFFICES ASSUME NEW f, f = Observe(tracker, p, o, m, SequenceOf(m))
                   PROVE  SequenceOf(cFile'[k].id) > 1
        OBVIOUS
      <4>0. f.gap /\ cFile'[k].id = m
        BY <2>1, <2>4, <3>2
      <4>1. SequenceOf(m) > tracker.last[p].sequence + 1
        BY <4>0 DEF Observe
      <4>2. tracker.last[p].sequence \in Nat
        BY <2>1, SMTT(60) DEF RestInv, ConsumerType, Trackers
      <4>3. SequenceOf(m) \in Nat
        BY ONLY m \in Messages, SequenceType DEF Messages
      <4> QED
        BY <4>0, <4>1, <4>2, <4>3
    <3> QED
      BY <2>2, <3>1, <3>2
  <2> QED
    BY <2>1, <2>3, <2>4 DEF ReportInv, GapsFollow, SequenceOf
<1> QED
  BY <1>1, <1>2

LEMMA ReportAlways == Spec => [](ReportInv /\ ForwardInv)
<1>1. Init => ReportInv /\ ForwardInv
  <2>1. Len(<<>>) = 0 /\ 1..0 = {}
    OBVIOUS
  <2> QED
    BY <2>1 DEF Init, NewTracker, NoPosition, ForwardInv, ReportInv, GapsFollow
<1>2. /\ PlaceInv /\ RestInv /\ LogIsProduced /\ OrderInv /\ TrackerInv /\ ForwardInv /\ ReportInv
      /\ [Next]_vars
      => ReportInv' /\ ForwardInv'
  BY ForwardStep, ReportStep
<1> QED
  BY <1>1, <1>2, PlaceAlways, RestAlways, ConsumedAlways, OrderAlways, TrackerAlways, PTL DEF Spec

\* With an idempotent producer only a redelivery makes Tracker.Observe report a
\* duplicate: not a lost answer, a fetch error, a failed commit or a timeout.
THEOREM DuplicatesAreRedelivered == Spec => []NoFalseDuplicate
<1>1. ReportInv => NoFalseDuplicate
  BY DEF ReportInv, NoFalseDuplicate, Flagged
<1> QED
  BY <1>1, ReportAlways, PTL

\* Unless the drain ended at its deadline, it ended with as many records
\* processed as acknowledged; by then there is no acknowledgement to come.
DrainInv ==
    phase \in {"stopping consumer", "analysing", "analysed"} /\ ~deadline => processed >= acked

LEMMA DrainStep ==
    ASSUME PlaceInv, RestInv, ControlInv, DrainInv, [Next]_vars
    PROVE  DrainInv'
<1>1. acked \in Nat /\ processed \in Nat
  BY DEF PlaceInv, CoreType, RestInv, ConsumerType
<1>2. CASE Running(Callback)
  <2>1. callbacks # <<>> /\ UNCHANGED phase
    BY <1>2 DEF Running, Callback, runnerVars
  <2>2. pcP # "stopped"
    BY <2>1 DEF ControlInv, StoppedIsFlushed
  <2>3. phase \notin {"stopping consumer", "analysing", "analysed"}
    BY <2>2 DEF ControlInv, PhasesInOrder
  <2> QED
    BY <2>1, <2>3 DEF DrainInv
<1>3. ASSUME NEW p \in Partitions, Running(Process(p)) PROVE DrainInv'
  <2>1. processed' = processed + 1 /\ UNCHANGED <<phase, deadline, acked>>
    BY <1>3 DEF Running, Process, runnerVars, producerVars
  <2>2. processed >= acked => processed' >= acked'
    BY <1>1, <2>1
  <2> QED
    BY <2>1, <2>2 DEF DrainInv
<1>4. CASE RunnerStep \/ Running(ArtifactFails \/ ExperimentTimeout)
  BY <1>4 DEF RunnerStep, Running, Available, Abort, StopProducer, ProducerDone, Drained, DrainDeadline,
              ConsumerDone, Analyse, ArtifactFails, ExperimentTimeout, systemVars, producerVars,
              consumerVars, DrainInv
<1>5. CASE Running(\/ Produce \/ ProducerCancelled \/ Flushed \/ PollDelivers \/ Commit
                   \/ ConsumerCancelled \/ PollFails
                   \/ \E p \in Partitions : Rebalance(p) \/ BrokerAppends(p))
  <2>1. UNCHANGED <<phase, deadline, acked, processed>>
    BY <1>5 DEF Running, Produce, ProducerCancelled, Flushed, PollDelivers, Commit, ConsumerCancelled,
                PollFails, Rebalance, BrokerAppends, runnerVars, producerVars, consumerVars
  <2> QED
    BY <2>1 DEF DrainInv
<1>6. ASSUME NEW p \in Partitions, ClientStep(p) PROVE DrainInv'
  <2>1. UNCHANGED <<phase, deadline, acked, processed>>
    BY <1>6, BatchFinishes DEF ClientStep, Running, Finish, runnerVars, producerVars, consumerVars
  <2> QED
    BY <2>1 DEF DrainInv
<1>7. CASE UNCHANGED vars
  BY <1>7 DEF vars, runnerVars, producerVars, consumerVars, DrainInv
<1> QED
  BY <1>2, <1>3, <1>4, <1>5, <1>6, <1>7 DEF Next, ProducerStep, ConsumerStep, Disturbance, Running

LEMMA DrainAlways == Spec => []DrainInv
<1>1. Init => DrainInv
  BY DEF Init, DrainInv
<1>2. PlaceInv /\ RestInv /\ ControlInv /\ DrainInv /\ [Next]_vars => DrainInv'
  BY DrainStep
<1> QED
  BY <1>1, <1>2, PlaceAlways, RestAlways, ControlAlways, PTL DEF Spec

\* A baseline of an idempotent producer fails its validation for a reason that
\* took place: a message that was not delivered, a redelivery, or a consumer
\* that did not catch up in time.
FailedForAReason ==
    scenario = "baseline" /\ verdict = "failed" /\ Idempotent =>
        pFile.failed # {} \/ rebalances > 0 \/ deadline

\* When every message was consumed in order, a gap contradicts FlagsInv.
LEMMA NoGapWhenComplete ==
    ASSUME PlaceInv, RestInv, FlagsInv, ReportInv, SortedInv, Idempotent, rebalances = 0, ~cBroken,
           ConsumedIds = 1..produced
    PROVE  Flagged("gap") = {}
<1> SUFFICES ASSUME NEW k \in 1..Len(cFile), cFile[k].flags.gap PROVE FALSE
  BY DEF Flagged
<1> SUFFICES ASSUME NEW m, m = cFile[k].id, NEW b, b = m - NPartitions PROVE FALSE
  OBVIOUS
<1>1. m \in 1..produced /\ produced \in Nat
  BY DEF ConsumedIds, PlaceInv, CoreType
<1>2. NPartitions \in Nat \ {0}
  BY TrafficAssumption
<1>3. SequenceOf(m) > 1
  BY DEF ReportInv, GapsFollow
<1>4. b \in 1..produced /\ m = b + NPartitions
  <2>1. ASSUME m <= NPartitions PROVE FALSE
    <3>1. m - 1 \in Nat /\ m - 1 < NPartitions
      BY <1>1, <1>2, <2>1
    <3>2. (m - 1) \div NPartitions = 0
      BY ONLY <1>2, <3>1, SMTT(60)
    <3> QED
      BY <1>3, <3>2 DEF SequenceOf
  <2> QED
    BY <1>1, <1>2, <2>1
<1>5. PICK j \in 1..Len(cFile) : cFile[j].id = b
  BY <1>4 DEF ConsumedIds
<1>6. PartitionOf(m) = PartitionOf(b)
  BY <1>4, SequenceBefore
<1>7. Len(cFile) \in Nat
  BY DEF RestInv, ConsumerType
<1>8. CASE j < k
  <2>1. j \in 1..(k - 1)
    BY <1>7, <1>8
  <2> QED
    BY <1>5, <2>1 DEF FlagsInv
<1>9. CASE k < j
  <2>1. Unflagged
    BY DEF Unflagged, ReportInv, FlagsInv
  <2>2. m < b
    BY <1>5, <1>6, <1>9, <2>1 DEF SortedInv
  <2> QED
    BY <1>1, <1>2, <1>4, <2>2
<1>10. CASE j = k
  BY <1>1, <1>2, <1>4, <1>5, <1>10
<1> QED
  BY <1>7, <1>8, <1>9, <1>10

\* With PassedBaselinesAreExactlyOnce the validation is right both ways: what
\* passes was consumed exactly once, and what fails was disturbed.
THEOREM BaselinesFailForAReason == Spec => []FailedForAReason
<1>1. /\ PlaceInv /\ OutcomeInv /\ RestInv /\ ControlInv /\ ConsumedIsKnown
      /\ FlagsInv /\ ReportInv /\ SortedInv /\ DrainInv
      => FailedForAReason
  <2> SUFFICES ASSUME PlaceInv, OutcomeInv, RestInv, ControlInv, ConsumedIsKnown,
                      FlagsInv, ReportInv, SortedInv, DrainInv,
                      scenario = "baseline", verdict = "failed", Idempotent,
                      pFile.failed = {}, ~(rebalances > 0), ~deadline
               PROVE  BaselineValid
    <3>1. verdict = "failed" /\ scenario = "baseline" /\ ControlInv => ~BaselineValid
      BY DEF ControlInv, VerdictIsValidation
    <3> QED
      BY <3>1 DEF FailedForAReason
  <2>1. rebalances = 0 /\ ~cBroken /\ phase = "analysed"
    BY BoundsAreNat DEF RestInv, ConsumerType, ControlInv, VerdictIsValidation
  <2>2. PICK A \in SUBSET Messages, F \in SUBSET Messages :
            /\ pFile = [attempted |-> 1..produced, acknowledged |-> A, failed |-> F]
            /\ A \cup F = 1..produced /\ Cardinality(A) = acked
    BY FileAfterAnalysis
  <2>3. pFile.acknowledged = 1..produced /\ Cardinality(1..produced) = acked
    <3>1. pFile.acknowledged = A /\ F = {}
      BY <2>2
    <3> QED
      BY <2>2, <3>1
  <2>4. produced \in Nat /\ acked = produced
    <3>1. produced \in Nat
      BY DEF PlaceInv, CoreType
    <3>2. Cardinality(1..produced) = produced
      BY <3>1, FS_Interval
    <3> QED
      BY <2>3, <3>1, <3>2
  <2>5. /\ Flagged("duplicate") = {} /\ Flagged("regression") = {}
        /\ \A k \in 1..Len(cFile) : ~cFile[k].flags.duplicate
    BY <2>1 DEF ReportInv, FlagsInv, Flagged
  <2>6. Len(cFile) = processed /\ processed >= acked /\ acked > 0
    BY <2>1 DEF ControlInv, EntriesComplete, PhasesInOrder, DrainInv
  <2>7. ConsumedIds = 1..produced
    <3>1. Len(cFile) \in Nat /\ Len(cFile) <= produced
      BY <2>5, EntriesCounted
    <3>2. Len(cFile) = produced
      BY <2>4, <2>6, <3>1
    <3> QED
      BY <2>5, <3>2, EntriesCounted
  <2>8. Missing = {} /\ pFile.acknowledged # {} /\ cFile # <<>>
    <3>1. 1 \in 1..produced
      BY <2>4, <2>6
    <3>2. \E k \in 1..Len(cFile) : cFile[k].id = 1
      BY <2>7, <3>1 DEF ConsumedIds
    <3>3. Len(<<>>) = 0 /\ 1..0 = {}
      OBVIOUS
    <3>4. cFile # <<>>
      BY <3>2, <3>3
    <3> QED
      BY <2>3, <2>7, <3>1, <3>4 DEF Missing
  <2>9. Flagged("gap") = {}
    BY <2>1, <2>7, NoGapWhenComplete
  <2> QED
    BY <2>5, <2>8, <2>9 DEF BaselineValid
<1> QED
  BY <1>1, PlaceAlways, OutcomeAlways, RestAlways, ControlAlways, ConsumedAlways, FlagsAlways,
     ReportAlways, SortedAlways, DrainAlways, PTL
==============================================================================
