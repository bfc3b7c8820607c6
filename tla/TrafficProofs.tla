---------------------------- MODULE TrafficProofs ----------------------------
(***************************************************************************)
(* Proofs about Traffic for any number of messages, partitions, retries,   *)
(* fetch errors and redeliveries: the types, one outcome for each attempt  *)
(* of a run that is analysed, a fault validation that never fails,         *)
(* baselines that pass exactly once, and no acknowledged message lost on   *)
(* its way to the consumer.  TrafficOrderProofs is about order.            *)
(***************************************************************************)
EXTENDS Traffic, FiniteSetTheorems, TLAPS

(***************************************************************************)
(* Sequences                                                               *)
(***************************************************************************)
LEMMA Appended ==
    ASSUME NEW S, NEW s \in Seq(S), NEW e \in S
    PROVE  /\ Append(s, e) \in Seq(S)
           /\ Len(Append(s, e)) = Len(s) + 1
           /\ \A i \in 1..Len(s) : Append(s, e)[i] = s[i]
           /\ Append(s, e)[Len(s) + 1] = e
OBVIOUS

LEMMA Joined ==
    ASSUME NEW S, NEW s \in Seq(S), NEW t \in Seq(S)
    PROVE  /\ s \o t \in Seq(S)
           /\ Len(s \o t) = Len(s) + Len(t)
           /\ \A i \in 1..Len(s) : (s \o t)[i] = s[i]
           /\ \A i \in 1..Len(t) : (s \o t)[Len(s) + i] = t[i]
OBVIOUS

LEMMA Cut ==
    ASSUME NEW S, NEW s \in Seq(S), NEW k \in 0..Len(s)
    PROVE  /\ SubSeq(s, k + 1, Len(s)) \in Seq(S)
           /\ Len(SubSeq(s, k + 1, Len(s))) = Len(s) - k
           /\ \A i \in 1..Len(s) - k : SubSeq(s, k + 1, Len(s))[i] = s[k + i]
           /\ SubSeq(s, 1, k) \in Seq(S)
           /\ Len(SubSeq(s, 1, k)) = k
           /\ \A i \in 1..k : SubSeq(s, 1, k)[i] = s[i]
OBVIOUS

LEMMA Rest ==
    ASSUME NEW S, NEW s \in Seq(S), s # <<>>
    PROVE  /\ Tail(s) \in Seq(S)
           /\ Head(s) \in S
           /\ Head(s) = s[1]
           /\ Len(s) \in Nat \ {0}
           /\ Len(Tail(s)) = Len(s) - 1
           /\ \A i \in 1..Len(s) - 1 : Tail(s)[i] = s[i + 1]
OBVIOUS

LEMMA BoundsAreNat ==
    /\ MaxMessages \in Nat /\ MaxAppends \in Nat /\ MaxFetchErrors \in Nat /\ MaxRebalances \in Nat
BY TrafficAssumption

LEMMA PartitionType == \A m \in Nat \ {0} : PartitionOf(m) \in Partitions
BY TrafficAssumption DEF PartitionOf, Partitions

LEMMA SequenceType == \A m \in Nat \ {0} : SequenceOf(m) \in Nat \ {0}
BY TrafficAssumption DEF SequenceOf
-----------------------------------------------------------------------------
(***************************************************************************)
(* Where a message is: in the client's buffer, finished with its callback  *)
(* still to run, or past its callback                                      *)
(***************************************************************************)
InBuffer(m) == \E p \in Partitions : \E i \in 1..Len(buffered[p]) : buffered[p][i] = m
Pending(m) == \E i \in 1..Len(callbacks) : callbacks[i].id = m

\* A buffer holds generated messages of its partition, each once.
BufferedOnce ==
    \A p \in Partitions :
        /\ \A i \in 1..Len(buffered[p]) :
              buffered[p][i] \in 1..produced /\ PartitionOf(buffered[p][i]) = p
        /\ \A i, j \in 1..Len(buffered[p]) : buffered[p][i] = buffered[p][j] => i = j

\* A message has one callback, and has left the buffer by then.
PendingOnce ==
    /\ \A i \in 1..Len(callbacks) : callbacks[i].id \in 1..produced
    /\ \A i, j \in 1..Len(callbacks) : callbacks[i].id = callbacks[j].id => i = j
    /\ \A m : ~(Pending(m) /\ InBuffer(m))

\* A batch is a prefix of the buffer.
BatchFits == \A p \in Partitions : inflight[p] <= Len(buffered[p])

\* What the step from tick to callback works on.
coreVars == <<produced, buffered, inflight, callbacks, acked, pFile, pBroken>>

CoreType ==
    /\ produced \in 0..MaxMessages
    /\ buffered \in [Partitions -> Seq(Messages)]
    /\ inflight \in [Partitions -> Nat]
    /\ callbacks \in Seq([id : Messages, ok : BOOLEAN])
    /\ acked \in Nat
    /\ pFile \in [{"attempted", "acknowledged", "failed"} -> SUBSET Messages]
    /\ pBroken \in BOOLEAN

PlaceInv == CoreType /\ BufferedOnce /\ PendingOnce /\ BatchFits

LEMMA BatchFinishes ==
    ASSUME PlaceInv, NEW p \in Partitions, BatchAcknowledged(p) \/ BatchFails(p)
    PROVE  \E ok \in BOOLEAN : \E k \in 0..Len(buffered[p]) : Finish(p, k, ok)
<1>1. Len(buffered[p]) \in Nat /\ inflight[p] \in 0..Len(buffered[p])
  BY DEF PlaceInv, CoreType, BatchFits
<1>2. CASE BatchAcknowledged(p)
  BY <1>1, <1>2 DEF BatchAcknowledged
<1>3. CASE BatchFails(p)
  <2>1. PICK k \in IF inflight[p] = 0 THEN 1..Len(buffered[p]) ELSE {inflight[p]} :
            Finish(p, k, FALSE)
    BY <1>3 DEF BatchFails
  <2>2. k \in 0..Len(buffered[p])
    BY <1>1
  <2> QED
    BY <2>1, <2>2
<1> QED
  BY <1>2, <1>3

LEMMA CoreSteps ==
    ASSUME PlaceInv, [Next]_vars
    PROVE  \/ Produce
           \/ Callback
           \/ \E p \in Partitions, ok \in BOOLEAN : \E k \in 0..Len(buffered[p]) : Finish(p, k, ok)
           \/ \E p \in Partitions : BrokerAppends(p)
           \/ UNCHANGED coreVars
<1> USE DEF coreVars, clientVars, producerVars
<1>1. CASE UNCHANGED vars
  BY <1>1 DEF vars
<1>2. ASSUME NEW p \in Partitions, BatchAcknowledged(p) \/ BatchFails(p)
      PROVE  \E ok \in BOOLEAN : \E k \in 0..Len(buffered[p]) : Finish(p, k, ok)
  BY <1>2, BatchFinishes
<1>3. CASE RunnerStep
  BY <1>3 DEF RunnerStep, Running, Available, Abort, StopProducer, ProducerDone, Drained,
              DrainDeadline, ConsumerDone, Analyse, systemVars
<1>4. CASE ConsumerStep
  BY <1>4 DEF ConsumerStep, Running, PollDelivers, Process, Commit, ConsumerCancelled
<1>5. CASE Running(ProducerCancelled \/ Flushed)
  BY <1>5 DEF Running, ProducerCancelled, Flushed
<1>6. CASE Running(PollFails \/ ArtifactFails \/ ExperimentTimeout \/ \E p \in Partitions : Rebalance(p))
  BY <1>6 DEF Running, PollFails, ArtifactFails, ExperimentTimeout, Rebalance, systemVars
<1> QED
  BY <1>1, <1>2, <1>3, <1>4, <1>5, <1>6
  DEF Next, ProducerStep, ClientStep, Disturbance, Running

LEMMA WriteType ==
    ASSUME PlaceInv, NEW kind \in {"attempted", "acknowledged", "failed"}, NEW m \in Messages,
           WriteResult(kind, m)
    PROVE  /\ pFile' \in [{"attempted", "acknowledged", "failed"} -> SUBSET Messages]
           /\ pBroken' \in BOOLEAN
           /\ ~pBroken' => ~pBroken /\ pFile' = [pFile EXCEPT ![kind] = @ \cup {m}]
BY DEF PlaceInv, CoreType, WriteResult

\* A tick puts the new message into its buffer.
LEMMA ProducePlaces ==
    ASSUME PlaceInv, Produce
    PROVE  /\ PlaceInv'
           /\ \A m : InBuffer(m)' <=> InBuffer(m) \/ m = produced + 1
           /\ \A m : Pending(m)' <=> Pending(m)
<1>1. /\ produced + 1 \in Messages /\ produced + 1 \in Nat \ {0}
      /\ produced' = produced + 1 /\ produced \in Nat
  BY TrafficAssumption DEF PlaceInv, CoreType, Produce, Messages
<1> SUFFICES ASSUME NEW m \in Nat \ {0}, m = produced + 1, NEW p, p = PartitionOf(m)
             PROVE  /\ PlaceInv'
                    /\ \A n : InBuffer(n)' <=> InBuffer(n) \/ n = m
                    /\ \A n : Pending(n)' <=> Pending(n)
  BY <1>1
<1>2. p \in Partitions
  BY PartitionType
<1>3. /\ buffered' = [buffered EXCEPT ![p] = Append(buffered[p], m)]
      /\ UNCHANGED <<inflight, callbacks, acked>>
  BY DEF Produce
<1>4. buffered[p] \in Seq(Messages)
  BY <1>2 DEF PlaceInv, CoreType
<1>5. /\ buffered'[p] \in Seq(Messages)
      /\ Len(buffered'[p]) = Len(buffered[p]) + 1
      /\ \A i \in 1..Len(buffered[p]) : buffered'[p][i] = buffered[p][i]
      /\ buffered'[p][Len(buffered[p]) + 1] = m
  <2>1. buffered'[p] = Append(buffered[p], m) /\ m \in Messages
    BY <1>1, <1>2, <1>3 DEF PlaceInv, CoreType
  <2> QED
    BY <1>4, <2>1, Appended
<1>6. \A q \in Partitions : q # p => buffered'[q] = buffered[q]
  BY <1>3 DEF PlaceInv, CoreType
<1>7. Len(buffered[p]) \in Nat
  BY <1>4
<1>8. \A n : InBuffer(n)' <=> InBuffer(n) \/ n = m
  <2>1. ASSUME NEW n, InBuffer(n)' PROVE InBuffer(n) \/ n = m
    BY <1>2, <1>5, <1>6, <1>7, <2>1, SMTT(60) DEF InBuffer, Partitions
  <2>2. ASSUME NEW n, InBuffer(n) PROVE InBuffer(n)'
    BY <1>2, <1>5, <1>6, <1>7, <2>2, SMTT(60) DEF InBuffer, Partitions
  <2>3. InBuffer(m)'
    BY <1>2, <1>5, <1>7 DEF InBuffer, Partitions
  <2> QED
    BY <2>1, <2>2, <2>3
<1>9. \A n : Pending(n)' <=> Pending(n)
  BY <1>3 DEF Pending
<1>10. CoreType'
  <2>1. buffered' \in [Partitions -> Seq(Messages)]
    BY <1>2, <1>3, <1>5, <1>6 DEF PlaceInv, CoreType, Partitions
  <2>2. /\ pFile' \in [{"attempted", "acknowledged", "failed"} -> SUBSET Messages]
        /\ pBroken' \in BOOLEAN
    BY <1>1, WriteType DEF Produce
  <2>3. produced' \in 0..MaxMessages
    BY <1>1 DEF Messages
  <2> QED
    BY <1>3, <2>1, <2>2, <2>3 DEF PlaceInv, CoreType, Partitions, Messages
<1>11. PartitionOf(m) = p
  OBVIOUS
<1>12. BufferedOnce'
  <2>1. \A q \in Partitions : \A i \in 1..Len(buffered[q]) : buffered[q][i] # m
    BY <1>1 DEF PlaceInv, BufferedOnce
  <2>2. ASSUME NEW q \in Partitions, q # p
        PROVE  /\ \A i \in 1..Len(buffered'[q]) :
                     buffered'[q][i] \in 1..produced' /\ PartitionOf(buffered'[q][i]) = q
               /\ \A i, j \in 1..Len(buffered'[q]) : buffered'[q][i] = buffered'[q][j] => i = j
    BY <1>1, <1>6, <2>2 DEF PlaceInv, BufferedOnce
  <2>3. \A i \in 1..Len(buffered'[p]) :
            buffered'[p][i] \in 1..produced' /\ PartitionOf(buffered'[p][i]) = p
    <3>1. ASSUME NEW i \in 1..Len(buffered[p])
          PROVE  buffered'[p][i] \in 1..produced' /\ PartitionOf(buffered'[p][i]) = p
      BY <1>1, <1>2, <1>5 DEF PlaceInv, BufferedOnce
    <3>2. m \in 1..produced'
      BY <1>1
    <3> QED
      BY <1>5, <1>7, <1>11, <3>1, <3>2
  <2>4. \A i, j \in 1..Len(buffered'[p]) : buffered'[p][i] = buffered'[p][j] => i = j
    BY <1>2, <1>5, <1>7, <2>1, SMTT(60) DEF PlaceInv, BufferedOnce
  <2> QED
    BY <2>2, <2>3, <2>4 DEF BufferedOnce, Partitions, PartitionOf
<1>13. PendingOnce'
  <2>1. ~Pending(m)
    BY <1>1 DEF PlaceInv, PendingOnce, Pending
  <2>2. /\ \A i \in 1..Len(callbacks') : callbacks'[i].id \in 1..produced'
        /\ \A i, j \in 1..Len(callbacks') : callbacks'[i].id = callbacks'[j].id => i = j
    BY <1>1, <1>3 DEF PlaceInv, PendingOnce
  <2>3. \A q : ~(Pending(q)' /\ InBuffer(q)')
    BY <1>8, <1>9, <2>1 DEF PlaceInv, PendingOnce
  <2> QED
    BY <2>2, <2>3 DEF PendingOnce
<1>14. BatchFits'
  <2>1. \A q \in Partitions : inflight[q] \in Nat /\ Len(buffered[q]) \in Nat
    BY DEF PlaceInv, CoreType
  <2> QED
    BY <1>3, <1>5, <1>6, <2>1 DEF PlaceInv, BatchFits, Partitions
<1> QED
  BY <1>8, <1>9, <1>10, <1>12, <1>13, <1>14 DEF PlaceInv

\* A finished batch leaves the buffer and waits for its callbacks.
LEMMA FinishPlaces ==
    ASSUME PlaceInv, NEW p \in Partitions, NEW ok \in BOOLEAN, NEW k \in 0..Len(buffered[p]),
           Finish(p, k, ok)
    PROVE  /\ PlaceInv'
           /\ \A m : InBuffer(m)' \/ Pending(m)' <=> InBuffer(m) \/ Pending(m)
<1> SUFFICES ASSUME NEW b, b = buffered[p], NEW t, t = [i \in 1..k |-> [id |-> b[i], ok |-> ok]],
                    NEW n, n = Len(callbacks), NEW l, l = Len(b)
             PROVE  /\ PlaceInv'
                    /\ \A m : InBuffer(m)' \/ Pending(m)' <=> InBuffer(m) \/ Pending(m)
  OBVIOUS
<1>1. b \in Seq(Messages) /\ l \in Nat /\ k \in 0..l /\ k \in Nat /\ n \in Nat
  BY DEF PlaceInv, CoreType
<1>2. /\ buffered' = [buffered EXCEPT ![p] = SubSeq(b, k + 1, l)]
      /\ inflight' = [inflight EXCEPT ![p] = 0]
      /\ callbacks' = callbacks \o t
      /\ UNCHANGED <<produced, acked, pFile, pBroken>>
  BY DEF Finish, producerVars
<1>3. /\ buffered'[p] \in Seq(Messages)
      /\ Len(buffered'[p]) = l - k
      /\ \A i \in 1..l - k : buffered'[p][i] = b[k + i]
  <2>1. buffered'[p] = SubSeq(b, k + 1, Len(b))
    BY <1>2 DEF PlaceInv, CoreType
  <2> QED
    BY <1>1, <2>1, Cut
<1>4. \A q \in Partitions : q # p => buffered'[q] = buffered[q]
  BY <1>2 DEF PlaceInv, CoreType
<1>5. t \in Seq([id : Messages, ok : BOOLEAN]) /\ Len(t) = k /\ \A i \in 1..k : t[i].id = b[i]
  <2>1. \A i \in 1..k : b[i] \in Messages
    BY <1>1
  <2> QED
    BY <1>1, <2>1
<1>6. /\ callbacks' \in Seq([id : Messages, ok : BOOLEAN])
      /\ Len(callbacks') = n + k
      /\ \A i \in 1..n : callbacks'[i] = callbacks[i]
      /\ \A i \in 1..k : callbacks'[n + i].id = b[i]
  <2>1. callbacks \in Seq([id : Messages, ok : BOOLEAN])
    BY DEF PlaceInv, CoreType
  <2> QED
    BY <1>2, <1>5, <2>1, Joined
<1>7. \A m : Pending(m)' <=> Pending(m) \/ \E i \in 1..k : b[i] = m
  <2>1. ASSUME NEW m, Pending(m)' PROVE Pending(m) \/ \E i \in 1..k : b[i] = m
    <3>1. PICK i \in 1..n + k : callbacks'[i].id = m
      BY <1>6, <2>1 DEF Pending
    <3>2. CASE i <= n
      BY <1>1, <1>6, <3>1, <3>2 DEF Pending
    <3>3. CASE i > n
      <4>1. i - n \in 1..k /\ n + (i - n) = i
        BY <1>1, <3>3
      <4> QED
        BY <1>6, <3>1, <4>1
    <3> QED
      BY <1>1, <3>2, <3>3
  <2>2. ASSUME NEW m, Pending(m) PROVE Pending(m)'
    BY <1>1, <1>6, <2>2 DEF Pending
  <2>3. ASSUME NEW m, NEW i \in 1..k, b[i] = m PROVE Pending(m)'
    <3>1. n + i \in 1..n + k
      BY <1>1
    <3>2. callbacks'[n + i].id = m
      BY <1>6, <2>3
    <3> QED
      BY <1>6, <3>1, <3>2 DEF Pending
  <2> QED
    BY <2>1, <2>2, <2>3
<1>8. \A m : InBuffer(m)' => InBuffer(m) /\ ~\E i \in 1..k : b[i] = m
  <2> SUFFICES ASSUME NEW m, NEW q \in Partitions, NEW j \in 1..Len(buffered'[q]), buffered'[q][j] = m
               PROVE  InBuffer(m) /\ ~\E i \in 1..k : b[i] = m
    BY DEF InBuffer, Partitions
  <2>1. CASE q = p
    <3>1. k + j \in 1..l /\ b[k + j] = m
      BY <1>1, <1>3, <2>1
    <3>2. \A i \in 1..k : i \in 1..l /\ i # k + j
      BY <1>1, <3>1
    <3> QED
      BY <3>1, <3>2 DEF PlaceInv, BufferedOnce, InBuffer
  <2>2. CASE q # p
    <3>1. PartitionOf(m) = q /\ InBuffer(m)
      BY <1>4, <2>2 DEF PlaceInv, BufferedOnce, InBuffer
    <3>2. \A i \in 1..k : PartitionOf(b[i]) = p
      BY <1>1 DEF PlaceInv, BufferedOnce
    <3> QED
      BY <2>2, <3>1, <3>2
  <2> QED
    BY <2>1, <2>2
<1>9. \A m : InBuffer(m) => InBuffer(m)' \/ \E i \in 1..k : b[i] = m
  <2> SUFFICES ASSUME NEW m, NEW q \in Partitions, NEW j \in 1..Len(buffered[q]), buffered[q][j] = m
               PROVE  InBuffer(m)' \/ \E i \in 1..k : b[i] = m
    BY DEF InBuffer
  <2>1. CASE q = p
    <3>1. j \in 1..k \/ (j - k \in 1..l - k /\ k + (j - k) = j)
      BY <1>1, <2>1
    <3> QED
      BY <1>3, <2>1, <3>1, ZenonT(60) DEF InBuffer, Partitions
  <2>2. CASE q # p
    BY <1>4, <2>2 DEF InBuffer, Partitions
  <2> QED
    BY <2>1, <2>2
<1>10. \A i \in 1..k : InBuffer(b[i])
  BY <1>1 DEF InBuffer
<1>11. CoreType'
  <2>1. buffered' \in [Partitions -> Seq(Messages)]
    BY <1>2, <1>3, <1>4 DEF PlaceInv, CoreType, Partitions
  <2> QED
    BY <1>2, <1>6, <2>1 DEF PlaceInv, CoreType, Partitions, Messages
<1>12. BufferedOnce'
  <2>1. \A i \in 1..l - k : k + i \in 1..l
    BY <1>1
  <2>2. \A i \in 1..Len(buffered'[p]) :
            buffered'[p][i] \in 1..produced' /\ PartitionOf(buffered'[p][i]) = p
    BY <1>2, <1>3, <2>1 DEF PlaceInv, BufferedOnce
  <2>3. \A i, j \in 1..Len(buffered'[p]) : buffered'[p][i] = buffered'[p][j] => i = j
    <3>1. 1..Len(buffered'[p]) = 1..l - k
      BY <1>3
    <3>2. SUFFICES ASSUME NEW i \in 1..l - k, NEW j \in 1..l - k,
                          buffered'[p][i] = buffered'[p][j]
                   PROVE  i = j
      BY <3>1, Zenon
    <3>3. b[k + i] = b[k + j]
      BY <1>3, <3>2
    <3>4. k + i = k + j
      BY <2>1, <3>3 DEF PlaceInv, BufferedOnce
    <3> QED
      BY <1>1, <3>4
  <2>4. ASSUME NEW q \in Partitions, q # p
        PROVE  /\ \A i \in 1..Len(buffered'[q]) :
                     buffered'[q][i] \in 1..produced' /\ PartitionOf(buffered'[q][i]) = q
               /\ \A i, j \in 1..Len(buffered'[q]) : buffered'[q][i] = buffered'[q][j] => i = j
    BY <1>2, <1>4, <2>4 DEF PlaceInv, BufferedOnce
  <2> QED
    BY <2>2, <2>3, <2>4 DEF BufferedOnce, Partitions, PartitionOf
<1>13. \A i \in 1..n + k : i \in 1..n \/ (i - n \in 1..k /\ n + (i - n) = i)
  BY <1>1
<1>14. PendingOnce'
  <2>1. \A i \in 1..n : callbacks'[i].id \in 1..produced'
    BY <1>2, <1>6 DEF PlaceInv, PendingOnce
  <2>2. \A i \in 1..k : callbacks'[n + i].id \in 1..produced'
    BY <1>1, <1>2, <1>6 DEF PlaceInv, BufferedOnce
  <2>3. \A i \in 1..n + k : callbacks'[i].id \in 1..produced'
    BY <1>13, <2>1, <2>2
  <2>4. \A i \in 1..n, j \in 1..k : callbacks[i].id # b[j]
    BY <1>10 DEF PlaceInv, PendingOnce, Pending
  <2>5. ASSUME NEW i \in 1..n + k, NEW j \in 1..n + k, callbacks'[i].id = callbacks'[j].id
        PROVE  i = j
    <3>1. CASE i \in 1..n /\ j \in 1..n
      BY <1>6, <2>5, <3>1 DEF PlaceInv, PendingOnce
    <3>2. CASE i \in 1..n /\ j \notin 1..n
      <4>1. j - n \in 1..k /\ callbacks'[j].id = b[j - n]
        BY <1>6, <1>13, <3>2
      <4> QED
        BY <1>6, <2>4, <2>5, <3>2, <4>1
    <3>3. CASE i \notin 1..n /\ j \in 1..n
      <4>1. i - n \in 1..k /\ callbacks'[i].id = b[i - n]
        BY <1>6, <1>13, <3>3
      <4> QED
        BY <1>6, <2>4, <2>5, <3>3, <4>1, ZenonT(60)
    <3>4. CASE i \notin 1..n /\ j \notin 1..n
      <4>1. i - n \in 1..k /\ j - n \in 1..k /\ b[i - n] = b[j - n]
        BY <1>6, <1>13, <2>5, <3>4
      <4>2. i - n \in 1..l /\ j - n \in 1..l
        BY <1>1, <4>1
      <4>3. i - n = j - n
        BY <4>1, <4>2 DEF PlaceInv, BufferedOnce
      <4> QED
        BY <1>1, <4>3
    <3> QED
      BY <3>1, <3>2, <3>3, <3>4
  <2>6. \A m : ~(Pending(m)' /\ InBuffer(m)')
    BY <1>7, <1>8 DEF PlaceInv, PendingOnce
  <2> QED
    BY <1>6, <2>3, <2>5, <2>6 DEF PendingOnce
<1>15. BatchFits'
  <2>1. \A q \in Partitions : inflight[q] \in Nat /\ Len(buffered[q]) \in Nat
    BY DEF PlaceInv, CoreType
  <2>2. \A q \in Partitions : inflight'[q] = IF q = p THEN 0 ELSE inflight[q]
    BY <1>2 DEF PlaceInv, CoreType
  <2>3. l - k >= 0
    BY <1>1
  <2> QED
    BY <1>3, <1>4, <2>1, <2>2, <2>3 DEF PlaceInv, BatchFits, Partitions
<1> QED
  BY <1>7, <1>8, <1>9, <1>10, <1>11, <1>12, <1>14, <1>15 DEF PlaceInv

\* A callback ends its message.
LEMMA CallbackPlaces ==
    ASSUME PlaceInv, Callback, NEW e, e = Head(callbacks).id
    PROVE  /\ PlaceInv'
           /\ \A m : InBuffer(m)' <=> InBuffer(m)
           /\ \A m : Pending(m) <=> Pending(m)' \/ m = e
           /\ ~Pending(e)' /\ Pending(e)
<1> SUFFICES ASSUME NEW h, h = Head(callbacks), e = h.id, NEW n, n = Len(callbacks)
             PROVE  /\ PlaceInv'
                    /\ \A m : InBuffer(m)' <=> InBuffer(m)
                    /\ \A m : Pending(m) <=> Pending(m)' \/ m = e
                    /\ ~Pending(e)' /\ Pending(e)
  OBVIOUS
<1>1. /\ callbacks # <<>>
      /\ callbacks' = Tail(callbacks)
      /\ IF h.ok THEN acked' = acked + 1 /\ WriteResult("acknowledged", e)
                 ELSE acked' = acked /\ WriteResult("failed", e)
      /\ UNCHANGED <<produced, buffered, inflight>>
  BY DEF Callback, clientVars
<1>2. /\ callbacks' \in Seq([id : Messages, ok : BOOLEAN])
      /\ h \in [id : Messages, ok : BOOLEAN]
      /\ h = callbacks[1]
      /\ n \in Nat \ {0}
      /\ Len(callbacks') = n - 1
      /\ \A i \in 1..n - 1 : callbacks'[i] = callbacks[i + 1]
  <2>1. callbacks \in Seq([id : Messages, ok : BOOLEAN])
    BY DEF PlaceInv, CoreType
  <2> QED
    BY <1>1, <2>1, Rest
<1>3. e \in Messages /\ e = callbacks[1].id /\ 1 \in 1..n
  BY <1>2
<1>4. \A i \in 1..n - 1 : i + 1 \in 1..n /\ i + 1 # 1
  BY <1>2
<1>5. \A i \in 1..n : i = 1 \/ (i - 1 \in 1..n - 1 /\ (i - 1) + 1 = i)
  BY <1>2
<1>6. \A m : InBuffer(m)' <=> InBuffer(m)
  BY <1>1 DEF InBuffer, Partitions
<1>7. \A i \in 1..n - 1 : callbacks'[i].id # e
  BY <1>2, <1>3, <1>4 DEF PlaceInv, PendingOnce
<1>8. Pending(e) /\ ~Pending(e)'
  BY <1>2, <1>3, <1>7 DEF Pending
<1>9. \A m : Pending(m) <=> Pending(m)' \/ m = e
  <2>1. ASSUME NEW m, Pending(m) PROVE Pending(m)' \/ m = e
    BY <1>2, <1>3, <1>5, <2>1 DEF Pending
  <2>2. ASSUME NEW m, Pending(m)' PROVE Pending(m)
    BY <1>2, <1>4, <2>2 DEF Pending
  <2> QED
    BY <1>8, <2>1, <2>2
<1>10. CoreType'
  <2>1. /\ pFile' \in [{"attempted", "acknowledged", "failed"} -> SUBSET Messages]
        /\ pBroken' \in BOOLEAN
    BY <1>1, <1>3, WriteType
  <2> QED
    BY <1>1, <1>2, <2>1 DEF PlaceInv, CoreType, Partitions, Messages
<1>11. PendingOnce'
  <2>1. \A i \in 1..n - 1 : callbacks'[i].id \in 1..produced'
    BY <1>1, <1>2, <1>4 DEF PlaceInv, PendingOnce
  <2>2. ASSUME NEW i \in 1..n - 1, NEW j \in 1..n - 1, callbacks'[i].id = callbacks'[j].id
        PROVE  i = j
    <3>1. /\ i + 1 \in 1..Len(callbacks) /\ j + 1 \in 1..Len(callbacks)
          /\ callbacks[i + 1].id = callbacks[j + 1].id
      BY <1>2, <1>4, <2>2
    <3>2. i + 1 = j + 1
      BY <3>1 DEF PlaceInv, PendingOnce
    <3> QED
      BY <3>2
  <2>3. \A m : ~(Pending(m)' /\ InBuffer(m)')
    BY <1>6, <1>9 DEF PlaceInv, PendingOnce
  <2> QED
    BY <1>2, <2>1, <2>2, <2>3 DEF PendingOnce
<1>12. BufferedOnce' /\ BatchFits'
  BY <1>1 DEF PlaceInv, BufferedOnce, BatchFits, Partitions, PartitionOf
<1> QED
  BY <1>6, <1>8, <1>9, <1>10, <1>11, <1>12 DEF PlaceInv

\* Appending changes the batch on its way only.
LEMMA AppendPlaces ==
    ASSUME PlaceInv, NEW p \in Partitions, BrokerAppends(p)
    PROVE  PlaceInv' /\ UNCHANGED <<produced, buffered, callbacks, acked, pFile, pBroken>>
<1>1. UNCHANGED <<produced, buffered, callbacks, acked, pFile, pBroken>>
  BY DEF BrokerAppends, producerVars
<1>2. PICK k \in IF inflight[p] = 0 THEN 1..Len(buffered[p]) ELSE {inflight[p]} :
          inflight' = [inflight EXCEPT ![p] = k]
  BY DEF BrokerAppends
<1>3. k \in 0..Len(buffered[p]) /\ Len(buffered[p]) \in Nat /\ k \in Nat
  BY <1>2 DEF PlaceInv, CoreType, BatchFits
<1>4. CoreType' /\ BatchFits'
  BY <1>1, <1>2, <1>3 DEF PlaceInv, CoreType, BatchFits, Partitions, Messages
<1>5. BufferedOnce' /\ PendingOnce'
  BY <1>1, ZenonT(60) DEF PlaceInv, BufferedOnce, PendingOnce, InBuffer, Pending, Partitions, PartitionOf
<1> QED
  BY <1>1, <1>4, <1>5 DEF PlaceInv

LEMMA StillPlaces ==
    ASSUME PlaceInv, UNCHANGED coreVars
    PROVE  PlaceInv'
BY DEF PlaceInv, CoreType, BufferedOnce, PendingOnce, BatchFits, InBuffer, Pending,
       Partitions, PartitionOf, Messages, coreVars

LEMMA PlaceInit == Init => PlaceInv
<1> SUFFICES ASSUME Init PROVE PlaceInv
  OBVIOUS
<1>1. CoreType
  <2>1. /\ produced = 0 /\ acked = 0 /\ callbacks = <<>> /\ pBroken = FALSE
        /\ buffered = [p \in Partitions |-> <<>>]
        /\ inflight = [p \in Partitions |-> 0]
        /\ pFile = [attempted |-> {}, acknowledged |-> {}, failed |-> {}]
    BY DEF Init
  <2>2. <<>> \in Seq(Messages) /\ <<>> \in Seq([id : Messages, ok : BOOLEAN])
    OBVIOUS
  <2>3. pFile \in [{"attempted", "acknowledged", "failed"} -> SUBSET Messages]
    BY <2>1
  <2>4. produced \in 0..MaxMessages
    BY <2>1, BoundsAreNat
  <2> QED
    BY <2>1, <2>2, <2>3, <2>4 DEF CoreType
<1>2. BufferedOnce /\ PendingOnce /\ BatchFits
  BY DEF Init, BufferedOnce, PendingOnce, BatchFits, InBuffer, Pending
<1> QED
  BY <1>1, <1>2 DEF PlaceInv

LEMMA PlaceStep == PlaceInv /\ [Next]_vars => PlaceInv'
<1> SUFFICES ASSUME PlaceInv, [Next]_vars PROVE PlaceInv'
  OBVIOUS
<1> QED
  BY CoreSteps, ProducePlaces, CallbackPlaces, FinishPlaces, AppendPlaces, StillPlaces

LEMMA PlaceAlways == Spec => []PlaceInv
BY PlaceInit, PlaceStep, PTL DEF Spec
-----------------------------------------------------------------------------
(***************************************************************************)
(* Outcomes                                                                *)
(***************************************************************************)
\* A and F are the messages whose callbacks reported success and failure:
\* together with those on their way they are all that were attempted, and a
\* file that no write failed says so.
Outcomes(A, F) ==
    /\ A \subseteq 1..produced /\ F \subseteq 1..produced /\ A \cap F = {}
    /\ Cardinality(A) = acked
    /\ \A m \in A \cup F : ~InBuffer(m) /\ ~Pending(m)
    /\ \A m \in 1..produced : m \in A \cup F \/ InBuffer(m) \/ Pending(m)
    /\ ~pBroken => pFile = [attempted |-> 1..produced, acknowledged |-> A, failed |-> F]

OutcomeInv == \E A, F \in SUBSET Messages : Outcomes(A, F)

LEMMA FiniteMessages ==
    /\ IsFiniteSet(Messages) /\ Cardinality(Messages) = MaxMessages
    /\ \A A \in SUBSET Messages : IsFiniteSet(A) /\ Cardinality(A) \in 0..MaxMessages
<1>1. IsFiniteSet(Messages) /\ Cardinality(Messages) = MaxMessages
  BY FS_Interval, TrafficAssumption DEF Messages
<1>2. \A A \in SUBSET Messages : IsFiniteSet(A) /\ Cardinality(A) <= MaxMessages
  BY <1>1, FS_Subset
<1>3. \A A \in SUBSET Messages : Cardinality(A) \in Nat
  BY <1>2, FS_CardinalityType
<1> QED
  BY <1>1, <1>2, <1>3, TrafficAssumption

LEMMA OutcomeInit == Init => OutcomeInv
<1> SUFFICES ASSUME Init PROVE Outcomes({}, {})
  BY DEF OutcomeInv
<1>1. Cardinality({}) = 0
  BY FS_EmptySet
<1>2. 1..0 = {}
  OBVIOUS
<1> QED
  BY <1>1, <1>2 DEF Init, Outcomes

LEMMA OutcomeStep ==
    ASSUME PlaceInv, OutcomeInv, [Next]_vars
    PROVE  OutcomeInv'
<1>1. PICK A \in SUBSET Messages, F \in SUBSET Messages : Outcomes(A, F)
  BY DEF OutcomeInv
<1>2. produced \in Nat
  BY DEF PlaceInv, CoreType
<1>3. CASE Produce
  <2>1. /\ produced' = produced + 1 /\ acked' = acked
        /\ WriteResult("attempted", produced + 1)
    BY <1>3 DEF Produce
  <2>2. 1..produced' = 1..produced \cup {produced + 1} /\ produced + 1 \notin 1..produced
    BY <1>2, <2>1
  <2>3. /\ \A m : InBuffer(m)' <=> InBuffer(m) \/ m = produced + 1
        /\ \A m : Pending(m)' <=> Pending(m)
    BY <1>3, ProducePlaces
  <2>4. ~Pending(produced + 1)
    BY <2>2 DEF PlaceInv, PendingOnce, Pending
  <2>5. ~pBroken' => ~pBroken /\ pFile' = [pFile EXCEPT !["attempted"] = @ \cup {produced + 1}]
    BY <2>1 DEF WriteResult, PlaceInv, CoreType
  <2>6. ~pBroken' => pFile' = [attempted |-> 1..produced', acknowledged |-> A, failed |-> F]
    <3> SUFFICES ASSUME ~pBroken' PROVE pFile' = [attempted |-> 1..produced', acknowledged |-> A, failed |-> F]
      OBVIOUS
    <3>1. pFile = [attempted |-> 1..produced, acknowledged |-> A, failed |-> F]
      BY <1>1, <2>5 DEF Outcomes
    <3> QED
      BY <2>2, <2>5, <3>1
  <2>7. Outcomes(A, F)'
    BY <1>1, <2>1, <2>2, <2>3, <2>4, <2>6 DEF Outcomes
  <2> QED
    BY <2>7 DEF OutcomeInv, Messages
<1>4. ASSUME NEW p \in Partitions, NEW ok \in BOOLEAN, NEW k \in 0..Len(buffered[p]),
             Finish(p, k, ok)
      PROVE  OutcomeInv'
  <2>1. \A m : InBuffer(m)' \/ Pending(m)' <=> InBuffer(m) \/ Pending(m)
    BY <1>4, FinishPlaces
  <2>2. UNCHANGED <<produced, acked, pFile, pBroken>>
    BY <1>4 DEF Finish, producerVars
  <2>3. Outcomes(A, F)'
    BY <1>1, <2>1, <2>2 DEF Outcomes
  <2> QED
    BY <2>3 DEF OutcomeInv, Messages
<1>5. CASE Callback
  <2> SUFFICES ASSUME NEW e, e = Head(callbacks).id, NEW ok, ok = Head(callbacks).ok
               PROVE  OutcomeInv'
    OBVIOUS
  <2>1. /\ \A m : InBuffer(m)' <=> InBuffer(m)
        /\ \A m : Pending(m) <=> Pending(m)' \/ m = e
        /\ ~Pending(e)' /\ Pending(e)
    BY <1>5, CallbackPlaces
  <2>2. /\ produced' = produced
        /\ IF ok THEN acked' = acked + 1 /\ WriteResult("acknowledged", e)
                 ELSE acked' = acked /\ WriteResult("failed", e)
    BY <1>5 DEF Callback
  <2>3. e \in 1..produced /\ ~InBuffer(e) /\ e \notin A \cup F
    <3>1. e \in 1..produced
      BY <2>1 DEF PlaceInv, PendingOnce, Pending
    <3>2. ~InBuffer(e)
      BY <2>1 DEF PlaceInv, PendingOnce
    <3> QED
      BY <1>1, <2>1, <3>1, <3>2 DEF Outcomes
  <2>4. e \in Messages
    BY <2>3, BoundsAreNat DEF PlaceInv, CoreType, Messages
  <2>5. CASE ok
    <3>1. Cardinality(A \cup {e}) = acked'
      BY <1>1, <2>2, <2>3, <2>5, FiniteMessages, FS_AddElement DEF Outcomes
    <3>2. ~pBroken' => ~pBroken /\ pFile' = [pFile EXCEPT !["acknowledged"] = @ \cup {e}]
      BY <2>2, <2>5 DEF WriteResult, PlaceInv, CoreType
    <3>3. ~pBroken' => pFile' = [attempted |-> 1..produced', acknowledged |-> A \cup {e}, failed |-> F]
      BY <1>1, <2>2, <3>2 DEF Outcomes
    <3>4. ASSUME NEW B, B = A \cup {e} PROVE Outcomes(B, F)'
      BY <1>1, <2>1, <2>2, <2>3, <3>1, <3>3, <3>4 DEF Outcomes
    <3> QED
      BY <2>4, <3>4 DEF OutcomeInv, Messages
  <2>6. CASE ~ok
    <3>1. ~pBroken' => ~pBroken /\ pFile' = [pFile EXCEPT !["failed"] = @ \cup {e}]
      BY <2>2, <2>6 DEF WriteResult, PlaceInv, CoreType
    <3>2. ~pBroken' => pFile' = [attempted |-> 1..produced', acknowledged |-> A, failed |-> F \cup {e}]
      BY <1>1, <2>2, <3>1 DEF Outcomes
    <3>3. ASSUME NEW B, B = F \cup {e} PROVE Outcomes(A, B)'
      BY <1>1, <2>1, <2>2, <2>3, <2>6, <3>2, <3>3 DEF Outcomes
    <3> QED
      BY <2>4, <3>3 DEF OutcomeInv, Messages
  <2> QED
    BY <2>5, <2>6
<1>6. CASE UNCHANGED <<produced, buffered, callbacks, acked, pFile, pBroken>>
  <2>1. \A m : (InBuffer(m)' <=> InBuffer(m)) /\ (Pending(m)' <=> Pending(m))
    BY <1>6 DEF InBuffer, Pending, Partitions
  <2>2. Outcomes(A, F)'
    BY <1>1, <1>6, <2>1 DEF Outcomes
  <2> QED
    BY <2>2 DEF OutcomeInv, Messages
<1> QED
  BY <1>3, <1>4, <1>5, <1>6, CoreSteps, AppendPlaces DEF coreVars

LEMMA OutcomeAlways == Spec => []OutcomeInv
<1>1. PlaceInv /\ OutcomeInv /\ [Next]_vars => OutcomeInv'
  BY OutcomeStep
<1> QED
  BY <1>1, OutcomeInit, PlaceAlways, PTL DEF Spec
-----------------------------------------------------------------------------
(***************************************************************************)
(* The other types                                                         *)
(***************************************************************************)
Offsets == 0..MaxMessages * MaxAppends
Trackers == [seen : SUBSET Messages, last : [Partitions -> [offset : Int, sequence : Nat]]]

ClientType ==
    /\ appends \in [Partitions -> 0..MaxAppends]
    /\ log \in [Partitions -> Seq(Messages)]

ConsumerType ==
    /\ pos \in [Partitions -> Offsets] /\ committed \in [Partitions -> Offsets]
    /\ next \in [Partitions -> Offsets] /\ end \in [Partitions -> Offsets]
    /\ pcC \in {"polling", "processing", "stopped"}
    /\ tracker \in Trackers
    /\ cFile \in Seq(Entry)
    /\ cBroken \in BOOLEAN
    /\ processed \in Nat
    /\ fetchErrors \in 0..MaxFetchErrors
    /\ rebalances \in 0..MaxRebalances

RunnerType ==
    /\ scenario \in Scenarios
    /\ pcP \in {"running", "flushing", "stopped"}
    /\ stopP \in BOOLEAN /\ stopC \in BOOLEAN /\ timedOut \in BOOLEAN /\ deadline \in BOOLEAN
    /\ phase \in {"starting", "measuring", "stopping producer", "draining",
                  "stopping consumer", "analysing", "analysed"}
    /\ verdict \in {"none", "passed", "failed", "error"}

\* What is fetched or committed is in the log.
FetchedIsLogged ==
    \A p \in Partitions :
        pos[p] <= Len(log[p]) /\ end[p] <= Len(log[p]) /\ committed[p] <= Len(log[p])

RestInv == ClientType /\ ConsumerType /\ RunnerType /\ FetchedIsLogged

LEMMA OffsetsType == MaxMessages * MaxAppends \in Nat /\ Offsets \subseteq Nat /\ 0 \in Offsets
<1>1. MaxMessages * MaxAppends \in Nat
  BY BoundsAreNat
<1> QED
  BY <1>1 DEF Offsets

\* What a step leaves alone keeps its type.
LEMMA StillClient ==
    ASSUME ClientType, UNCHANGED <<appends, log>>
    PROVE  ClientType'
BY DEF ClientType, Partitions, Messages

LEMMA StillConsumer ==
    ASSUME ConsumerType, UNCHANGED <<pos, committed, consumerVars, boundVars>>
    PROVE  ConsumerType'
<1>1. UNCHANGED <<pos, committed, next, end, pcC, tracker, cFile, cBroken, processed, fetchErrors, rebalances>>
  BY DEF consumerVars, boundVars
<1> QED
  BY <1>1 DEF ConsumerType, Partitions, Offsets, Trackers, Entry, Messages

LEMMA StillRunner ==
    ASSUME RunnerType, UNCHANGED <<scenario, pcP, runnerVars>>
    PROVE  RunnerType'
BY DEF RunnerType, runnerVars

LEMMA StillFetched ==
    ASSUME FetchedIsLogged, UNCHANGED <<pos, end, committed, log>>
    PROVE  FetchedIsLogged'
BY DEF FetchedIsLogged, Partitions

LEMMA StillRest ==
    ASSUME RestInv,
           UNCHANGED <<scenario, appends, log, pos, committed, consumerVars, boundVars, pcP, runnerVars>>
    PROVE  RestInv'
<1>1. UNCHANGED end
  BY DEF consumerVars
<1> QED
  BY <1>1, StillClient, StillConsumer, StillRunner, StillFetched DEF RestInv

\* The log of a partition only grows.
LEMMA LogGrows ==
    ASSUME PlaceInv, RestInv, NEW p \in Partitions, BrokerAppends(p)
    PROVE  /\ ClientType' /\ FetchedIsLogged'
           /\ \E k \in 0..Len(buffered[p]) :
                 /\ inflight' = [inflight EXCEPT ![p] = k]
                 /\ log'[p] = log[p] \o SubSeq(buffered[p], 1, k)
           /\ \A q \in Partitions : q # p => log'[q] = log[q]
<1>1. PICK k \in IF inflight[p] = 0 THEN 1..Len(buffered[p]) ELSE {inflight[p]} :
          /\ inflight' = [inflight EXCEPT ![p] = k]
          /\ log' = [log EXCEPT ![p] = @ \o SubSeq(buffered[p], 1, k)]
  BY DEF BrokerAppends
<1>2. k \in 0..Len(buffered[p]) /\ Len(buffered[p]) \in Nat /\ k \in Nat
  BY <1>1 DEF PlaceInv, CoreType, BatchFits
<1>3. /\ log'[p] = log[p] \o SubSeq(buffered[p], 1, k)
      /\ \A q \in Partitions : q # p => log'[q] = log[q]
  BY <1>1 DEF RestInv, ClientType
<1>4. /\ SubSeq(buffered[p], 1, k) \in Seq(Messages) /\ Len(SubSeq(buffered[p], 1, k)) = k
      /\ log[p] \in Seq(Messages)
  BY <1>2, Cut DEF PlaceInv, CoreType, RestInv, ClientType
<1>5. /\ log'[p] \in Seq(Messages)
      /\ Len(log'[p]) = Len(log[p]) + k
  <2> SUFFICES ASSUME NEW s, s = log[p], NEW t, t = SubSeq(buffered[p], 1, k)
               PROVE  s \o t \in Seq(Messages) /\ Len(s \o t) = Len(s) + k
    BY <1>3
  <2>1. s \in Seq(Messages) /\ t \in Seq(Messages) /\ Len(t) = k
    BY <1>4
  <2>2. s \o t \in Seq(Messages) /\ Len(s \o t) = Len(s) + Len(t)
    BY <2>1, Joined, Zenon
  <2> QED
    BY <2>1, <2>2
<1>6. Len(log[p]) \in Nat /\ Len(log'[p]) \in Nat /\ Len(log[p]) <= Len(log'[p])
  <2>1. Len(log[p]) \in Nat
    BY <1>4
  <2> QED
    BY <1>2, <1>5, <2>1
<1>7. log' \in [Partitions -> Seq(Messages)]
  BY <1>1, <1>3, <1>5 DEF RestInv, ClientType
<1>8. appends' \in [Partitions -> 0..MaxAppends]
  <2>1. appends[p] + 1 \in 0..MaxAppends
    BY TrafficAssumption DEF RestInv, ClientType, BrokerAppends
  <2> QED
    BY <2>1 DEF RestInv, ClientType, BrokerAppends
<1>9. UNCHANGED <<pos, end, committed>>
  BY DEF BrokerAppends, consumerVars
<1>10. pos[p] \in Nat /\ end[p] \in Nat /\ committed[p] \in Nat
  BY OffsetsType DEF RestInv, ConsumerType
<1>11. FetchedIsLogged'
  <2>1. pos[p] <= Len(log'[p]) /\ end[p] <= Len(log'[p]) /\ committed[p] <= Len(log'[p])
    <3>1. pos[p] <= Len(log[p]) /\ end[p] <= Len(log[p]) /\ committed[p] <= Len(log[p])
      BY DEF RestInv, FetchedIsLogged
    <3> QED
      BY <1>6, <1>10, <3>1
  <2>2. \A q \in Partitions : q # p =>
            pos[q] <= Len(log'[q]) /\ end[q] <= Len(log'[q]) /\ committed[q] <= Len(log'[q])
    BY <1>3 DEF RestInv, FetchedIsLogged
  <2>3. \A q \in Partitions :
            pos'[q] <= Len(log'[q]) /\ end'[q] <= Len(log'[q]) /\ committed'[q] <= Len(log'[q])
    BY <1>9, <2>1, <2>2
  <2> QED
    BY <2>3 DEF FetchedIsLogged, Partitions
<1> QED
  BY <1>1, <1>2, <1>3, <1>7, <1>8, <1>11 DEF ClientType, Partitions, Messages

LEMMA FinishRest ==
    ASSUME RestInv, NEW p \in Partitions, NEW ok \in BOOLEAN, NEW k \in 0..Len(buffered[p]),
           Finish(p, k, ok)
    PROVE  ClientType' /\ FetchedIsLogged'
BY BoundsAreNat
DEF RestInv, ClientType, FetchedIsLogged, Finish, consumerVars, Partitions, Messages

LEMMA FetchRange ==
    ASSUME RestInv, NEW e \in FetchEnds
    PROVE  /\ e \in [Partitions -> Offsets]
           /\ \A p \in Partitions : e[p] \in Nat /\ pos[p] \in Nat /\ pos[p] <= e[p] /\ e[p] <= Len(log[p])
<1>1. e \in [Partitions -> Offsets]
  BY DEF FetchEnds, Offsets
<1>2. \A p \in Partitions : e[p] \in pos[p]..Len(log[p]) /\ e[p] \in Nat /\ pos[p] \in Nat
  BY <1>1, OffsetsType DEF FetchEnds, RestInv, ConsumerType
<1>3. \A p \in Partitions : Len(log[p]) \in Nat
  BY DEF RestInv, ClientType
<1> QED
  BY <1>1, <1>2, <1>3

\* What the consumer processes is a message of the log.
LEMMA ProcessRead ==
    ASSUME RestInv, NEW p \in Partitions, Process(p)
    PROVE  /\ next[p] \in Nat /\ next[p] + 1 \in 1..Len(log[p])
           /\ next[p] + 1 \in Offsets
           /\ log[p][next[p] + 1] \in Messages
<1>1. next[p] \in Nat /\ end[p] \in Nat /\ end[p] \in Offsets /\ Len(log[p]) \in Nat
  <2>1. log[p] \in Seq(Messages)
    BY DEF RestInv, ClientType
  <2>2. next[p] \in Offsets /\ end[p] \in Offsets
    BY DEF RestInv, ConsumerType
  <2>3. next[p] \in Nat /\ end[p] \in Nat
    BY <2>2, OffsetsType
  <2> QED
    BY <2>1, <2>2, <2>3
<1>2. next[p] < end[p] /\ end[p] <= Len(log[p])
  BY DEF Process, RestInv, FetchedIsLogged
<1>3. next[p] + 1 \in 1..Len(log[p]) /\ next[p] + 1 <= end[p]
  BY <1>1, <1>2
<1>4. next[p] + 1 \in Offsets
  BY <1>1, <1>3, OffsetsType DEF Offsets
<1>5. log[p] \in Seq(Messages)
  BY DEF RestInv, ClientType
<1> QED
  BY <1>1, <1>3, <1>4, <1>5

LEMMA ObserveType ==
    ASSUME RestInv, NEW p \in Partitions, NEW o \in Nat, NEW m \in Messages
    PROVE  /\ Observed(tracker, p, o, m, SequenceOf(m)) \in Trackers
           /\ [id |-> m, flags |-> Observe(tracker, p, o, m, SequenceOf(m))] \in Entry
<1>1. SequenceOf(m) \in Nat
  BY SequenceType DEF Messages
<1>2. tracker \in Trackers
  BY DEF RestInv, ConsumerType
<1>3. [offset |-> o, sequence |-> SequenceOf(m)] \in [offset : Int, sequence : Nat]
  BY <1>1
<1>4. Observed(tracker, p, o, m, SequenceOf(m)) \in Trackers
  BY <1>2, <1>3 DEF Observed, Trackers
<1>5. Observe(tracker, p, o, m, SequenceOf(m)) \in
          [duplicate : BOOLEAN, regression : BOOLEAN, gap : BOOLEAN]
  BY DEF Observe
<1> QED
  BY <1>4, <1>5 DEF Entry

LEMMA ConsumerRest ==
    ASSUME RestInv, ConsumerStep \/ Running(PollFails \/ \E p \in Partitions : Rebalance(p))
    PROVE  RestInv'
<1>1. /\ UNCHANGED <<scenario, clientVars, log, pcP, runnerVars>>
      /\ ClientType' /\ RunnerType'
  <2>1. UNCHANGED <<scenario, clientVars, log, pcP, runnerVars>>
    BY DEF ConsumerStep, Running, PollDelivers, Process, Commit, ConsumerCancelled, PollFails,
           Rebalance, producerVars
  <2> QED
    BY <2>1, ZenonT(60) DEF RestInv, ClientType, RunnerType, clientVars, runnerVars, Partitions, Messages
<1>2. \A p \in Partitions : Len(log[p]) \in Nat /\ 0 <= Len(log[p])
  BY DEF RestInv, ClientType
<1> USE DEF ConsumerType, FetchedIsLogged, Partitions, Offsets, Trackers, Entry, Messages
<1>3. CASE PollDelivers
  <2>1. PICK e \in FetchEnds : /\ next' = pos
                              /\ end' = [p \in Partitions |-> IF e[p] > pos[p] THEN e[p] ELSE 0]
                              /\ pos' = e
    BY <1>3 DEF PollDelivers
  <2>2. /\ e \in [Partitions -> Offsets]
        /\ \A p \in Partitions : e[p] <= Len(log[p])
    BY <2>1, FetchRange
  <2>3. end' \in [Partitions -> Offsets] /\ \A p \in Partitions : end'[p] <= Len(log[p])
    BY <1>2, <2>1, <2>2, OffsetsType
  <2>4. ConsumerType'
    BY <1>3, <2>1, <2>2, <2>3 DEF RestInv, PollDelivers, boundVars
  <2>5. FetchedIsLogged'
    BY <1>1, <1>3, <2>1, <2>2, <2>3 DEF RestInv, PollDelivers
  <2> QED
    BY <1>1, <2>4, <2>5 DEF RestInv
<1>4. CASE PollFails
  <2>1. /\ pos' \in [Partitions -> Offsets]
        /\ \A p \in Partitions : pos'[p] <= Len(log[p])
    BY <1>4, FetchRange DEF PollFails
  <2>2. fetchErrors' \in 0..MaxFetchErrors
    BY <1>4, BoundsAreNat DEF PollFails, RestInv
  <2>3. ConsumerType'
    BY <1>4, <2>1, <2>2 DEF RestInv, PollFails, consumerVars
  <2>4. FetchedIsLogged'
    BY <1>1, <1>4, <2>1 DEF RestInv, PollFails, consumerVars
  <2> QED
    BY <1>1, <2>3, <2>4 DEF RestInv
<1>5. ASSUME NEW p \in Partitions, Process(p) PROVE RestInv'
  <2> SUFFICES ASSUME NEW o, o = next[p], NEW m, m = log[p][o + 1] PROVE RestInv'
    OBVIOUS
  <2>1. o \in Nat /\ o + 1 \in Offsets /\ m \in Messages
    BY <1>5, ProcessRead
  <2>2. /\ next' = [next EXCEPT ![p] = o + 1]
        /\ tracker' = Observed(tracker, p, o, m, SequenceOf(m))
        /\ processed' = processed + 1
        /\ UNCHANGED <<pos, committed, end, pcC, fetchErrors, rebalances>>
    BY <1>5 DEF Process, boundVars
  <2>3. cFile' \in Seq(Entry) /\ cBroken' \in BOOLEAN
    <3>1. cFile \in Seq(Entry) /\ cBroken \in BOOLEAN
      BY DEF RestInv
    <3>2. [id |-> m, flags |-> Observe(tracker, p, o, m, SequenceOf(m))] \in Entry
      BY <2>1, ObserveType
    <3>3. \/ cFile' = Append(cFile, [id |-> m, flags |-> Observe(tracker, p, o, m, SequenceOf(m))])
             /\ cBroken' = cBroken
          \/ cFile' = cFile /\ cBroken' = TRUE
      BY <1>5 DEF Process
    <3> HIDE DEF Entry
    <3> QED
      BY <3>1, <3>2, <3>3, Appended, ZenonT(60)
  <2>4. tracker' \in Trackers
    BY <2>1, <2>2, ObserveType
  <2>5. next' \in [Partitions -> Offsets] /\ processed' \in Nat
    BY <2>1, <2>2 DEF RestInv
  <2>6. ConsumerType'
    BY <2>2, <2>3, <2>4, <2>5 DEF RestInv
  <2>7. FetchedIsLogged'
    BY <1>1, <2>2 DEF RestInv
  <2> QED
    BY <1>1, <2>6, <2>7 DEF RestInv
<1>6. CASE Commit
  <2>1. committed' \in [Partitions -> Offsets]
    BY <1>6 DEF Commit, RestInv
  <2>2. ConsumerType'
    BY <1>6, <2>1 DEF Commit, RestInv, boundVars
  <2>3. FetchedIsLogged'
    BY <1>1, <1>6 DEF Commit, RestInv
  <2> QED
    BY <1>1, <2>2, <2>3 DEF RestInv
<1>7. CASE ConsumerCancelled
  <2>1. ConsumerType' /\ FetchedIsLogged'
    BY <1>1, <1>7 DEF ConsumerCancelled, RestInv, boundVars
  <2> QED
    BY <1>1, <2>1 DEF RestInv
<1>8. ASSUME NEW p \in Partitions, Rebalance(p) PROVE RestInv'
  <2>1. pos' = [pos EXCEPT ![p] = committed[p]] /\ rebalances' \in 0..MaxRebalances
    BY <1>8, BoundsAreNat DEF Rebalance, RestInv
  <2>2. UNCHANGED <<committed, fetchErrors, consumerVars>>
    BY <1>8 DEF Rebalance
  <2>3. ConsumerType'
    BY <2>1, <2>2 DEF RestInv, consumerVars
  <2>4. FetchedIsLogged'
    BY <1>1, <2>1, <2>2 DEF RestInv, consumerVars
  <2> QED
    BY <1>1, <2>3, <2>4 DEF RestInv
<1> QED
  BY <1>3, <1>4, <1>5, <1>6, <1>7, <1>8 DEF ConsumerStep, Running

LEMMA RunnerRest ==
    ASSUME RestInv,
           \/ RunnerStep \/ Running(ArtifactFails \/ ExperimentTimeout)
           \/ Running(ProducerCancelled \/ Flushed)
    PROVE  RestInv'
<1>1. UNCHANGED <<scenario, clientVars, log, pos, committed, consumerVars, boundVars>>
  BY DEF RunnerStep, Running, Available, Abort, StopProducer, ProducerDone, Drained, DrainDeadline,
         ConsumerDone, Analyse, ArtifactFails, ExperimentTimeout, ProducerCancelled, Flushed,
         systemVars, runnerVars
<1>2. ClientType' /\ ConsumerType' /\ FetchedIsLogged'
  BY <1>1, StillClient, StillConsumer, StillFetched DEF RestInv, clientVars, consumerVars
<1>3. RunnerType'
  <2>1. CASE Running(ProducerCancelled \/ Flushed)
    BY <2>1 DEF RestInv, RunnerType, Running, ProducerCancelled, Flushed, runnerVars
  <2>2. CASE RunnerStep
    BY <2>2 DEF RestInv, RunnerType, RunnerStep, Running, Available, Abort, StopProducer, ProducerDone,
                Drained, DrainDeadline, ConsumerDone, Analyse, systemVars, producerVars
  <2>3. CASE Running(ArtifactFails \/ ExperimentTimeout)
    BY <2>3 DEF RestInv, RunnerType, Running, ArtifactFails, ExperimentTimeout, systemVars, producerVars
  <2> QED
    BY <2>1, <2>2, <2>3
<1> QED
  BY <1>2, <1>3 DEF RestInv

LEMMA RestInit == Init => RestInv
<1> SUFFICES ASSUME Init PROVE RestInv
  OBVIOUS
<1>1. ClientType
  <2>1. <<>> \in Seq(Messages) /\ 0 \in 0..MaxAppends
    BY BoundsAreNat
  <2> QED
    BY <2>1 DEF Init, ClientType
<1>2. ConsumerType
  <2>1. tracker \in Trackers
    BY DEF Init, NewTracker, NoPosition, Trackers
  <2>2. cFile \in Seq(Entry)
    BY DEF Init
  <2>3. fetchErrors \in 0..MaxFetchErrors /\ rebalances \in 0..MaxRebalances
    BY BoundsAreNat DEF Init
  <2> QED
    BY <2>1, <2>2, <2>3, OffsetsType DEF Init, ConsumerType
<1>3. RunnerType
  BY DEF Init, RunnerType
<1>4. FetchedIsLogged
  <2>1. Len(<<>>) = 0
    OBVIOUS
  <2> QED
    BY <2>1 DEF Init, FetchedIsLogged
<1> QED
  BY <1>1, <1>2, <1>3, <1>4 DEF RestInv

LEMMA RestStep == PlaceInv /\ RestInv /\ [Next]_vars => RestInv'
<1> SUFFICES ASSUME PlaceInv, RestInv, [Next]_vars PROVE RestInv'
  OBVIOUS
<1>1. CASE Running(Produce \/ Callback)
  BY <1>1, StillRest DEF Running, Produce, Callback, clientVars
<1>2. ASSUME NEW p \in Partitions, NEW ok \in BOOLEAN, NEW k \in 0..Len(buffered[p]),
             Finish(p, k, ok), UNCHANGED scenario
      PROVE  RestInv'
  <2>1. ClientType' /\ FetchedIsLogged'
    BY <1>2, FinishRest
  <2>2. ConsumerType' /\ RunnerType'
    BY <1>2, StillConsumer, StillRunner DEF Finish, RestInv, producerVars
  <2> QED
    BY <2>1, <2>2 DEF RestInv
<1>3. ASSUME NEW p \in Partitions, Running(BrokerAppends(p))
      PROVE  RestInv'
  <2>1. ClientType' /\ FetchedIsLogged'
    BY <1>3, LogGrows DEF Running
  <2>2. ConsumerType' /\ RunnerType'
    BY <1>3, StillConsumer, StillRunner DEF Running, BrokerAppends, RestInv, producerVars
  <2> QED
    BY <2>1, <2>2 DEF RestInv
<1>4. CASE ConsumerStep \/ Running(PollFails \/ \E p \in Partitions : Rebalance(p))
  BY <1>4, ConsumerRest
<1>5. CASE \/ RunnerStep \/ Running(ArtifactFails \/ ExperimentTimeout)
           \/ Running(ProducerCancelled \/ Flushed)
  BY <1>5, RunnerRest
<1>6. CASE UNCHANGED vars
  BY <1>6, StillRest DEF vars, clientVars, producerVars
<1>7. ASSUME NEW p \in Partitions, ClientStep(p) PROVE RestInv'
  BY <1>2, <1>7, BatchFinishes DEF ClientStep, Running
<1> QED
  BY <1>1, <1>3, <1>4, <1>5, <1>6, <1>7 DEF Next, ProducerStep, Disturbance, Running

\* No buffer is longer than there are messages.
LEMMA BufferLength ==
    ASSUME PlaceInv, NEW p \in Partitions
    PROVE  Len(buffered[p]) \in 0..MaxMessages
<1> SUFFICES ASSUME NEW b, b = buffered[p], NEW l, l = Len(b) PROVE l \in 0..MaxMessages
  OBVIOUS
<1>1. b \in Seq(Messages) /\ l \in Nat
  BY DEF PlaceInv, CoreType
<1>2. b \in [1..l -> Messages]
  BY <1>1
<1>3. b \in Injection(1..l, Messages)
  <2>1. \A i, j \in 1..l : b[i] = b[j] => i = j
    BY DEF PlaceInv, BufferedOnce
  <2> QED
    BY <1>2, <2>1 DEF Injection, IsInjective
<1>4. Cardinality(1..l) <= MaxMessages
  BY <1>3, FiniteMessages, FS_Injection
<1>5. Cardinality(1..l) = l
  BY <1>1, FS_Interval
<1> QED
  BY <1>1, <1>4, <1>5, BoundsAreNat

LEMMA TypeImplied == PlaceInv /\ OutcomeInv /\ RestInv => TypeOK
<1> SUFFICES ASSUME PlaceInv, OutcomeInv, RestInv PROVE TypeOK
  OBVIOUS
<1>1. inflight \in [Partitions -> 0..MaxMessages]
  <2>1. \A p \in Partitions : Len(buffered[p]) \in 0..MaxMessages /\ inflight[p] \in Nat
                             /\ inflight[p] <= Len(buffered[p])
    BY BufferLength DEF PlaceInv, CoreType, BatchFits
  <2>2. \A p \in Partitions : inflight[p] \in 0..MaxMessages
    BY <2>1, BoundsAreNat
  <2> QED
    BY <2>2 DEF PlaceInv, CoreType
<1>2. acked \in 0..MaxMessages
  BY FiniteMessages DEF OutcomeInv, Outcomes
<1>3. {pos, committed, next, end} \subseteq [Partitions -> 0..MaxMessages * MaxAppends]
  BY DEF RestInv, ConsumerType, Offsets
<1>4. tracker.seen \subseteq Messages
  BY DEF RestInv, ConsumerType, Trackers
<1>5. {pBroken, cBroken, stopP, stopC, timedOut, deadline} \subseteq BOOLEAN
  BY DEF PlaceInv, CoreType, RestInv, ConsumerType, RunnerType
<1> QED
  BY <1>1, <1>2, <1>3, <1>4, <1>5
  DEF TypeOK, PlaceInv, CoreType, RestInv, ClientType, ConsumerType, RunnerType

LEMMA RestAlways == Spec => []RestInv
BY RestInit, RestStep, PlaceAlways, PTL DEF Spec

\* Every variable keeps its type, for any number of messages, partitions and
\* retries; in particular no more is acknowledged than was attempted and nothing
\* is fetched that is not in the log (producer.go, consumer.go, runner.go).
THEOREM TypeCorrect == Spec => []TypeOK
BY TypeImplied, PlaceAlways, OutcomeAlways, RestAlways, PTL
-----------------------------------------------------------------------------
(***************************************************************************)
(* What the runner's phases and the verdict stand for                      *)
(***************************************************************************)
\* A producer that stopped has nothing on its way any more.
StoppedIsFlushed ==
    pcP = "stopped" => callbacks = <<>> /\ \A p \in Partitions : buffered[p] = <<>>

\* The runner drains and analyses only after the producer stopped, and only
\* a run in which both applications have worked.
PhasesInOrder ==
    /\ phase \in {"draining", "stopping consumer", "analysing", "analysed"} => pcP = "stopped"
    /\ phase # "starting" => acked > 0 /\ processed > 0

\* A file no write failed has an entry for each record that was processed.
EntriesComplete == ~cBroken => Len(cFile) = processed

\* A verdict of the validation is about complete files.
VerdictIsValidation ==
    verdict \in {"passed", "failed"} =>
        /\ phase = "analysed" /\ ~pBroken /\ ~cBroken
        /\ verdict = "passed" <=> IF scenario = "baseline" THEN BaselineValid ELSE FaultValid

ControlInv == StoppedIsFlushed /\ PhasesInOrder /\ EntriesComplete /\ VerdictIsValidation

LEMMA SameVerdict ==
    ASSUME VerdictIsValidation, UNCHANGED <<verdict, phase, pBroken, cBroken, scenario, pFile, cFile>>
    PROVE  VerdictIsValidation'
<1>1. (BaselineValid' <=> BaselineValid) /\ (FaultValid' <=> FaultValid)
  BY DEF BaselineValid, FaultValid, Flagged, Missing, ConsumedIds
<1> QED
  BY <1>1 DEF VerdictIsValidation

LEMMA ControlInit == Init => ControlInv
BY DEF Init, ControlInv, StoppedIsFlushed, PhasesInOrder, EntriesComplete, VerdictIsValidation

\* Before the verdict nothing has to be shown of it.
LEMMA NoVerdict == verdict' \in {"none", "error"} => VerdictIsValidation'
BY DEF VerdictIsValidation

LEMMA ControlStep ==
    ASSUME PlaceInv, RestInv, ControlInv, [Next]_vars
    PROVE  ControlInv'
<1> USE DEF StoppedIsFlushed, PhasesInOrder, EntriesComplete
<1>1. StoppedIsFlushed /\ PhasesInOrder /\ EntriesComplete /\ VerdictIsValidation
  BY DEF ControlInv
<1>2. CASE Running(Produce)
  BY <1>1, <1>2, NoVerdict DEF ControlInv, Running, Produce, consumerVars, runnerVars
<1>3. CASE Running(Callback)
  <2>1. acked' = acked \/ acked' = acked + 1
    BY <1>3 DEF Running, Callback
  <2>2. acked \in Nat
    BY DEF PlaceInv, CoreType
  <2>3. /\ callbacks # <<>> /\ verdict' = "none"
        /\ UNCHANGED <<pcP, phase, processed, cBroken, cFile>>
    BY <1>3 DEF Running, Callback, consumerVars, runnerVars
  <2>4. StoppedIsFlushed'
    BY <1>1, <2>3
  <2>5. PhasesInOrder'
    <3>1. acked > 0 => acked' > 0
      BY <2>1, <2>2
    <3> QED
      BY <1>1, <2>3, <3>1
  <2>6. EntriesComplete' /\ VerdictIsValidation'
    BY <1>1, <2>3, NoVerdict
  <2> QED
    BY <2>4, <2>5, <2>6 DEF ControlInv
<1>4. ASSUME NEW p \in Partitions, NEW ok \in BOOLEAN, NEW k \in 0..Len(buffered[p]),
             Finish(p, k, ok), verdict = "none"
      PROVE  ControlInv'
  <2>1. pcP # "stopped" \/ (k = 0 /\ buffered[p] = <<>>)
    <3>1. Len(<<>>) = 0
      OBVIOUS
    <3>2. ASSUME pcP = "stopped" PROVE Len(buffered[p]) = 0 /\ buffered[p] = <<>>
      BY <1>1, <3>1, <3>2
    <3> QED
      BY <3>2
  <2>2. UNCHANGED <<pcP, phase, acked, processed, cBroken, cFile, verdict>>
    BY <1>4 DEF Finish, producerVars, consumerVars, runnerVars
  <2>3. pcP = "stopped" => callbacks' = <<>> /\ \A q \in Partitions : buffered'[q] = <<>>
    <3> SUFFICES ASSUME pcP = "stopped"
                 PROVE  callbacks' = <<>> /\ \A q \in Partitions : buffered'[q] = <<>>
      OBVIOUS
    <3>1. callbacks = <<>> /\ k = 0 /\ \A q \in Partitions : buffered[q] = <<>>
      BY <1>1, <2>1
    <3>2. [i \in 1..k |-> [id |-> buffered[p][i], ok |-> ok]] = <<>>
      BY <3>1
    <3>3. callbacks' = <<>> \o <<>>
      BY <1>4, <3>1, <3>2 DEF Finish
    <3>4. SubSeq(buffered[p], k + 1, Len(buffered[p])) = <<>>
      BY <3>1
    <3>5. buffered' = [buffered EXCEPT ![p] = <<>>]
      BY <1>4, <3>4 DEF Finish
    <3> QED
      BY <3>1, <3>3, <3>5 DEF PlaceInv, CoreType
  <2> QED
    BY <1>1, <1>4, <2>2, <2>3, NoVerdict DEF ControlInv, Partitions
<1>5. ASSUME NEW p \in Partitions, Running(BrokerAppends(p))
      PROVE  ControlInv'
  BY <1>1, <1>5, NoVerdict DEF ControlInv, Running, BrokerAppends, producerVars, consumerVars, runnerVars
<1>6. ASSUME NEW p \in Partitions, Running(Process(p))
      PROVE  ControlInv'
  <2>1. UNCHANGED <<pcP, phase, acked, buffered, callbacks, verdict>> /\ processed' = processed + 1
    BY <1>6 DEF Running, Process, producerVars, clientVars, runnerVars
  <2>2. processed \in Nat /\ cFile \in Seq(Entry)
    BY DEF RestInv, ConsumerType
  <2>3. ~cBroken' => ~cBroken /\ \E e : cFile' = Append(cFile, e)
    BY <1>6 DEF Running, Process
  <2>4. \A e : Len(Append(cFile, e)) = Len(cFile) + 1
    BY <2>2
  <2>5. EntriesComplete'
    BY <1>1, <2>1, <2>2, <2>3, <2>4
  <2>6. PhasesInOrder'
    <3>1. processed > 0 => processed' > 0
      BY <2>1, <2>2
    <3> QED
      BY <1>1, <2>1, <3>1
  <2>7. StoppedIsFlushed' /\ VerdictIsValidation'
    BY <1>1, <1>6, <2>1, NoVerdict DEF Running, Partitions
  <2> QED
    BY <2>5, <2>6, <2>7 DEF ControlInv
<1>7. CASE Running(PollDelivers \/ Commit \/ ConsumerCancelled \/ PollFails \/ \E p \in Partitions : Rebalance(p))
  <2>1. UNCHANGED <<pcP, phase, acked, processed, buffered, callbacks, cBroken, cFile, verdict>>
    BY <1>7 DEF Running, PollDelivers, Commit, ConsumerCancelled, PollFails, Rebalance,
                clientVars, producerVars, consumerVars, runnerVars
  <2> QED
    BY <1>1, <1>7, <2>1, NoVerdict DEF ControlInv, Running, Partitions
<1>8. CASE Running(ProducerCancelled \/ Flushed)
  BY <1>1, <1>8, NoVerdict DEF ControlInv, Running, ProducerCancelled, Flushed, clientVars, consumerVars,
                               runnerVars, Partitions
<1>9. CASE \/ Running(Available \/ Abort \/ StopProducer \/ ProducerDone \/ Drained
                     \/ DrainDeadline \/ ConsumerDone \/ ArtifactFails \/ ExperimentTimeout)
  <2>1. UNCHANGED <<pcP, acked, processed, buffered, callbacks, cBroken, cFile>>
    BY <1>9 DEF Running, Available, Abort, StopProducer, ProducerDone, Drained, DrainDeadline, ConsumerDone,
                ArtifactFails, ExperimentTimeout, systemVars, clientVars, producerVars, consumerVars
  <2>2. verdict' \in {"none", "error"}
    BY <1>9 DEF Running, Available, Abort, StopProducer, ProducerDone, Drained, DrainDeadline, ConsumerDone,
                ArtifactFails, ExperimentTimeout
  <2>3. PhasesInOrder'
    BY <1>1, <1>9, <2>1 DEF Running, Available, Abort, StopProducer, ProducerDone, Drained, DrainDeadline,
                            ConsumerDone, ArtifactFails, ExperimentTimeout
  <2> QED
    BY <1>1, <2>1, <2>2, <2>3, NoVerdict DEF ControlInv, Partitions
<1>10. CASE Running(Analyse)
  <2>1. /\ UNCHANGED <<scenario, pcP, acked, processed, buffered, callbacks, pBroken, pFile, cBroken, cFile>>
        /\ phase = "analysing" /\ phase' = "analysed"
        /\ verdict' = IF pBroken \/ cBroken THEN "error"
                      ELSE IF IF scenario = "baseline" THEN BaselineValid ELSE FaultValid
                           THEN "passed"
                           ELSE "failed"
    BY <1>10 DEF Running, Analyse, systemVars, clientVars, producerVars, consumerVars
  <2>2. (BaselineValid' <=> BaselineValid) /\ (FaultValid' <=> FaultValid)
    BY <2>1 DEF BaselineValid, FaultValid, Flagged, Missing, ConsumedIds
  <2>3. VerdictIsValidation'
    BY <2>1, <2>2 DEF VerdictIsValidation
  <2> QED
    BY <1>1, <2>1, <2>3 DEF ControlInv, Partitions
<1>11. CASE UNCHANGED vars
  BY <1>1, <1>11, SameVerdict
  DEF ControlInv, vars, clientVars, producerVars, consumerVars, runnerVars, Partitions
<1>12. ASSUME NEW p \in Partitions, ClientStep(p) PROVE ControlInv'
  BY <1>4, <1>12, BatchFinishes DEF ClientStep, Running
<1> QED
  BY <1>2, <1>3, <1>5, <1>6, <1>7, <1>8, <1>9, <1>10, <1>11, <1>12
  DEF Next, ProducerStep, ConsumerStep, RunnerStep, Disturbance, Running

LEMMA ControlAlways == Spec => []ControlInv
<1>1. PlaceInv /\ RestInv /\ ControlInv /\ [Next]_vars => ControlInv'
  BY ControlStep
<1> QED
  BY <1>1, ControlInit, PlaceAlways, RestAlways, PTL DEF Spec

\* The producer's file after the analysis of a run.
LEMMA FileAfterAnalysis ==
    ASSUME PlaceInv, OutcomeInv, ControlInv, verdict \in {"passed", "failed"}
    PROVE  \E A, F \in SUBSET Messages :
              /\ pFile = [attempted |-> 1..produced, acknowledged |-> A, failed |-> F]
              /\ A \cup F = 1..produced /\ A \cap F = {}
              /\ Cardinality(A) = acked
<1>1. PICK A \in SUBSET Messages, F \in SUBSET Messages : Outcomes(A, F)
  BY DEF OutcomeInv
<1>2. ~pBroken /\ phase = "analysed"
  BY DEF ControlInv, VerdictIsValidation
<1>3. callbacks = <<>> /\ \A p \in Partitions : buffered[p] = <<>>
  BY <1>2 DEF ControlInv, StoppedIsFlushed, PhasesInOrder
<1>4. \A m : ~InBuffer(m) /\ ~Pending(m)
  <2>1. Len(<<>>) = 0 /\ 1..0 = {}
    OBVIOUS
  <2> QED
    BY <1>3, <2>1 DEF InBuffer, Pending
<1> QED
  BY <1>1, <1>2, <1>4 DEF Outcomes

\* Whatever the cluster answers, and in whatever order, every attempt of a run
\* whose files are analysed has exactly one outcome in producer.jsonl
\* (producer.go, the delivery callback and Flush).
THEOREM OutcomesComplete == Spec => []CompleteOutcomes
<1>1. PlaceInv /\ OutcomeInv /\ ControlInv => CompleteOutcomes
  <2> SUFFICES ASSUME PlaceInv, OutcomeInv, ControlInv, verdict \in {"passed", "failed"}
               PROVE  /\ pFile.attempted = 1..produced
                      /\ pFile.attempted = pFile.acknowledged \cup pFile.failed
                      /\ pFile.acknowledged \cap pFile.failed = {}
                      /\ Cardinality(pFile.acknowledged) = acked
    BY DEF CompleteOutcomes
  <2>1. PICK A \in SUBSET Messages, F \in SUBSET Messages :
            /\ pFile = [attempted |-> 1..produced, acknowledged |-> A, failed |-> F]
            /\ A \cup F = 1..produced /\ A \cap F = {}
            /\ Cardinality(A) = acked
    BY FileAfterAnalysis
  <2>2. pFile.attempted = 1..produced /\ pFile.acknowledged = A /\ pFile.failed = F
    BY <2>1
  <2> QED
    BY <2>1, <2>2
<1> QED
  BY <1>1, PlaceAlways, OutcomeAlways, ControlAlways, PTL

\* The validation of a fault run that got as far as its analysis never fails:
\* the check that the applications are available, the flush and the closed
\* files imply what validateFaultSummary asks.
THEOREM FaultRunsValidate == Spec => []FaultValidationHolds
<1>1. PlaceInv /\ OutcomeInv /\ RestInv /\ ControlInv => FaultValidationHolds
  <2> SUFFICES ASSUME PlaceInv, OutcomeInv, RestInv, ControlInv, scenario = "fault", verdict = "failed"
               PROVE  FALSE
    BY DEF FaultValidationHolds
  <2>1. ~FaultValid /\ phase = "analysed" /\ ~cBroken
    BY DEF ControlInv, VerdictIsValidation
  <2>2. acked > 0 /\ processed > 0 /\ Len(cFile) = processed
    BY <2>1 DEF ControlInv, PhasesInOrder, EntriesComplete
  <2>3. PICK A \in SUBSET Messages, F \in SUBSET Messages :
            /\ pFile = [attempted |-> 1..produced, acknowledged |-> A, failed |-> F]
            /\ A \cup F = 1..produced /\ A \cap F = {}
            /\ Cardinality(A) = acked
    BY FileAfterAnalysis
  <2>4. Cardinality({}) = 0 /\ Len(<<>>) = 0
    BY FS_EmptySet
  <2>5. A # {} /\ 1..produced # {} /\ cFile # <<>>
    <3>1. A # {}
      <4> SUFFICES ASSUME A = {} PROVE FALSE
        OBVIOUS
      <4>1. acked = 0
        BY <2>3, <2>4
      <4> QED
        BY <2>2, <4>1
    <3>2. cFile # <<>>
      BY <2>2, <2>4
    <3> QED
      BY <2>3, <3>1, <3>2
  <2>6. IsFiniteSet(A) /\ IsFiniteSet(F) /\ Cardinality(A) \in Nat /\ Cardinality(F) \in Nat
    BY FiniteMessages, BoundsAreNat
  <2>7. Cardinality(A \cup F) = Cardinality(A) + Cardinality(F)
    <3>1. Cardinality(A \cup F) = Cardinality(A) + Cardinality(F) - Cardinality(A \cap F)
      BY <2>6, FS_Union
    <3>2. Cardinality(A \cap F) = 0
      BY <2>3, <2>4
    <3> QED
      BY <2>6, <3>1, <3>2
  <2>8. pFile.attempted = A \cup F /\ pFile.acknowledged = A /\ pFile.failed = F
    BY <2>3
  <2> QED
    BY <2>1, <2>3, <2>5, <2>7, <2>8 DEF FaultValid
<1> QED
  BY <1>1, PlaceAlways, OutcomeAlways, RestAlways, ControlAlways, PTL
-----------------------------------------------------------------------------
(***************************************************************************)
(* What was consumed                                                       *)
(***************************************************************************)
\* The log of a partition has generated messages of that partition.
LogIsProduced ==
    \A p \in Partitions : \A i \in 1..Len(log[p]) :
        log[p][i] \in 1..produced /\ PartitionOf(log[p][i]) = p

\* The tracker knows every consumed message, and an entry that is not flagged
\* as a duplicate is the first one of its message.
ConsumedIsKnown ==
    /\ \A k \in 1..Len(cFile) : cFile[k].id \in 1..produced /\ cFile[k].id \in tracker.seen
    /\ \A k \in 1..Len(cFile) : ~cFile[k].flags.duplicate =>
          \A j \in 1..k - 1 : cFile[j].id # cFile[k].id

LEMMA ProducedGrows ==
    ASSUME PlaceInv, [Next]_vars
    PROVE  produced \in Nat /\ produced' \in Nat /\ produced <= produced'
<1>1. produced \in Nat /\ produced' \in Nat
  BY PlaceStep DEF PlaceInv, CoreType
<1>2. produced' = produced \/ produced' = produced + 1
  BY CoreSteps DEF Produce, Callback, Finish, BrokerAppends, producerVars, coreVars
<1> QED
  BY <1>1, <1>2

LEMMA LogChange ==
    ASSUME PlaceInv, [Next]_vars
    PROVE  UNCHANGED log \/ \E p \in Partitions : Running(BrokerAppends(p))
<1>1. CASE ConsumerStep \/ RunnerStep \/ ProducerStep \/ UNCHANGED vars
  BY <1>1 DEF ConsumerStep, RunnerStep, ProducerStep, Running, PollDelivers, Process, Commit, ConsumerCancelled,
              Available, Abort, StopProducer, ProducerDone, Drained, DrainDeadline, ConsumerDone, Analyse,
              ProducerCancelled, Flushed, Callback, systemVars, vars
<1>2. ASSUME NEW p \in Partitions, ClientStep(p)
      PROVE  UNCHANGED log
  BY <1>2, BatchFinishes DEF ClientStep, Running, Finish
<1>3. CASE Running(Produce \/ PollFails \/ ArtifactFails \/ ExperimentTimeout \/ \E p \in Partitions : Rebalance(p))
  BY <1>3 DEF Running, Produce, PollFails, ArtifactFails, ExperimentTimeout, Rebalance, systemVars
<1> QED
  BY <1>1, <1>2, <1>3 DEF Next, Disturbance, Running

LEMMA ProducedParts ==
    ASSUME NEW s \in Seq(Messages), NEW t \in Seq(Messages), NEW l, l = s \o t, NEW c, NEW p,
           \A i \in 1..Len(s) : s[i] \in 1..c /\ PartitionOf(s[i]) = p,
           \A i \in 1..Len(t) : t[i] \in 1..c /\ PartitionOf(t[i]) = p
    PROVE  \A i \in 1..Len(l) : l[i] \in 1..c /\ PartitionOf(l[i]) = p
<1>1. /\ Len(l) = Len(s) + Len(t)
      /\ \A i \in 1..Len(s) : l[i] = s[i]
      /\ \A i \in 1..Len(t) : l[Len(s) + i] = t[i]
  BY Joined
<1>2. ASSUME NEW i \in 1..Len(l), i \notin 1..Len(s)
      PROVE  i - Len(s) \in 1..Len(t) /\ Len(s) + (i - Len(s)) = i
  BY <1>1, <1>2
<1>3. ASSUME NEW i \in 1..Len(l)
      PROVE  l[i] \in 1..c /\ PartitionOf(l[i]) = p
  <2>1. CASE i \in 1..Len(s)
    BY <1>1, <2>1
  <2>2. CASE i \notin 1..Len(s)
    <3> DEFINE j == i - Len(s)
    <3>1. j \in 1..Len(t) /\ Len(s) + j = i
      BY <1>2, <2>2
    <3> HIDE DEF j
    <3> QED
      BY <1>1, <3>1
  <2> QED
    BY <2>1, <2>2
<1> QED
  BY <1>3

LEMMA LogStep ==
    ASSUME PlaceInv, RestInv, LogIsProduced, [Next]_vars
    PROVE  LogIsProduced'
<1>1. produced \in Nat /\ produced' \in Nat /\ produced <= produced'
  BY ProducedGrows
<1>2. CASE UNCHANGED log
  BY <1>1, <1>2 DEF LogIsProduced, Partitions, PartitionOf
<1>3. ASSUME NEW p \in Partitions, Running(BrokerAppends(p))
      PROVE  LogIsProduced'
  <2>1. PICK k \in 0..Len(buffered[p]) : log'[p] = log[p] \o SubSeq(buffered[p], 1, k)
    BY <1>3, LogGrows DEF Running
  <2>2. \A q \in Partitions : q # p => log'[q] = log[q]
    BY <1>3, LogGrows DEF Running
  <2>3. /\ SubSeq(buffered[p], 1, k) \in Seq(Messages)
        /\ Len(SubSeq(buffered[p], 1, k)) = k
        /\ \A i \in 1..k : SubSeq(buffered[p], 1, k)[i] = buffered[p][i]
    BY Cut DEF PlaceInv, CoreType
  <2>4. log[p] \in Seq(Messages)
    BY DEF RestInv, ClientType
  <2>5. \A i \in 1..Len(log[p]) : log[p][i] \in 1..produced /\ PartitionOf(log[p][i]) = p
    BY DEF LogIsProduced
  <2>6. ASSUME NEW i \in 1..k
        PROVE  /\ SubSeq(buffered[p], 1, k)[i] \in 1..produced
               /\ PartitionOf(SubSeq(buffered[p], 1, k)[i]) = p
    <3>1. i \in 1..Len(buffered[p])
      BY DEF PlaceInv, CoreType
    <3> QED
      BY <2>3, <3>1 DEF PlaceInv, BufferedOnce
  <2>7. \A i \in 1..Len(log'[p]) : log'[p][i] \in 1..produced /\ PartitionOf(log'[p][i]) = p
    <3> SUFFICES ASSUME NEW l, l = log[p] \o SubSeq(buffered[p], 1, k)
                 PROVE  \A i \in 1..Len(l) : l[i] \in 1..produced /\ PartitionOf(l[i]) = p
      BY <2>1
    <3>1. \A i \in 1..Len(SubSeq(buffered[p], 1, k)) :
             /\ SubSeq(buffered[p], 1, k)[i] \in 1..produced
             /\ PartitionOf(SubSeq(buffered[p], 1, k)[i]) = p
      BY <2>3, <2>6
    <3> DEFINE s == log[p]
               t == SubSeq(buffered[p], 1, k)
    <3>2. /\ s \in Seq(Messages) /\ t \in Seq(Messages) /\ l = s \o t
          /\ \A i \in 1..Len(s) : s[i] \in 1..produced /\ PartitionOf(s[i]) = p
          /\ \A i \in 1..Len(t) : t[i] \in 1..produced /\ PartitionOf(t[i]) = p
      BY <2>3, <2>4, <2>5, <3>1, Zenon
    <3> HIDE DEF s, t
    <3> QED
      BY ONLY <3>2, ProducedParts
  <2>10. ASSUME NEW q \in Partitions, NEW i \in 1..Len(log'[q])
         PROVE  log'[q][i] \in 1..produced' /\ PartitionOf(log'[q][i]) = q
    <3>1. 1..produced \subseteq 1..produced'
      BY <1>1
    <3>2. CASE q = p
      BY <2>7, <3>1, <3>2
    <3>3. CASE q # p
      BY <2>2, <3>1, <3>3 DEF LogIsProduced
    <3> QED
      BY <3>2, <3>3
  <2> QED
    BY <2>10 DEF LogIsProduced, Partitions, PartitionOf
<1> QED
  BY <1>2, <1>3, LogChange

LEMMA ConsumptionChange ==
    ASSUME PlaceInv, [Next]_vars
    PROVE  UNCHANGED <<tracker, cFile, processed, cBroken>> \/ \E p \in Partitions : Running(Process(p))
<1>1. CASE Running(PollDelivers \/ Commit \/ ConsumerCancelled) \/ RunnerStep \/ ProducerStep \/ UNCHANGED vars
  BY <1>1 DEF RunnerStep, ProducerStep, Running, PollDelivers, Commit, ConsumerCancelled,
              Available, Abort, StopProducer, ProducerDone, Drained, DrainDeadline, ConsumerDone, Analyse,
              ProducerCancelled, Flushed, Callback, systemVars, consumerVars, vars
<1>2. ASSUME NEW p \in Partitions, ClientStep(p)
      PROVE  UNCHANGED <<tracker, cFile, processed, cBroken>>
  BY <1>2, BatchFinishes DEF ClientStep, Running, Finish, consumerVars
<1>3. CASE Running(\/ Produce \/ PollFails \/ ArtifactFails \/ ExperimentTimeout
                   \/ \E p \in Partitions : Rebalance(p) \/ BrokerAppends(p))
  BY <1>3 DEF Running, Produce, PollFails, ArtifactFails, ExperimentTimeout, Rebalance, BrokerAppends,
              systemVars, consumerVars
<1> QED
  BY <1>1, <1>2, <1>3 DEF Next, ConsumerStep, Disturbance, Running

LEMMA ConsumedStep ==
    ASSUME PlaceInv, RestInv, LogIsProduced, ConsumedIsKnown, [Next]_vars
    PROVE  ConsumedIsKnown'
<1>1. produced \in Nat /\ produced' \in Nat /\ produced <= produced'
  BY ProducedGrows
<1>2. CASE UNCHANGED <<tracker, cFile>>
  BY <1>1, <1>2 DEF ConsumedIsKnown
<1>3. ASSUME NEW p \in Partitions, Running(Process(p))
      PROVE  ConsumedIsKnown'
  <2> SUFFICES ASSUME NEW o, o = next[p], NEW m, m = log[p][o + 1], NEW n, n = Len(cFile),
                      NEW e, e = [id |-> m, flags |-> Observe(tracker, p, o, m, SequenceOf(m))]
               PROVE  ConsumedIsKnown'
    OBVIOUS
  <2>1. o \in Nat /\ m \in 1..produced
    BY <1>3, ProcessRead DEF LogIsProduced, Running
  <2>2. m \in Messages
    BY <1>3, ProcessRead DEF Running
  <2>3. /\ tracker' = Observed(tracker, p, o, m, SequenceOf(m))
        /\ cFile' = Append(cFile, e) \/ cFile' = cFile
    BY <1>3 DEF Running, Process
  <2>4. tracker'.seen = tracker.seen \cup {m}
    BY <2>3 DEF Observed
  <2>5. CASE cFile' = cFile
    BY <1>1, <2>4, <2>5 DEF ConsumedIsKnown
  <2>6. CASE cFile' = Append(cFile, e)
    <3>1. e \in Entry /\ cFile \in Seq(Entry) /\ n \in Nat
      BY <2>1, <2>2, ObserveType DEF RestInv, ConsumerType
    <3>2. /\ Len(cFile') = n + 1
          /\ \A i \in 1..n : cFile'[i] = cFile[i]
          /\ cFile'[n + 1] = e
      BY <2>6, <3>1, Appended
    <3>3. \A i \in 1..n + 1 : i \in 1..n \/ i = n + 1
      BY <3>1
    <3>4. e.id = m /\ (e.flags.duplicate <=> m \in tracker.seen)
      BY DEF Observe
    <3>5. \A i \in 1..n + 1 : cFile'[i].id \in 1..produced' /\ cFile'[i].id \in tracker'.seen
      BY <1>1, <2>1, <2>4, <3>2, <3>3, <3>4 DEF ConsumedIsKnown
    <3>6. ASSUME NEW i \in 1..n + 1, ~cFile'[i].flags.duplicate, NEW j \in 1..i - 1
          PROVE  cFile'[j].id # cFile'[i].id
      <4>1. CASE i \in 1..n
        <5>1. j \in 1..n
          BY <3>1, <4>1
        <5> QED
          BY <3>2, <3>6, <4>1, <5>1 DEF ConsumedIsKnown
      <4>2. CASE i = n + 1
        <5>1. j \in 1..n
          BY <3>1, <4>2
        <5>2. m \notin tracker.seen /\ cFile'[i].id = m
          BY <3>2, <3>4, <3>6, <4>2
        <5> QED
          BY <3>2, <5>1, <5>2 DEF ConsumedIsKnown
      <4> QED
        BY <3>3, <4>1, <4>2
    <3> QED
      BY <3>2, <3>5, <3>6 DEF ConsumedIsKnown
  <2> QED
    BY <2>3, <2>5, <2>6
<1> QED
  BY <1>2, <1>3, ConsumptionChange

LEMMA ConsumedAlways == Spec => [](LogIsProduced /\ ConsumedIsKnown)
<1>1. Init => LogIsProduced /\ ConsumedIsKnown
  <2>1. Len(<<>>) = 0 /\ 1..0 = {}
    OBVIOUS
  <2> QED
    BY <2>1 DEF Init, LogIsProduced, ConsumedIsKnown
<1>2. PlaceInv /\ RestInv /\ LogIsProduced /\ ConsumedIsKnown /\ [Next]_vars
      => LogIsProduced' /\ ConsumedIsKnown'
  BY LogStep, ConsumedStep
<1> QED
  BY <1>1, <1>2, PlaceAlways, RestAlways, PTL DEF Spec

\* Entries without a duplicate are no more than what was produced, and as many
\* exactly when they are all of it.
LEMMA EntriesCounted ==
    ASSUME PlaceInv, RestInv, ConsumedIsKnown, \A k \in 1..Len(cFile) : ~cFile[k].flags.duplicate
    PROVE  /\ Len(cFile) \in Nat /\ produced \in Nat /\ Len(cFile) <= produced
           /\ Len(cFile) = produced <=> ConsumedIds = 1..produced
<1> SUFFICES ASSUME NEW n, n = Len(cFile), NEW c, c = produced
             PROVE  n \in Nat /\ c \in Nat /\ n <= c /\ (n = c <=> ConsumedIds = 1..c)
  OBVIOUS
<1>1. cFile \in Seq(Entry) /\ n \in Nat /\ c \in Nat
  BY DEF RestInv, ConsumerType, PlaceInv, CoreType
<1>2. \A k \in 1..n : cFile[k].id \in 1..c
  BY DEF ConsumedIsKnown
<1> DEFINE f == [k \in 1..n |-> cFile[k].id]
<1>3. \A i, j \in 1..n : cFile[i].id = cFile[j].id => i = j
  <2>1. \A i, j \in 1..n : i < j => cFile[i].id # cFile[j].id
    <3> SUFFICES ASSUME NEW i \in 1..n, NEW j \in 1..n, i < j
                 PROVE  cFile[i].id # cFile[j].id
      OBVIOUS
    <3>1. i \in 1..j - 1
      BY <1>1
    <3> QED
      BY <3>1 DEF ConsumedIsKnown
  <2> QED
    BY <1>1, <2>1
<1>4. f \in Injection(1..n, 1..c)
  BY <1>2, <1>3 DEF Injection, IsInjective
<1>5. f \in Surjection(1..n, 1..c) <=> ConsumedIds = 1..c
  <2>1. f \in [1..n -> 1..c] /\ ConsumedIds = {f[k] : k \in 1..n}
    BY <1>2 DEF ConsumedIds
  <2> HIDE DEF f
  <2>2. {f[k] : k \in 1..n} \subseteq 1..c
    BY <2>1
  <2>3. f \in Surjection(1..n, 1..c) <=> \A y \in 1..c : \E k \in 1..n : f[k] = y
    BY <2>1 DEF Surjection
  <2> QED
    BY <2>1, <2>2, <2>3
<1>6. /\ IsFiniteSet(1..n) /\ Cardinality(1..n) = n
      /\ IsFiniteSet(1..c) /\ Cardinality(1..c) = c
  <2> HIDE DEF f
  <2>1. ASSUME NEW k \in Nat
        PROVE  IsFiniteSet(1..k) /\ Cardinality(1..k) = k
    <3>1. Cardinality(1..k) = IF 1 > k THEN 0 ELSE k - 1 + 1
      BY FS_Interval
    <3> QED
      BY <3>1, FS_Interval
  <2> QED
    BY <1>1, <2>1
<1>7. n <= c /\ (n = c <=> f \in Surjection(1..n, 1..c))
  <2> HIDE DEF f
  <2>1. /\ Cardinality(1..n) <= Cardinality(1..c)
        /\ Cardinality(1..n) = Cardinality(1..c) <=> f \in Surjection(1..n, 1..c)
    BY <1>4, <1>6, FS_Injection
  <2> QED
    BY <1>6, <2>1
<1> QED
  BY <1>1, <1>5, <1>7

\* A baseline that passed consumed every message it attempted exactly once,
\* whatever the cluster redelivered, dropped or retried (validateBaselineSummary
\* and the tracker).
THEOREM PassedBaselinesAreExactlyOnce == Spec => []PassedBaselineIsExactlyOnce
<1>1. PlaceInv /\ OutcomeInv /\ RestInv /\ ControlInv /\ LogIsProduced /\ ConsumedIsKnown
      => PassedBaselineIsExactlyOnce
  <2> SUFFICES ASSUME PlaceInv, OutcomeInv, RestInv, ControlInv, ConsumedIsKnown,
                      scenario = "baseline", verdict = "passed",
                      NEW n, n = Len(cFile), NEW c, c = produced
               PROVE  ConsumedIds = 1..c /\ n = c
    BY DEF PassedBaselineIsExactlyOnce
  <2>1. BaselineValid
    BY DEF ControlInv, VerdictIsValidation
  <2>2. PICK A \in SUBSET Messages, F \in SUBSET Messages :
            /\ pFile = [attempted |-> 1..produced, acknowledged |-> A, failed |-> F]
            /\ A \cup F = 1..produced
    BY FileAfterAnalysis
  <2>3. pFile.acknowledged = 1..c
    <3>1. pFile.acknowledged = A /\ pFile.failed = F
      BY <2>2
    <3>2. F = {}
      BY <2>1, <3>1 DEF BaselineValid
    <3> QED
      BY <2>2, <3>1, <3>2
  <2>4. \A k \in 1..n : cFile[k].id \in 1..c
    BY DEF ConsumedIsKnown
  <2>5. ConsumedIds = 1..c
    BY <2>1, <2>3, <2>4 DEF BaselineValid, Missing, ConsumedIds
  <2>6. \A k \in 1..n : ~cFile[k].flags.duplicate
    BY <2>1 DEF BaselineValid, Flagged
  <2> QED
    BY <2>5, <2>6, EntriesCounted
<1> QED
  BY <1>1, PlaceAlways, OutcomeAlways, RestAlways, ControlAlways, ConsumedAlways, PTL
-----------------------------------------------------------------------------
(***************************************************************************)
(* Delivery: what is acknowledged is in the log, and what is committed was *)
(* consumed                                                                *)
(***************************************************************************)
Has(l, m) == \E i \in 1..Len(l) : l[i] = m

\* The batch in flight, the records whose callback will report success and the
\* acknowledged messages of the file are in the log.
AckInv ==
    /\ \A p \in Partitions : \A i \in 1..inflight[p] : Has(log[p], buffered[p][i])
    /\ \A i \in 1..Len(callbacks) :
          callbacks[i].ok => Has(log[PartitionOf(callbacks[i].id)], callbacks[i].id)
    /\ \A m \in pFile.acknowledged : Has(log[PartitionOf(m)], m)

\* An acknowledged message is in the log of its partition.
AcknowledgedIsLogged == \A m \in pFile.acknowledged : Has(log[PartitionOf(m)], m)

LEMMA Element ==
    ASSUME NEW S, NEW s \in Seq(S), NEW i \in 1..Len(s)
    PROVE  s[i] \in S
OBVIOUS

LEMMA Extended ==
    ASSUME NEW S, NEW s \in Seq(S), NEW t \in Seq(S)
    PROVE  /\ Len(s \o t) \in Nat /\ Len(s) <= Len(s \o t)
           /\ \A i \in 1..Len(s) : (s \o t)[i] = s[i]
           /\ \A i \in 1..Len(t) : Has(s \o t, t[i])
<1> SUFFICES ASSUME NEW l, l = s \o t
             PROVE  /\ Len(l) \in Nat /\ Len(s) <= Len(l)
                    /\ \A i \in 1..Len(s) : l[i] = s[i]
                    /\ \A i \in 1..Len(t) : Has(l, t[i])
  OBVIOUS
<1>1. /\ Len(l) = Len(s) + Len(t) /\ Len(s) \in Nat /\ Len(t) \in Nat
      /\ \A i \in 1..Len(s) : l[i] = s[i]
      /\ \A i \in 1..Len(t) : l[Len(s) + i] = t[i]
  BY Joined
<1>2. \A i \in 1..Len(t) : Len(s) + i \in 1..Len(l)
  BY ONLY <1>1
<1> QED
  BY ONLY <1>1, <1>2 DEF Has

LEMMA LogPrefix ==
    ASSUME PlaceInv, RestInv, [Next]_vars, NEW p \in Partitions
    PROVE  /\ Len(log[p]) \in Nat /\ Len(log'[p]) \in Nat /\ Len(log[p]) <= Len(log'[p])
           /\ \A i \in 1..Len(log[p]) : log'[p][i] = log[p][i]
<1>0. log[p] \in Seq(Messages) /\ Len(log[p]) \in Nat
  BY DEF RestInv, ClientType
<1>1. CASE UNCHANGED log
  BY <1>0, <1>1
<1>2. ASSUME NEW q \in Partitions, Running(BrokerAppends(q))
      PROVE  /\ Len(log'[p]) \in Nat /\ Len(log[p]) <= Len(log'[p])
             /\ \A i \in 1..Len(log[p]) : log'[p][i] = log[p][i]
  <2>1. CASE q # p
    <3>1. log'[p] = log[p]
      BY <1>2, <2>1, LogGrows DEF Running
    <3> QED
      BY <1>0, <3>1
  <2>2. CASE q = p
    <3>1. PICK k \in 0..Len(buffered[p]) : log'[p] = log[p] \o SubSeq(buffered[p], 1, k)
      BY <1>2, <2>2, LogGrows DEF Running
    <3>2. SubSeq(buffered[p], 1, k) \in Seq(Messages)
      BY Cut DEF PlaceInv, CoreType
    <3> SUFFICES ASSUME NEW s, s = log[p], NEW t, t = SubSeq(buffered[p], 1, k), NEW l, l = log'[p]
                 PROVE  Len(l) \in Nat /\ Len(s) <= Len(l) /\ \A i \in 1..Len(s) : l[i] = s[i]
      BY Zenon
    <3>3. s \in Seq(Messages) /\ t \in Seq(Messages) /\ l = s \o t
      BY <1>0, <3>1, <3>2, Zenon
    <3> QED
      BY ONLY <3>3, Extended
  <2> QED
    BY <2>1, <2>2
<1> QED
  BY <1>0, <1>1, <1>2, LogChange

LEMMA StaysInLog ==
    ASSUME PlaceInv, RestInv, [Next]_vars, NEW p \in Partitions, NEW m, Has(log[p], m)
    PROVE  Has(log'[p], m)
<1>1. PICK i \in 1..Len(log[p]) : log[p][i] = m
  BY DEF Has
<1>2. i \in 1..Len(log'[p]) /\ log'[p][i] = m
  BY <1>1, LogPrefix
<1> QED
  BY <1>2 DEF Has

\* The parts of a step that matter to acknowledgements.
LEMMA AckSteps ==
    ASSUME PlaceInv, [Next]_vars
    PROVE  \/ Produce
           \/ Callback
           \/ \E p \in Partitions : Running(BrokerAppends(p))
           \/ \E p \in Partitions : \E k \in 0..Len(buffered[p]), ok \in BOOLEAN :
                 Finish(p, k, ok) /\ (ok => k = inflight[p])
           \/ UNCHANGED <<buffered, inflight, callbacks, pFile>>
<1>1. ASSUME NEW p \in Partitions, ClientStep(p)
      PROVE  \E k \in 0..Len(buffered[p]), ok \in BOOLEAN : Finish(p, k, ok) /\ (ok => k = inflight[p])
  <2>1. Len(buffered[p]) \in Nat /\ inflight[p] \in 0..Len(buffered[p])
    BY DEF PlaceInv, CoreType, BatchFits
  <2>2. CASE BatchAcknowledged(p)
    BY <2>1, <2>2 DEF BatchAcknowledged
  <2>3. CASE BatchFails(p)
    <3>1. PICK k \in IF inflight[p] = 0 THEN 1..Len(buffered[p]) ELSE {inflight[p]} :
              Finish(p, k, FALSE)
      BY <2>3 DEF BatchFails
    <3>2. k \in 0..Len(buffered[p])
      BY <2>1
    <3> QED
      BY <3>1, <3>2
  <2> QED
    BY <1>1, <2>2, <2>3 DEF ClientStep, Running
<1>2. CASE RunnerStep \/ ConsumerStep \/ Running(ProducerCancelled \/ Flushed)
  BY <1>2 DEF RunnerStep, ConsumerStep, Running, Available, Abort, StopProducer, ProducerDone, Drained,
              DrainDeadline, ConsumerDone, Analyse, PollDelivers, Process, Commit, ConsumerCancelled,
              ProducerCancelled, Flushed, systemVars, clientVars, producerVars
<1>3. CASE Running(PollFails \/ ArtifactFails \/ ExperimentTimeout \/ \E p \in Partitions : Rebalance(p))
  BY <1>3 DEF Running, PollFails, ArtifactFails, ExperimentTimeout, Rebalance, systemVars, clientVars,
              producerVars
<1>4. CASE UNCHANGED vars
  BY <1>4 DEF vars, clientVars, producerVars
<1> QED
  BY <1>1, <1>2, <1>3, <1>4 DEF Next, ProducerStep, Disturbance, Running

LEMMA AckStep ==
    ASSUME PlaceInv, RestInv, AckInv, [Next]_vars
    PROVE  AckInv'
<1>1. ASSUME NEW m \in Messages, Has(log[PartitionOf(m)], m) PROVE Has(log'[PartitionOf(m)], m)
  <2>1. PartitionOf(m) \in Partitions
    BY PartitionType DEF Messages
  <2>2. PICK q \in Partitions : q = PartitionOf(m)
    BY <2>1
  <2>3. Has(log'[q], m)
    BY <1>1, <2>2, StaysInLog
  <2> QED
    BY <2>2, <2>3 DEF PartitionOf
<1>2. /\ buffered \in [Partitions -> Seq(Messages)] /\ inflight \in [Partitions -> Nat]
      /\ callbacks \in Seq([id : Messages, ok : BOOLEAN])
      /\ pFile \in [{"attempted", "acknowledged", "failed"} -> SUBSET Messages]
      /\ \A p \in Partitions : inflight[p] <= Len(buffered[p]) /\ Len(buffered[p]) \in Nat
  BY DEF PlaceInv, CoreType, BatchFits
<1>3. ASSUME NEW i \in 1..Len(callbacks), callbacks[i].ok
      PROVE  Has(log'[PartitionOf(callbacks[i].id)], callbacks[i].id)
  <2>1. callbacks[i] \in [id : Messages, ok : BOOLEAN]
    BY <1>2, Element, Zenon
  <2> SUFFICES ASSUME NEW m, m = callbacks[i].id PROVE Has(log'[PartitionOf(m)], m)
    OBVIOUS
  <2>2. m \in Messages /\ Has(log[PartitionOf(m)], m)
    BY <1>3, <2>1 DEF AckInv
  <2> QED
    BY <1>1, <2>2
<1>4. ASSUME NEW m \in pFile.acknowledged
      PROVE  Has(log'[PartitionOf(m)], m)
  <2>1. m \in Messages
    BY <1>2
  <2> QED
    BY <1>1, <2>1 DEF AckInv
<1>5. ASSUME NEW p \in Partitions, NEW i \in 1..inflight[p]
      PROVE  Has(log'[p], buffered[p][i])
  BY StaysInLog DEF AckInv
<1>6. CASE Produce
  <2>1. PICK m \in Messages, q \in Partitions :
            /\ m = produced + 1 /\ q = PartitionOf(m)
            /\ buffered' = [buffered EXCEPT ![q] = Append(buffered[q], m)]
            /\ UNCHANGED <<inflight, callbacks>>
            /\ WriteResult("attempted", m)
    <3>1. produced + 1 \in Messages /\ produced + 1 \in Nat \ {0}
      BY <1>6, TrafficAssumption DEF Produce, PlaceInv, CoreType, Messages
    <3>2. PartitionOf(produced + 1) \in Partitions
      BY <3>1, PartitionType
    <3> QED
      BY <1>6, <3>1, <3>2 DEF Produce
  <2>2. pFile'.acknowledged = pFile.acknowledged
    BY <1>2, <2>1 DEF WriteResult
  <2>3. ASSUME NEW p \in Partitions, NEW i \in 1..inflight[p]
        PROVE  buffered'[p][i] = buffered[p][i]
    <3>1. i \in 1..Len(buffered[p]) /\ buffered[p] \in Seq(Messages)
      BY <1>2
    <3>2. CASE p = q
      <4>1. buffered'[p] = Append(buffered[p], m)
        BY <1>2, <2>1, <3>2
      <4> QED
        BY <2>1, <3>1, <4>1, Appended
    <3>3. CASE p # q
      BY <1>2, <2>1, <3>3
    <3> QED
      BY <3>2, <3>3
  <2> QED
    BY <1>3, <1>4, <1>5, <2>1, <2>2, <2>3 DEF AckInv, Partitions, PartitionOf
<1>7. CASE Callback
  <2> SUFFICES ASSUME NEW h, h = Head(callbacks), NEW c, c = Tail(callbacks)
               PROVE  AckInv'
    OBVIOUS
  <2>1. /\ callbacks # <<>> /\ callbacks' = c /\ UNCHANGED <<buffered, inflight>>
        /\ IF h.ok THEN WriteResult("acknowledged", h.id) ELSE WriteResult("failed", h.id)
    BY <1>7 DEF Callback, clientVars
  <2>2. /\ Len(callbacks) \in Nat \ {0} /\ h = callbacks[1]
        /\ Len(c) = Len(callbacks) - 1
        /\ \A i \in 1..Len(callbacks) - 1 : c[i] = callbacks[i + 1]
    BY <1>2, <2>1, Rest
  <2>3. ASSUME NEW i \in 1..Len(c), c[i].ok
        PROVE  Has(log'[PartitionOf(c[i].id)], c[i].id)
    <3>1. i + 1 \in 1..Len(callbacks) /\ c[i] = callbacks[i + 1]
      BY <2>2
    <3>2. PICK j \in 1..Len(callbacks) : j = i + 1
      BY <3>1
    <3> QED
      BY <1>3, <2>3, <3>1, <3>2
  <2>4. pFile'.acknowledged = pFile.acknowledged
        \/ (h.ok /\ pFile'.acknowledged = pFile.acknowledged \cup {h.id})
    BY <1>2, <2>1 DEF WriteResult
  <2>5. h.ok => Has(log'[PartitionOf(h.id)], h.id)
    BY <1>3, <2>2
  <2> QED
    BY <1>4, <1>5, <2>1, <2>3, <2>4, <2>5 DEF AckInv, Partitions, PartitionOf
<1>8. ASSUME NEW q \in Partitions, Running(BrokerAppends(q))
      PROVE  AckInv'
  <2>1. PICK k \in 0..Len(buffered[q]) : /\ inflight' = [inflight EXCEPT ![q] = k]
                                        /\ log'[q] = log[q] \o SubSeq(buffered[q], 1, k)
    BY <1>8, LogGrows DEF Running
  <2>2. UNCHANGED <<buffered, callbacks, pFile>>
    BY <1>8 DEF Running, BrokerAppends, producerVars
  <2>3. ASSUME NEW i \in 1..k
        PROVE  Has(log'[q], buffered[q][i])
    <3>1. log[q] \in Seq(Messages) /\ buffered[q] \in Seq(Messages)
      BY <1>2 DEF RestInv, ClientType
    <3>2. /\ SubSeq(buffered[q], 1, k) \in Seq(Messages)
          /\ Len(SubSeq(buffered[q], 1, k)) = k
          /\ SubSeq(buffered[q], 1, k)[i] = buffered[q][i]
      BY <3>1, Cut
    <3> SUFFICES ASSUME NEW s, s = log[q], NEW t, t = SubSeq(buffered[q], 1, k), NEW l, l = log'[q],
                        NEW m, m = buffered[q][i]
                 PROVE  Has(l, m)
      BY Zenon
    <3>3. s \in Seq(Messages) /\ t \in Seq(Messages) /\ l = s \o t /\ Len(t) = k /\ t[i] = m
      BY <2>1, <3>1, <3>2, Zenon
    <3> QED
      BY ONLY <3>3, i \in 1..k, Extended
  <2>4. ASSUME NEW p \in Partitions, NEW i \in 1..inflight'[p]
        PROVE  Has(log'[p], buffered[p][i])
    <3>1. CASE p = q
      <4>1. inflight'[p] = k
        BY <1>2, <2>1, <3>1
      <4> QED
        BY <2>3, <3>1, <4>1
    <3>2. CASE p # q
      <4>1. inflight'[p] = inflight[p]
        BY <1>2, <2>1, <3>2
      <4> QED
        BY <1>5, <4>1
    <3> QED
      BY <3>1, <3>2
  <2> QED
    BY <1>3, <1>4, <2>2, <2>4 DEF AckInv, Partitions, PartitionOf
<1>9. ASSUME NEW q \in Partitions, NEW k \in 0..Len(buffered[q]), NEW ok \in BOOLEAN,
             Finish(q, k, ok), ok => k = inflight[q]
      PROVE  AckInv'
  <2> SUFFICES ASSUME NEW b, b = buffered[q], NEW n, n = Len(callbacks),
                      NEW t, t = [i \in 1..k |-> [id |-> b[i], ok |-> ok]]
               PROVE  AckInv'
    OBVIOUS
  <2>1. /\ inflight' = [inflight EXCEPT ![q] = 0]
        /\ \A p \in Partitions : p # q => buffered'[p] = buffered[p]
        /\ callbacks' = callbacks \o t
        /\ UNCHANGED pFile
    BY <1>2, <1>9 DEF Finish, producerVars
  <2>2. /\ b \in Seq(Messages) /\ k \in Nat /\ n \in Nat /\ k <= Len(b) /\ Len(b) \in Nat
    BY <1>2
  <2>3. t \in Seq([id : Messages, ok : BOOLEAN]) /\ Len(t) = k
        /\ \A i \in 1..k : t[i].id = b[i] /\ t[i].ok = ok
    <3>1. \A i \in 1..k : b[i] \in Messages
      BY <2>2
    <3> QED
      BY <2>2, <3>1
  <2>4. /\ Len(callbacks') = n + k
        /\ \A i \in 1..n : callbacks'[i] = callbacks[i]
        /\ \A i \in 1..k : callbacks'[n + i] = t[i]
    BY <1>2, <2>1, <2>3, Joined, SMTT(60)
  <2>5. ASSUME NEW i \in 1..n + k, callbacks'[i].ok
        PROVE  Has(log'[PartitionOf(callbacks'[i].id)], callbacks'[i].id)
    <3>1. CASE i \in 1..n
      BY <1>3, <2>4, <2>5, <3>1
    <3>2. CASE i \notin 1..n
      <4>1. PICK j \in 1..k : n + j = i
        <5>1. i - n \in 1..k /\ n + (i - n) = i
          BY <2>2, <3>2
        <5> QED
          BY <5>1
      <4>2. callbacks'[i].id = b[j] /\ callbacks'[i].ok = ok
        BY <2>3, <2>4, <4>1
      <4>3. j \in 1..inflight[q]
        BY <1>9, <2>5, <4>2
      <4>4. PartitionOf(b[j]) = q
        BY <2>2 DEF PlaceInv, BufferedOnce
      <4>5. Has(log'[q], b[j])
        BY <1>5, <4>3
      <4>6. ASSUME NEW m, m = b[j] PROVE Has(log'[PartitionOf(m)], m)
        BY <4>4, <4>5, <4>6 DEF Has
      <4> QED
        BY <4>2, <4>6
    <3> QED
      BY <3>1, <3>2
  <2>6. ASSUME NEW p \in Partitions, NEW i \in 1..inflight'[p]
        PROVE  Has(log'[p], buffered'[p][i])
    <3>1. p # q
      <4>1. inflight'[q] = 0
        BY <1>2, <2>1
      <4> QED
        BY <4>1
    <3>2. inflight'[p] = inflight[p] /\ buffered'[p] = buffered[p]
      BY <1>2, <2>1, <3>1
    <3> QED
      BY <1>5, <3>2
  <2> QED
    BY <1>4, <2>1, <2>4, <2>5, <2>6 DEF AckInv, Partitions, PartitionOf
<1>10. CASE UNCHANGED <<buffered, inflight, callbacks, pFile>>
  BY <1>3, <1>4, <1>5, <1>10 DEF AckInv, Partitions, PartitionOf
<1> QED
  BY <1>6, <1>7, <1>8, <1>9, <1>10, AckSteps

LEMMA AckAlways == Spec => []AckInv
<1>1. Init => AckInv
  <2>1. Len(<<>>) = 0 /\ 1..0 = {}
    OBVIOUS
  <2> QED
    BY <2>1 DEF Init, AckInv
<1>2. PlaceInv /\ RestInv /\ AckInv /\ [Next]_vars => AckInv'
  BY AckStep
<1> QED
  BY <1>1, <1>2, PlaceAlways, RestAlways, PTL DEF Spec

\* Whatever is retried, an id is in producer.jsonl as acknowledged only when the
\* record is in the log of its partition (the delivery callback, producer.go).
THEOREM AcknowledgementsAreLogged == Spec => []AcknowledgedIsLogged
<1>1. AckInv => AcknowledgedIsLogged
  BY DEF AckInv, AcknowledgedIsLogged
<1> QED
  BY <1>1, AckAlways, PTL

\* The first n records of a log are among the messages S.
Covered(l, n, S) == \A i \in 1..n : l[i] \in S

\* Unless a poll reported an error, all before a committed offset was observed,
\* and all before the next offset to fetch as well, but for the polled batch.
ReadInv ==
    /\ \A p \in Partitions : next[p] <= Len(log[p])
    /\ fetchErrors = 0 => \A p \in Partitions :
          /\ Covered(log[p], committed[p], tracker.seen)
          /\ pcC # "processing" => Covered(log[p], pos[p], tracker.seen)
          /\ pcC = "processing" =>
                /\ Covered(log[p], next[p], tracker.seen)
                /\ Covered(log[p], pos[p], tracker.seen) \/ (end[p] > 0 /\ pos[p] = end[p])

\* Every observed message has its entry, unless a write failed.
SeenIsRecorded == ~cBroken => tracker.seen \subseteq ConsumedIds

\* The parts of a step that matter to fetching.
LEMMA ReadSteps ==
    ASSUME PlaceInv, [Next]_vars
    PROVE  \/ UNCHANGED log /\ (PollDelivers \/ PollFails \/ Commit)
           \/ UNCHANGED log /\ \E p \in Partitions : Process(p) \/ Rebalance(p)
           \/ UNCHANGED log /\ ConsumerCancelled
           \/ UNCHANGED <<pos, committed, next, end, pcC, tracker, fetchErrors>>
<1>1. ASSUME NEW p \in Partitions, ClientStep(p)
      PROVE  UNCHANGED <<pos, committed, next, end, pcC, tracker, fetchErrors>>
  BY <1>1, BatchFinishes DEF ClientStep, Running, Finish, consumerVars, boundVars
<1>2. CASE RunnerStep \/ ProducerStep \/ UNCHANGED vars
  BY <1>2 DEF RunnerStep, ProducerStep, Running, Available, Abort, StopProducer, ProducerDone, Drained,
              DrainDeadline, ConsumerDone, Analyse, ProducerCancelled, Flushed, Callback, systemVars,
              consumerVars, boundVars, vars
<1>3. CASE Running(\/ Produce \/ ArtifactFails \/ ExperimentTimeout \/ \E p \in Partitions : BrokerAppends(p))
  BY <1>3 DEF Running, Produce, ArtifactFails, ExperimentTimeout, BrokerAppends, systemVars, consumerVars,
              boundVars
<1>4. CASE ConsumerStep \/ Running(PollFails \/ \E p \in Partitions : Rebalance(p))
  BY <1>4 DEF ConsumerStep, Running, PollDelivers, PollFails, Process, Commit, ConsumerCancelled, Rebalance
<1> QED
  BY <1>1, <1>2, <1>3, <1>4 DEF Next, Disturbance, Running

LEMMA SeenGrows ==
    ASSUME PlaceInv, [Next]_vars
    PROVE  tracker.seen \subseteq tracker'.seen
<1>1. ASSUME NEW p \in Partitions, Process(p) PROVE tracker.seen \subseteq tracker'.seen
  BY <1>1 DEF Process, Observed
<1> QED
  BY <1>1, ConsumptionChange DEF Running

LEMMA StaysCovered ==
    ASSUME PlaceInv, RestInv, [Next]_vars, NEW p \in Partitions, NEW n \in Nat, n <= Len(log[p]),
           Covered(log[p], n, tracker.seen)
    PROVE  Covered(log'[p], n, tracker'.seen)
<1>1. \A i \in 1..n : i \in 1..Len(log[p])
  BY LogPrefix
<1>2. \A i \in 1..n : log'[p][i] = log[p][i]
  BY <1>1, LogPrefix
<1> QED
  BY <1>2, SeenGrows DEF Covered

LEMMA ReadStep ==
    ASSUME PlaceInv, RestInv, ReadInv, [Next]_vars
    PROVE  ReadInv'
<1>1. /\ \A p \in Partitions : pos[p] \in Nat /\ committed[p] \in Nat /\ next[p] \in Nat /\ end[p] \in Nat
      /\ pos \in [Partitions -> Offsets] /\ next \in [Partitions -> Offsets]
      /\ fetchErrors \in Nat
  <2>1. /\ {pos, committed, next, end} \subseteq [Partitions -> Offsets]
        /\ fetchErrors \in 0..MaxFetchErrors
    BY DEF RestInv, ConsumerType
  <2> QED
    BY <2>1, OffsetsType, BoundsAreNat
<1>2. \A p \in Partitions : /\ Len(log[p]) \in Nat /\ Len(log'[p]) \in Nat /\ Len(log[p]) <= Len(log'[p])
                            /\ pos[p] <= Len(log[p]) /\ committed[p] <= Len(log[p])
                            /\ next[p] <= Len(log[p]) /\ end[p] <= Len(log[p])
  BY LogPrefix DEF RestInv, FetchedIsLogged, ReadInv
<1>3. ASSUME NEW p \in Partitions, NEW n \in {pos[p], committed[p], next[p], end[p]},
             Covered(log[p], n, tracker.seen)
      PROVE  Covered(log'[p], n, tracker'.seen)
  BY <1>1, <1>2, <1>3, StaysCovered
<1>4. CASE PollDelivers
  <2>1. PICK e \in FetchEnds : /\ next' = pos
                              /\ end' = [p \in Partitions |-> IF e[p] > pos[p] THEN e[p] ELSE 0]
                              /\ pos' = e
    BY <1>4 DEF PollDelivers
  <2>2. pcC = "polling" /\ pcC' = "processing" /\ UNCHANGED <<committed, fetchErrors>>
    BY <1>4 DEF PollDelivers, boundVars
  <2>3. \A p \in Partitions : e[p] \in Nat /\ pos[p] <= e[p] /\ end'[p] = IF e[p] > pos[p] THEN e[p] ELSE 0
    BY <2>1, FetchRange
  <2>4. ASSUME NEW p \in Partitions
        PROVE  next'[p] <= Len(log'[p])
    <3>1. next'[p] = pos[p] /\ pos[p] <= Len(log[p]) /\ Len(log[p]) <= Len(log'[p])
      BY <1>2, <2>1
    <3> QED
      BY <1>1, <1>2, <3>1
  <2>5. ASSUME NEW p \in Partitions, fetchErrors = 0
        PROVE  /\ Covered(log'[p], committed'[p], tracker'.seen)
               /\ Covered(log'[p], next'[p], tracker'.seen)
               /\ Covered(log'[p], pos'[p], tracker'.seen) \/ (end'[p] > 0 /\ pos'[p] = end'[p])
    <3>1. Covered(log[p], committed[p], tracker.seen) /\ Covered(log[p], pos[p], tracker.seen)
      BY <2>2, <2>5 DEF ReadInv
    <3>2. Covered(log'[p], committed[p], tracker'.seen) /\ Covered(log'[p], pos[p], tracker'.seen)
      BY <1>3, <3>1
    <3>3. e[p] = pos[p] \/ (e[p] > pos[p] /\ e[p] > 0)
      BY <1>1, <2>3
    <3> QED
      BY <2>1, <2>2, <2>3, <3>2, <3>3
  <2> QED
    BY <2>2, <2>4, <2>5 DEF ReadInv, Partitions
<1>5. CASE PollFails
  <2>1. fetchErrors' # 0 /\ UNCHANGED next
    BY <1>1, <1>5 DEF PollFails, consumerVars
  <2>2. \A p \in Partitions : next[p] <= Len(log'[p])
    BY <1>1, <1>2
  <2> QED
    BY <2>1, <2>2 DEF ReadInv, Partitions
<1>6. CASE Commit
  <2>1. /\ pcC = "processing" /\ pcC' = "polling" /\ UNCHANGED <<pos, next, end, fetchErrors>>
        /\ \A p \in Partitions : next[p] >= end[p] /\ committed'[p] \in {committed[p], end[p]}
    BY <1>1, <1>6 DEF Commit, boundVars
  <2>2. ASSUME NEW p \in Partitions, fetchErrors = 0
        PROVE  /\ Covered(log'[p], committed'[p], tracker'.seen)
               /\ Covered(log'[p], pos'[p], tracker'.seen)
    <3>1. /\ Covered(log[p], committed[p], tracker.seen)
          /\ Covered(log[p], next[p], tracker.seen)
          /\ Covered(log[p], pos[p], tracker.seen) \/ pos[p] = end[p]
      BY <2>1, <2>2 DEF ReadInv
    <3>2. \A i \in 1..end[p] : i \in 1..next[p]
      BY <1>1, <2>1
    <3>3. Covered(log[p], end[p], tracker.seen)
      BY <3>1, <3>2 DEF Covered
    <3> QED
      BY <1>3, <2>1, <3>1, <3>3
  <2>3. \A p \in Partitions : next'[p] <= Len(log'[p])
    BY <1>1, <1>2, <2>1
  <2> QED
    BY <2>1, <2>2, <2>3 DEF ReadInv, Partitions
<1>7. ASSUME NEW q \in Partitions, Process(q), UNCHANGED log PROVE ReadInv'
  <2>1. PICK o \in Nat, m \in Messages :
            /\ o = next[q] /\ o + 1 \in 1..Len(log[q]) /\ m = log[q][o + 1]
            /\ m \in tracker'.seen /\ next' = [next EXCEPT ![q] = o + 1]
    <3>1. next[q] \in Nat /\ next[q] + 1 \in 1..Len(log[q]) /\ log[q][next[q] + 1] \in Messages
      BY <1>7, ProcessRead
    <3>2. log[q][next[q] + 1] \in tracker'.seen /\ next' = [next EXCEPT ![q] = next[q] + 1]
      BY <1>7 DEF Process, Observed
    <3> QED
      BY <3>1, <3>2
  <2>2. pcC = "processing" /\ UNCHANGED <<pos, committed, end, pcC, fetchErrors>>
    BY <1>7 DEF Process, boundVars
  <2>3. next'[q] = o + 1 /\ \A p \in Partitions : p # q => next'[p] = next[p]
    BY <1>1, <2>1
  <2>4. ASSUME NEW p \in Partitions, fetchErrors = 0
        PROVE  /\ Covered(log'[p], committed'[p], tracker'.seen)
               /\ Covered(log'[p], next'[p], tracker'.seen)
               /\ Covered(log'[p], pos'[p], tracker'.seen) \/ (end'[p] > 0 /\ pos'[p] = end'[p])
    <3>1. /\ Covered(log[p], committed[p], tracker.seen)
          /\ Covered(log[p], next[p], tracker.seen)
          /\ Covered(log[p], pos[p], tracker.seen) \/ (end[p] > 0 /\ pos[p] = end[p])
      BY <2>2, <2>4 DEF ReadInv
    <3>2. /\ Covered(log'[p], committed[p], tracker'.seen)
          /\ Covered(log'[p], next[p], tracker'.seen)
          /\ Covered(log'[p], pos[p], tracker'.seen) \/ (end[p] > 0 /\ pos[p] = end[p])
      BY <1>3, <3>1
    <3>3. p = q => Covered(log'[p], o + 1, tracker'.seen)
      <4> SUFFICES ASSUME p = q, NEW i \in 1..o + 1 PROVE log'[p][i] \in tracker'.seen
        BY DEF Covered
      <4>1. i \in 1..o \/ i = o + 1
        BY <2>1
      <4> QED
        BY <1>7, <2>1, <3>2, <4>1 DEF Covered
    <3> QED
      BY <2>2, <2>3, <3>2, <3>3
  <2>5. \A p \in Partitions : next'[p] <= Len(log'[p])
    BY <1>2, <1>7, <2>1, <2>3
  <2> QED
    BY <2>2, <2>4, <2>5 DEF ReadInv, Partitions
<1>8. ASSUME NEW q \in Partitions, Rebalance(q) PROVE ReadInv'
  <2>1. /\ UNCHANGED <<committed, next, end, pcC, fetchErrors>>
        /\ \A p \in Partitions : pos'[p] \in {pos[p], committed[p]}
    BY <1>1, <1>8 DEF Rebalance, consumerVars
  <2>2. \A p \in Partitions : pos'[p] = pos[p] \/ pos'[p] = committed[p]
    BY <2>1
  <2>3. \A p \in Partitions : next[p] <= Len(log'[p])
    BY <1>1, <1>2
  <2> QED
    BY <1>3, <2>1, <2>2, <2>3, ZenonT(60) DEF ReadInv, Partitions
<1>9. CASE ConsumerCancelled
  <2>1. UNCHANGED <<pos, committed, next, end, fetchErrors>> /\ pcC = "polling" /\ pcC' = "stopped"
    BY <1>9 DEF ConsumerCancelled, boundVars
  <2>2. \A p \in Partitions : next[p] <= Len(log'[p])
    BY <1>1, <1>2
  <2> QED
    BY <1>3, <2>1, <2>2 DEF ReadInv, Partitions
<1>10. CASE UNCHANGED <<pos, committed, next, end, pcC, tracker, fetchErrors>>
  <2>1. \A p \in Partitions : next[p] <= Len(log'[p])
    BY <1>1, <1>2
  <2> QED
    BY <1>3, <1>10, <2>1, ZenonT(60) DEF ReadInv, Partitions
<1> QED
  BY <1>4, <1>5, <1>6, <1>7, <1>8, <1>9, <1>10, ReadSteps

LEMMA RecordedStep ==
    ASSUME PlaceInv, RestInv, SeenIsRecorded, [Next]_vars
    PROVE  SeenIsRecorded'
<1>1. CASE UNCHANGED <<tracker, cFile, processed, cBroken>>
  BY <1>1 DEF SeenIsRecorded, ConsumedIds
<1>2. ASSUME NEW p \in Partitions, Process(p) PROVE SeenIsRecorded'
  <2> SUFFICES ASSUME NEW o, o = next[p], NEW m, m = log[p][o + 1], NEW n, n = Len(cFile),
                      NEW e, e = [id |-> m, flags |-> Observe(tracker, p, o, m, SequenceOf(m))],
                      ~cBroken'
               PROVE  tracker'.seen \subseteq ConsumedIds'
    BY DEF SeenIsRecorded
  <2>1. /\ tracker' = Observed(tracker, p, o, m, SequenceOf(m))
        /\ cFile' = Append(cFile, e) /\ ~cBroken
    BY <1>2 DEF Process
  <2>2. tracker'.seen = tracker.seen \cup {m} /\ e.id = m
    BY <2>1 DEF Observed
  <2>3. e \in Entry /\ cFile \in Seq(Entry) /\ n \in Nat
    BY <1>2, ProcessRead, ObserveType DEF RestInv, ConsumerType
  <2>4. /\ Len(cFile') = n + 1
        /\ \A i \in 1..n : cFile'[i] = cFile[i]
        /\ cFile'[n + 1] = e
    BY <2>1, <2>3, Appended
  <2>5. n + 1 \in 1..n + 1 /\ \A i \in 1..n : i \in 1..n + 1
    BY <2>3
  <2>6. m \in ConsumedIds'
    BY <2>2, <2>4, <2>5 DEF ConsumedIds
  <2>7. ConsumedIds \subseteq ConsumedIds'
    BY <2>4, <2>5 DEF ConsumedIds
  <2> QED
    BY <2>1, <2>2, <2>6, <2>7 DEF SeenIsRecorded
<1> QED
  BY <1>1, <1>2, ConsumptionChange DEF Running

LEMMA ReadAlways == Spec => [](ReadInv /\ SeenIsRecorded)
<1>1. Init => ReadInv /\ SeenIsRecorded
  <2>1. Len(<<>>) = 0 /\ 1..0 = {} /\ 0 <= 0
    OBVIOUS
  <2> QED
    BY <2>1 DEF Init, ReadInv, Covered, SeenIsRecorded, NewTracker
<1>2. PlaceInv /\ RestInv /\ ReadInv /\ SeenIsRecorded /\ [Next]_vars => ReadInv' /\ SeenIsRecorded'
  BY ReadStep, RecordedStep
<1> QED
  BY <1>1, <1>2, PlaceAlways, RestAlways, PTL DEF Spec

\* Every record before a committed offset has its entry.
CommittedIsConsumed ==
    fetchErrors = 0 /\ ~cBroken =>
        \A p \in Partitions : \A i \in 1..committed[p] : log[p][i] \in ConsumedIds

\* A consumer that has fetched and processed all there is misses nothing.
CaughtUpMissesNothing ==
    fetchErrors = 0 /\ ~cBroken /\ pcC # "processing"
        /\ (\A p \in Partitions : pos[p] = Len(log[p])) => Missing = {}

\* Offsets are committed only behind what was consumed: as long as no poll
\* reported an error and no write failed, every record before a committed offset
\* is in consumer.jsonl, whatever was redelivered (Run and process, consumer.go).
THEOREM CommitsFollowConsumption == Spec => []CommittedIsConsumed
<1>1. ReadInv /\ SeenIsRecorded => CommittedIsConsumed
  BY DEF ReadInv, SeenIsRecorded, Covered, CommittedIsConsumed
<1> QED
  BY <1>1, ReadAlways, PTL

\* From end to end: once the consumer is through with the log, and no poll
\* reported an error and no write failed, no acknowledged message is missing,
\* whatever was retried, committed in vain or fetched again.
THEOREM NothingAcknowledgedIsLost == Spec => []CaughtUpMissesNothing
<1>1. PlaceInv /\ AckInv /\ ReadInv /\ SeenIsRecorded => CaughtUpMissesNothing
  <2> SUFFICES ASSUME PlaceInv, AckInv, ReadInv, SeenIsRecorded, fetchErrors = 0, ~cBroken,
                      pcC # "processing", \A p \in Partitions : pos[p] = Len(log[p]),
                      NEW m \in pFile.acknowledged
               PROVE  m \in ConsumedIds
    BY DEF CaughtUpMissesNothing, Missing
  <2>1. m \in Messages
    BY DEF PlaceInv, CoreType
  <2>2. PICK p \in Partitions : p = PartitionOf(m)
    BY <2>1, PartitionType DEF Messages
  <2>3. PICK i \in 1..Len(log[p]) : log[p][i] = m
    BY <2>2 DEF AckInv, Has
  <2>4. Covered(log[p], Len(log[p]), tracker.seen)
    BY DEF ReadInv
  <2> QED
    BY <2>3, <2>4 DEF Covered, SeenIsRecorded
<1> QED
  BY <1>1, PlaceAlways, AckAlways, ReadAlways, PTL
==============================================================================
