------------------------------- MODULE Traffic -------------------------------
(***************************************************************************)
(* The message traffic of one experiment run: the producer (with the Kafka *)
(* client's buffer and callbacks), the topic, the consumer with its        *)
(* tracker, and the runner that stops them in order, waits for the         *)
(* consumer to drain, reads the two JSONL files back and passes a verdict. *)
(* internal/producer, internal/consumer, internal/integrity and the        *)
(* traffic part of internal/experiment/{runner,fault}.go.                  *)
(*                                                                         *)
(* A message is its global sequence number.  The broker and the Kafka      *)
(* client are external: they are modelled by what the callers can see.     *)
(* The output files are taken as AppendLog promises: entries are taken in  *)
(* order until a write fails, and then Close fails.                        *)
(***************************************************************************)
EXTENDS Naturals, Integers, Sequences, FiniteSets, IntegrityTracker

CONSTANTS
    Scenarios,      \* which of "baseline" and "fault" a run may be of
    Idempotent,     \* producer.idempotent of the profile
    NPartitions,    \* partitions of the topic
    MaxMessages,    \* bound: messages the producer attempts
    MaxAppends,     \* bound: appends of one batch (first send and retries)
    MaxFetchErrors, \* bound: polls that report an error
    MaxRebalances,  \* bound: times a partition is fetched again from its commit
    WritesFail      \* whether a JSONL write may fail

ASSUME TrafficAssumption ==
    /\ Scenarios \subseteq {"baseline", "fault"}
    /\ Idempotent \in BOOLEAN
    /\ WritesFail \in BOOLEAN
    /\ NPartitions \in Nat \ {0}
    /\ MaxAppends \in Nat \ {0}
    /\ {MaxMessages, MaxFetchErrors, MaxRebalances} \subseteq Nat

VARIABLES
    scenario,    \* of the run
    produced,    \* generator: messages generated so far
    buffered,    \* client: records of a partition not yet finished, in order
    inflight,    \* client: size of the batch at the head of the buffer, 0 if none
    appends,     \* broker: how often that batch was appended
    callbacks,   \* client: finished records whose callback is yet to run
    log,         \* broker: the messages of each partition, by offset + 1
    acked,       \* producer: Acknowledged()
    pFile,       \* producer.jsonl: ids attempted, acknowledged, failed
    pBroken,     \* producer.jsonl: a write failed
    pcP,         \* producer: "running", "flushing" or "stopped"
    pos,         \* client: next offset to fetch
    committed,   \* group: committed offset
    next,        \* consumer: next offset of the polled batch to process
    end,         \* consumer: end of the polled batch, 0 if it has no records
    pcC,         \* consumer: "polling", "processing" or "stopped"
    tracker,     \* consumer: the integrity tracker
    cFile,       \* consumer.jsonl: the consumed entries, in order
    cBroken,     \* consumer.jsonl: a write failed
    processed,   \* consumer: Processed()
    fetchErrors, \* polls that reported an error
    rebalances,  \* fetch positions reset to a commit
    phase,       \* runner: where RunBaseline or runFault is
    stopP,       \* runner: the producer's context is cancelled
    stopC,       \* runner: the consumer's context is cancelled
    timedOut,    \* runner: the experiment timeout has expired
    deadline,    \* runner: the drain ended at its deadline
    verdict      \* runner: "none", "passed", "failed" (validation) or "error"

clientVars   == <<buffered, inflight, appends>>
producerVars == <<produced, acked, pFile, pBroken, pcP>>
consumerVars == <<next, end, pcC, tracker, cFile, cBroken, processed>>
boundVars    == <<fetchErrors, rebalances>>
runnerVars   == <<phase, stopP, stopC, timedOut, deadline, verdict>>
vars == <<scenario, clientVars, callbacks, log, producerVars, pos, committed,
          consumerVars, boundVars, runnerVars>>

Partitions == 0..(NPartitions - 1)
Messages == 1..MaxMessages

\* Generator.Next, called by the producer's loop alone.
PartitionOf(m) == (m - 1) % NPartitions
SequenceOf(m) == (m - 1) \div NPartitions + 1

RangeOf(s) == {s[k] : k \in 1..Len(s)}
ConsumedIds == {cFile[k].id : k \in 1..Len(cFile)}

Init ==
    /\ scenario \in Scenarios
    /\ produced = 0
    /\ buffered = [p \in Partitions |-> <<>>]
    /\ inflight = [p \in Partitions |-> 0]
    /\ appends = [p \in Partitions |-> 0]
    /\ callbacks = <<>>
    /\ log = [p \in Partitions |-> <<>>]
    /\ acked = 0
    /\ pFile = [attempted |-> {}, acknowledged |-> {}, failed |-> {}]
    /\ pBroken = FALSE
    /\ pcP = "running"
    /\ pos = [p \in Partitions |-> 0]
    /\ committed = [p \in Partitions |-> 0]
    /\ next = [p \in Partitions |-> 0]
    /\ end = [p \in Partitions |-> 0]
    /\ pcC = "polling"
    /\ tracker = NewTracker(Partitions)
    /\ cFile = <<>>
    /\ cBroken = FALSE
    /\ processed = 0
    /\ fetchErrors = 0
    /\ rebalances = 0
    /\ phase = "starting"
    /\ stopP = FALSE
    /\ stopC = FALSE
    /\ timedOut = FALSE
    /\ deadline = FALSE
    /\ verdict = "none"
-----------------------------------------------------------------------------
(***************************************************************************)
(* Producer                                                                *)
(***************************************************************************)
\* One write to producer.jsonl; its error is logged and otherwise ignored.
WriteResult(kind, m) ==
    \/ /\ ~pBroken
       /\ pFile' = [pFile EXCEPT ![kind] = @ \cup {m}]
       /\ UNCHANGED pBroken
    \/ /\ WritesFail \/ pBroken
       /\ pBroken' = TRUE
       /\ UNCHANGED pFile

\* A tick: generate, log the attempt, hand the record to the client.
Produce ==
    LET m == produced + 1
    IN  /\ pcP = "running"
        /\ produced < MaxMessages
        /\ produced' = m
        /\ WriteResult("attempted", m)
        /\ buffered' = [buffered EXCEPT ![PartitionOf(m)] = Append(@, m)]
        /\ UNCHANGED <<inflight, appends, callbacks, log, acked, pcP, pos, committed,
                       consumerVars, boundVars, runnerVars>>

ProducerCancelled ==
    /\ pcP = "running"
    /\ stopP
    /\ pcP' = "flushing"
    /\ UNCHANGED <<clientVars, callbacks, log, produced, acked, pFile, pBroken, pos,
                   committed, consumerVars, boundVars, runnerVars>>

\* Mutant: the loop returns without flushing.
FlushSkipped ==
    /\ pcP = "flushing"
    /\ pcP' = "stopped"
    /\ UNCHANGED <<clientVars, callbacks, log, produced, acked, pFile, pBroken, pos,
                   committed, consumerVars, boundVars, runnerVars>>

\* Flush returns when every record is finished and its callback has run.
Flushed ==
    /\ pcP = "flushing"
    /\ \A p \in Partitions : buffered[p] = <<>>
    /\ callbacks = <<>>
    /\ pcP' = "stopped"
    /\ UNCHANGED <<clientVars, callbacks, log, produced, acked, pFile, pBroken, pos,
                   committed, consumerVars, boundVars, runnerVars>>

\* The callback passed to client.Produce.
Callback ==
    /\ callbacks # <<>>
    /\ callbacks' = Tail(callbacks)
    /\ LET c == Head(callbacks)
       IN  IF c.ok
           THEN acked' = acked + 1 /\ WriteResult("acknowledged", c.id)
           ELSE UNCHANGED acked /\ WriteResult("failed", c.id)
    /\ UNCHANGED <<clientVars, log, produced, pcP, pos, committed, consumerVars,
                   boundVars, runnerVars>>
-----------------------------------------------------------------------------
(***************************************************************************)
(* The Kafka client's producing side and the broker (external)             *)
(***************************************************************************)
\* A prefix of the buffer is sent as one batch and appended; a lost answer
\* makes the client send it again, which an idempotent producer's broker drops.
BrokerAppends(p) ==
    /\ appends[p] < (IF Idempotent THEN 1 ELSE MaxAppends)
    /\ \E k \in IF inflight[p] = 0 THEN 1..Len(buffered[p]) ELSE {inflight[p]} :
          /\ inflight' = [inflight EXCEPT ![p] = k]
          /\ log' = [log EXCEPT ![p] = @ \o SubSeq(buffered[p], 1, k)]
    /\ appends' = [appends EXCEPT ![p] = @ + 1]
    /\ UNCHANGED <<buffered, callbacks, producerVars, pos, committed, consumerVars,
                   boundVars, runnerVars>>

\* The first k records of p's buffer are finished.
Finish(p, k, ok) ==
    /\ buffered' = [buffered EXCEPT ![p] = SubSeq(@, k + 1, Len(@))]
    /\ inflight' = [inflight EXCEPT ![p] = 0]
    /\ appends' = [appends EXCEPT ![p] = 0]
    /\ callbacks' = callbacks \o [i \in 1..k |-> [id |-> buffered[p][i], ok |-> ok]]
    /\ UNCHANGED <<log, producerVars, pos, committed, consumerVars, boundVars, runnerVars>>

BatchAcknowledged(p) ==
    /\ inflight[p] > 0
    /\ Finish(p, inflight[p], TRUE)

\* Retries are exhausted, whether or not the broker had appended the batch.
BatchFails(p) ==
    /\ buffered[p] # <<>>
    /\ \E k \in IF inflight[p] = 0 THEN 1..Len(buffered[p]) ELSE {inflight[p]} :
          Finish(p, k, FALSE)
-----------------------------------------------------------------------------
(***************************************************************************)
(* Consumer                                                                *)
(***************************************************************************)
\* Where the partitions are fetched to by a poll.
FetchEnds ==
    {e \in [Partitions -> 0..MaxMessages * MaxAppends] :
        \A p \in Partitions : e[p] \in pos[p]..Len(log[p])}

\* PollFetches returns records and no error.
PollDelivers ==
    /\ pcC = "polling"
    /\ ~stopC
    /\ \E e \in FetchEnds \ {pos} :
          /\ next' = pos
          /\ end' = [p \in Partitions |-> IF e[p] > pos[p] THEN e[p] ELSE 0]
          /\ pos' = e
    /\ pcC' = "processing"
    /\ UNCHANGED <<clientVars, callbacks, log, producerVars, committed, tracker, cFile,
                   cBroken, processed, boundVars, runnerVars>>

\* PollFetches reports an error for some partition: the loop continues, and the
\* records that came with it are never looked at.
PollFails ==
    /\ pcC = "polling"
    /\ ~stopC
    /\ fetchErrors < MaxFetchErrors
    /\ fetchErrors' = fetchErrors + 1
    /\ pos' \in FetchEnds
    /\ UNCHANGED <<clientVars, callbacks, log, producerVars, committed, consumerVars,
                   rebalances, runnerVars>>

\* process: observe, count, write; the write's error is logged and ignored.
Process(p) ==
    LET m == log[p][next[p] + 1]
    IN  /\ pcC = "processing"
        /\ next[p] < end[p]
        /\ next' = [next EXCEPT ![p] = @ + 1]
        /\ tracker' = Observed(tracker, p, next[p], m, SequenceOf(m))
        /\ processed' = processed + 1
        /\ \/ /\ ~cBroken
              /\ cFile' = Append(cFile,
                            [id |-> m, flags |-> Observe(tracker, p, next[p], m, SequenceOf(m))])
              /\ UNCHANGED cBroken
           \/ /\ WritesFail \/ cBroken
              /\ cBroken' = TRUE
              /\ UNCHANGED cFile
        /\ UNCHANGED <<clientVars, callbacks, log, producerVars, pos, committed, end, pcC,
                       boundVars, runnerVars>>

\* Mutant: the offset after the next one is committed.
CommitTooFar ==
    /\ pcC = "processing"
    /\ \A p \in Partitions : next[p] >= end[p]
    /\ committed' = [p \in Partitions |-> IF end[p] > 0 THEN end[p] + 1 ELSE committed[p]]
    /\ pcC' = "polling"
    /\ UNCHANGED <<clientVars, callbacks, log, producerVars, pos, next, end, tracker, cFile,
                   cBroken, processed, boundVars, runnerVars>>

\* CommitRecords for the whole batch; its error is logged and ignored.
Commit ==
    /\ pcC = "processing"
    /\ \A p \in Partitions : next[p] >= end[p]
    /\ committed' \in {committed, [p \in Partitions |-> IF end[p] > 0 THEN end[p] ELSE committed[p]]}
    /\ pcC' = "polling"
    /\ UNCHANGED <<clientVars, callbacks, log, producerVars, pos, next, end, tracker, cFile,
                   cBroken, processed, boundVars, runnerVars>>

\* The poll returns because the context was cancelled; a batch is dropped.
ConsumerCancelled ==
    /\ pcC = "polling"
    /\ stopC
    /\ pcC' = "stopped"
    /\ UNCHANGED <<clientVars, callbacks, log, producerVars, pos, committed, next, end, tracker,
                   cFile, cBroken, processed, boundVars, runnerVars>>

\* The group assigns a partition anew (external): fetching resumes at the commit.
Rebalance(p) ==
    /\ pcC # "stopped"
    /\ rebalances < MaxRebalances
    /\ pos[p] # committed[p]
    /\ rebalances' = rebalances + 1
    /\ pos' = [pos EXCEPT ![p] = committed[p]]
    /\ UNCHANGED <<clientVars, callbacks, log, producerVars, committed, consumerVars,
                   fetchErrors, runnerVars>>
-----------------------------------------------------------------------------
(***************************************************************************)
(* Runner                                                                  *)
(***************************************************************************)
systemVars == <<clientVars, callbacks, log, producerVars, pos, committed, consumerVars, boundVars>>

\* Mutant: the applications are not waited for.
AvailableAtOnce ==
    /\ phase = "starting"
    /\ phase' = "measuring"
    /\ UNCHANGED <<systemVars, stopP, stopC, timedOut, deadline, verdict>>

Available ==
    /\ phase = "starting"
    /\ acked > 0
    /\ processed > 0
    /\ phase' = "measuring"
    /\ UNCHANGED <<systemVars, stopP, stopC, timedOut, deadline, verdict>>

\* Not available in 30 s, a wait interrupted, a Kafka or Kubernetes error.
Abort ==
    /\ phase \in {"starting", "measuring"}
    /\ verdict' = "error"
    /\ UNCHANGED <<systemVars, phase, stopP, stopC, timedOut, deadline>>

\* The timeout of runCtx cancels producer and consumer.
ExperimentTimeout ==
    /\ ~timedOut
    /\ timedOut' = TRUE
    /\ stopP' = TRUE
    /\ stopC' = TRUE
    /\ UNCHANGED <<systemVars, phase, deadline, verdict>>

\* The phases are over (baseline) or the recovery was observed (fault); after a
\* timeout the baseline's wait returns an error, the fault's goes on.
StopProducer ==
    /\ phase = "measuring"
    /\ scenario = "baseline" => ~timedOut
    /\ stopP' = TRUE
    /\ phase' = "stopping producer"
    /\ UNCHANGED <<systemVars, stopC, timedOut, deadline, verdict>>

ProducerDone ==
    /\ phase = "stopping producer"
    /\ pcP = "stopped"
    /\ phase' = "draining"
    /\ UNCHANGED <<systemVars, stopP, stopC, timedOut, deadline, verdict>>

Drained ==
    /\ phase = "draining"
    /\ processed >= acked
    /\ stopC' = TRUE
    /\ phase' = "stopping consumer"
    /\ UNCHANGED <<systemVars, stopP, timedOut, deadline, verdict>>

\* Mutant: the drain loop has no deadline.
DrainForever == FALSE

\* 30 s have passed: the baseline goes on, the fault scenario fails.
DrainDeadline ==
    /\ phase = "draining"
    /\ processed < acked
    /\ IF scenario = "baseline" /\ ~timedOut
       THEN /\ stopC' = TRUE
            /\ phase' = "stopping consumer"
            /\ deadline' = TRUE
            /\ UNCHANGED verdict
       ELSE /\ verdict' = "error"
            /\ UNCHANGED <<stopC, phase, deadline>>
    /\ UNCHANGED <<systemVars, stopP, timedOut>>

ConsumerDone ==
    /\ phase = "stopping consumer"
    /\ pcC = "stopped"
    /\ phase' = "analysing"
    /\ UNCHANGED <<systemVars, stopP, stopC, timedOut, deadline, verdict>>

\* An entry of the timeline, or a file of the analysis, cannot be written.
ArtifactFails ==
    /\ WritesFail
    /\ \/ phase = "stopping producer" /\ pcP = "stopped"
       \/ phase = "stopping consumer" /\ pcC = "stopped"
       \/ phase = "analysing"
    /\ verdict' = "error"
    /\ UNCHANGED <<systemVars, phase, stopP, stopC, timedOut, deadline>>
-----------------------------------------------------------------------------
Missing == pFile.acknowledged \ ConsumedIds
Flagged(flag) == {k \in 1..Len(cFile) : cFile[k].flags[flag]}

\* Mutants: missing acknowledgements, or the order, are not validated.
BaselineValidIncomplete ==
    /\ pFile.acknowledged # {}
    /\ cFile # <<>>
    /\ pFile.failed = {}
    /\ Flagged("duplicate") = {}
    /\ Flagged("regression") = {}
    /\ Flagged("gap") = {}

BaselineValidUnordered ==
    /\ pFile.acknowledged # {}
    /\ cFile # <<>>
    /\ pFile.failed = {}
    /\ Flagged("duplicate") = {}
    /\ Missing = {}

BaselineValid ==
    /\ pFile.acknowledged # {}
    /\ cFile # <<>>
    /\ pFile.failed = {}
    /\ Flagged("duplicate") = {}
    /\ Missing = {}
    /\ Flagged("regression") = {}
    /\ Flagged("gap") = {}

FaultValid ==
    /\ pFile.attempted # {}
    /\ pFile.acknowledged # {}
    /\ cFile # <<>>
    /\ Cardinality(pFile.acknowledged) + Cardinality(pFile.failed) = Cardinality(pFile.attempted)

\* Close the files, summarize them, validate the summary.
Analyse ==
    /\ phase = "analysing"
    /\ phase' = "analysed"
    /\ verdict' = IF pBroken \/ cBroken THEN "error"
                  ELSE IF IF scenario = "baseline" THEN BaselineValid ELSE FaultValid
                       THEN "passed"
                       ELSE "failed"
    /\ UNCHANGED <<systemVars, stopP, stopC, timedOut, deadline>>
-----------------------------------------------------------------------------
(***************************************************************************)
(* The run is over with its verdict: what the components do after an       *)
(* error, while the deferred calls stop them, is left out.                 *)
(***************************************************************************)
Running(step) == verdict = "none" /\ step /\ UNCHANGED scenario

ProducerStep == Running(ProducerCancelled \/ Flushed \/ Callback)

ClientStep(p) == Running(BatchAcknowledged(p) \/ BatchFails(p))

ConsumerStep ==
    Running(PollDelivers \/ (\E p \in Partitions : Process(p)) \/ Commit \/ ConsumerCancelled)

RunnerStep ==
    Running(\/ Available \/ Abort \/ StopProducer \/ ProducerDone \/ Drained
            \/ DrainDeadline \/ ConsumerDone \/ Analyse)

Disturbance ==
    Running(\/ PollFails \/ ArtifactFails
            \/ \E p \in Partitions : BrokerAppends(p) \/ Rebalance(p)
            \/ ExperimentTimeout)

Next ==
    \/ Running(Produce)
    \/ ProducerStep
    \/ \E p \in Partitions : ClientStep(p)
    \/ ConsumerStep
    \/ RunnerStep
    \/ Disturbance

Spec == Init /\ [][Next]_vars

\* Goroutines and timers go on; the client finishes every record (it gives up
\* after its retries) and a fetch eventually returns what the log holds.
Fairness ==
    /\ WF_vars(ProducerStep)
    /\ \A p \in Partitions : WF_vars(ClientStep(p))
    /\ WF_vars(ConsumerStep)
    /\ WF_vars(RunnerStep)

FairSpec == Spec /\ Fairness
-----------------------------------------------------------------------------
Entry == [id : Messages,
          flags : [duplicate : BOOLEAN, regression : BOOLEAN, gap : BOOLEAN]]

TypeOK ==
    /\ scenario \in Scenarios
    /\ produced \in 0..MaxMessages
    /\ buffered \in [Partitions -> Seq(Messages)]
    /\ inflight \in [Partitions -> 0..MaxMessages]
    /\ appends \in [Partitions -> 0..MaxAppends]
    /\ callbacks \in Seq([id : Messages, ok : BOOLEAN])
    /\ log \in [Partitions -> Seq(Messages)]
    /\ acked \in 0..MaxMessages
    /\ pFile \in [{"attempted", "acknowledged", "failed"} -> SUBSET Messages]
    /\ {pBroken, cBroken, stopP, stopC, timedOut, deadline} \subseteq BOOLEAN
    /\ pcP \in {"running", "flushing", "stopped"}
    /\ {pos, committed, next, end} \subseteq [Partitions -> 0..MaxMessages * MaxAppends]
    /\ pcC \in {"polling", "processing", "stopped"}
    /\ tracker.seen \subseteq Messages
    /\ cFile \in Seq(Entry)
    /\ processed \in Nat
    /\ fetchErrors \in 0..MaxFetchErrors
    /\ rebalances \in 0..MaxRebalances
    /\ phase \in {"starting", "measuring", "stopping producer", "draining",
                  "stopping consumer", "analysing", "analysed"}
    /\ verdict \in {"none", "passed", "failed", "error"}

\* When the files are analysed without error every attempt has exactly one
\* outcome in producer.jsonl: no callback was lost, late or run twice.
CompleteOutcomes ==
    verdict \in {"passed", "failed"} =>
        /\ pFile.attempted = 1..produced
        /\ pFile.attempted = pFile.acknowledged \cup pFile.failed
        /\ pFile.acknowledged \cap pFile.failed = {}
        /\ Cardinality(pFile.acknowledged) = acked

\* A baseline that passed consumed every message it attempted exactly once,
\* whatever was redelivered, dropped or retried on the way.
PassedBaselineIsExactlyOnce ==
    scenario = "baseline" /\ verdict = "passed" =>
        /\ ConsumedIds = 1..produced
        /\ Len(cFile) = produced

\* ... and in the order of each partition, as long as the consumer never went
\* back to its last commit: retries that reorder the log are noticed.
PassedBaselineIsInOrder ==
    scenario = "baseline" /\ verdict = "passed" /\ rebalances = 0 =>
        \A i, j \in 1..Len(cFile) :
            i < j /\ PartitionOf(cFile[i].id) = PartitionOf(cFile[j].id) =>
                cFile[i].id < cFile[j].id

\* With an idempotent producer a gap is reported only when the message before
\* was not yet consumed, also when a redelivery goes back behind it.
GapsAreReal ==
    Idempotent => \A k \in 1..Len(cFile) : cFile[k].flags.gap =>
        \A j \in 1..(k - 1) : cFile[j].id # cFile[k].id - NPartitions

\* With an idempotent producer the log is in order, and no redelivery makes
\* the tracker report a regression.
NoFalseRegression == Idempotent => Flagged("regression") = {}

\* The fault scenario's validation never fails: availability, the flush and
\* the closed files already imply what validateFaultSummary asks.
FaultValidationHolds == scenario = "fault" => verdict # "failed"

\* Every run ends with a verdict.
RunEnds == <>(verdict # "none")

\* README.md:159-160: after the producer has stopped, the consumer gets up to
\* 30 s to reach the acknowledgements: short of the deadline it has them all.
DrainReachesAcknowledgements ==
    phase = "analysing" /\ ~deadline /\ ~timedOut /\ ~pBroken /\ ~cBroken => Missing = {}
==============================================================================
