# Verification of the Kafka recovery experiment

TLA+ models of the experiment in this repository, the TLC runs that check them
on small instances, and theorems about them that the TLA+ proof system checks
for every value of the constants. The reference is the code; documents and tests
only supply the statements that the `violation` runs compare it with.

1. [The system](#1-the-system) 2. [Modules](#2-modules) 3. [Runs](#3-runs)
4. [Fairness](#4-fairness) 5. [Proofs](#5-proofs)
6. [Where code and documents disagree](#6-where-code-and-documents-disagree)
7. [Not modelled](#7-not-modelled) 8. [Plan](#8-plan)

## 1. The system

An experiment produces to a topic and consumes from it, measures a baseline and,
in the fault scenario, deletes the pod of the broker that leads partition 0 and
times the recovery. Its evidence is a directory of JSON and JSONL files. A matrix
of 2 profiles x 2 scenarios x n repetitions is run by a shell script, each
experiment as a Kubernetes Job.

```
 matrix.sh --make--> infra.sh --kubectl--> Job: experiment-runner
    |                    | copy of the volume      |
    |                    v                         v
    |              data/raw/<run_id>        RunBaseline / runFault
    |                    |                   |        |        |
    +--> matrix_results.py (check,       Producer  Consumer  kafkaadmin,
         aggregate) --> runs.csv            |        |       kubernetes
                                            v        v
                                          Kafka --> Tracker
                                            |        |
                                producer.jsonl, consumer.jsonl (JSONLWriter)
```

| Component | State | Operations | Interaction |
|---|---|---|---|
| Message generator (`message`) | global counter, sequence per partition | `Next` | called by the producer |
| Producer (`producer`) | client buffer, acknowledgement counter | `Run`, `produce`, delivery callback, `Flush`, `Close` | callbacks run in the client's goroutine; writes `producer.jsonl` |
| Consumer (`consumer`) | fetch positions, commits, counter, tracker | `Run`, `process`, `Close` | polls and commits; writes `consumer.jsonl` |
| Tracker (`integrity`) | identifiers seen, last offset and sequence of a partition | `Observe`, `ConfirmedMissing` | one per consumer, one per analysis |
| JSONL writer (`output`) | request channel, closed flag, read-write lock, buffered file, sticky error | `Write`, `Close`, goroutine `run` | shared by callbacks, loops and the runner |
| Baseline and fault runner (`experiment`) | phase, contexts, timeline, metadata status | `RunBaseline`, `runFault`, drain, analysis, validation | starts and stops producer and consumer, reads their counters and files |
| Fault injection (`experiment/fault.go`) | plan: broker, pod name and UID, authorisation | plan, `revalidateDeletion`, `injectFault` | reads Kafka and Kubernetes, sees other runners' pods, deletes one pod |
| Run lifecycle (`experiment/runner.go`, `fault.go`) | run directory, status in metadata.json, deferred calls, goroutines, topic | early returns, deferred closes, second start of a run ID | the order in which all other parts start, stop and are read |
| Detectors and mapping (`recovery.go`, `kafkaadmin`, `kubernetes/broker.go`) | none: functions of a topic, of pods, of a series of samples | `TopicState`, `BrokerPod`, `MapBrokerPod`, `ClusterRecovered`, ... | called by the fault run; the detectors by tests only |
| Recovery observer (`experiment/fault.go`) | latched instants of milestones, counters of the last round | `observeRecovery` | polls Kafka, Kubernetes and the counters every second |
| Experiment driver (`scripts/infra.sh`) | Job, volume, run directory | create, wait, copy, validate, clean up | called by the matrix, through `kubectl` |
| Matrix (`scripts/matrix.sh`, `matrix_results.py`) | `data/raw`, the Jobs of the cluster | run, skip, resume, check, aggregate | survives its own death through what it left behind |

What is hard, and what makes each part correct:

- **Concurrency inside a process.** Writers, closers and the writer's goroutine
  share a channel that is closed while others send. Correct: nobody sends on the
  closed channel, everybody gets an answer, and a `Close` without error means a
  whole file with exactly what was confirmed.
- **Callbacks and redelivery.** Deliveries finish late, twice or out of order,
  fetch errors drop batches, rebalances repeat them. Correct: a run that passes
  is what its verdict says, every attempt has one outcome, and the tracker
  reports only real disorder.
- **Reads of a moving cluster.** Between two reads of the fault run pods are
  replaced and leaders move. Correct: at most one run injects; it deletes the
  planned pod, and the leader, as far as its last checks can know.
- **Time.** Rounds may be slow, time-outs race with answers. Correct: a
  milestone is latched only for what happened, the observation returns once
  faults are over.
- **Many ways out.** A run has some twenty calls that can fail, each with its
  own set of deferred calls, and a pod or an operator may start a run ID again.
  Correct: metadata.json says "passed" only in a directory with every required file
  of one start, whose JSONL files are whole but for the tail of the timeline; nobody
  writes a file that was analysed; every start ends unless Kafka keeps it waiting.
- **Crash and resume.** The matrix is killed, Jobs go on, copies break. Correct:
  no combination runs twice, experiments do not overlap, a completed matrix is
  made of whole, passed runs in the order of the schedule.

`PROJECT.json` lists the hazards at their lines with the properties that cover
them, the components with their status, and for every definition its lines.

## 2. Modules

### JSONL writer: `AppendLog`, `JSONLWriter`, `JSONLWriterProofs`

`AppendLog` is what the experiment needs of an output file: entries are taken in
order until the log breaks or is sealed, a writer is told only of an entry that
was taken, and settling says "ok" only if all of them are in the file.
`JSONLWriter` has a program counter for each caller of `Write` (read lock, closed
check, send, answer) and `Close` (write lock, closing the channel, waiting), and
for `run`. The lock is the sets of readers and of closers that announced
themselves: a waiting writer lock stops new readers, as `sync.RWMutex` does. The
file is the sequence of encoded lines, how many of them are flushed, and whether a
line is torn; encoding, spilling, flushing, syncing and closing may fail.
`ImplementsAppendLog` is the refinement: `log <- lines`, with the phase and the
verdict read off the writer's state.

### Traffic: `IntegrityTracker`, `Traffic`, `TrafficProofs`, `TrafficOrderProofs`

`IntegrityTracker` is `Observe`, a function from a tracker to the next one and
the flags of the message. `Traffic` is one run: generator and producer with the
client's buffer, batches that are appended and retried, callbacks; the topic as
one log a partition; the consumer's poll, process and commit steps; and the
runner's phases from the availability check to the verdict, for both scenarios.
A message is its global sequence number, from which partition and sequence
follow. The files are what `AppendLog` promises: sets and sequences of entries,
complete unless a write failed. The Kafka client and broker are external. What
they may do is: append a batch and lose the answer, retry it (an idempotent
producer's retry is not appended again), fail it, report a fetch error beside
records in the same poll, and fetch again from the commit.

### Fault injection: `FaultInjection`, `FaultInjectionProofs`

Several runners, each a real or a dry run, with one step for each read:
`validateKafkaReady`, leader, pod, leader again, pod again, the list of runners,
the confirmation, the deletion. The cluster stops, creates and readies pods (a new
UID each time) and moves leaders between any two of them. Kubernetes' view of a
runner's pod lags behind the runner, as `revalidateDeletion` reads only that view.
The histories `moved` and `replaced` note what changed after the last check.

### Recovery observer: `RecoveryObserver`, `RecoveryObserverProofs`

A round of `observeRecovery` after the deletion, with reads that may fail. Time is counted
in seconds since the last round (`gap`), and counters by their growth since
then, cut off at `Enough`, the least growth that is 90% of the baseline's rate.
The requests of a round have no time-out of their own and may make it late (`late`): the
next tick then waits in the ticker's channel and is stale when it is taken (`lag`), the others
are dropped. `stableSince` counts from tick to tick, as the code does with the
ticker's instants; `overdue` notes that a round of the current window was late or its
tick stale.
The pod, what Kafka knows of the broker, and the leader change independently:
Kafka may notice the loss long after the deletion. `sustained` records the seconds
in a row that really were good.

### Run lifecycle: `RunContract`, `RunLifecycle`, `RunLifecycleProofs`

`RunContract` is what a start of the runner promises to those who wait for its
exit and read its directory: it reports while it is active, ends once, ends well
only after a good report, and changes nothing after its end.

`RunLifecycle` has one script for each kind of run (`baseline`, `fault`,
`rehearsal`: dry run of a fault, `plan`: dry run of a baseline, `refused`), a sequence
of steps `<<verb, object>>` in the order of the code. A start has a position in its
script (`pc`), the stack of its deferred calls (`defers`, the latest first) and the
error it will return. `RunBaseline` defers the close of each thing it opens;
`prepareFaultSession` defers nothing, and `runFault` takes over three calls at its
end, so that an early error leaves its files to the end of the process. Every step
may fail (`StepFails`), a deferred close may fail silently, the process may be killed
anywhere (`Kill`), and several starts may share the run ID, hence the
directory and the topic. metadata.json is written in two steps, as `os.WriteFile`
truncates first (`Truncate`, `PutBytes`): it can be found empty; of two writers the
second may overwrite the first completely or leave its tail, and a write that fails may
leave a part (`PutFails`, "torn"). The timeline stays open until the deferred calls, after
the status was written.
Producer and consumer are goroutines that return, or that lose an entry
to a file that was closed under them (`EntryRefused`).

### Detectors: `Detectors`, `MCDetectors`, `DetectorsProofs`

The functions that conclude something from one look or from a series, and below them
the subjects they look at: a topic whose brokers fail, return and catch up; pods
that come and go, identified by the label of the broker ID, of the pod's name, or
both; a series of samples. `KafkaReady`, the condition inside `observeRecovery`,
is compared with `ClusterRecovered` of `recovery.go`, both with what the
brokers really have; `MapBrokerPod` with the leader's own pod; the window detectors with
the history of the series (`badAt`). Names and labels are sequences of symbols:
`Identifies` compares the ID's label, or asks whether the pod's name ends in a hyphen and the
ID, as `strings.HasSuffix` does. What `strconv.FormatInt` prints is the constant
`Digits`, of which the module assumes that it has digits only and tells the IDs apart;
`MCDetectors` gives decimals. Replication and window are those that
`Config.Validate` accepts.

### Matrix: `Matrix`, `MatrixProofs`

`matrix.sh` with the part of `infra.sh` it calls, as one program counter, and
what survives it: each run's Job and volume, and its directory in `data/raw` (the
status its metadata gives, and whether all artifacts are there). Every step may
fail or be interrupted (`Interrupt`, `WaitTimesOut`, `CopyBreaks`); the operator
calls the matrix again (`Start`) and may move what the check reports to
`data/excluded` (`Exclude`). An experiment is a Job that writes its
verdict as the last artifact and then exits, or loses its pod. `GuardPasses` has
the question for active Jobs inside an `if`: with `ApiErrors` it may fail, and
then reads as "none". Run names are numbers, as `new_run_id` never repeats one;
versions and configurations are taken as constant over a matrix.

### How the modules compose

One state space for everything is out of reach, so components meet at contracts that
are specifications of their own:

| Contract | Implemented by | Relied on by |
|---|---|---|
| `AppendLog`: an output file | `JSONLWriter` (`ImplementsAppendLog`) | `Traffic`, whose files are what it promises; `RunLifecycle`, whose streams are open, sealed or broken |
| `RunContract`: one start of the runner | `RunLifecycle` (`KeepsContract`) | `Matrix`, whose experiments are shown to be such starts (`RunsKeepContract`) |
| `IntegrityTracker`: `Observe` | a function, used as it is | `Traffic` |

`FaultInjection` abstracts the traffic to the time it takes, `RecoveryObserver` the
cluster to what a round reads, and `RunLifecycle` what flows through the files.

## 3. Runs

| Run | Module | Instance | Shows |
|---|---|---|---|
| `jsonl_writer` | `MCJSONLWriter` | 2 writers x 2 writes, 2 closers, channel of 1 | no send on a closed channel, sealed files are complete, errors are not hidden, `AppendLog` is implemented, every `Write` and `Close` returns |
| `traffic_baseline` | `Traffic` | baseline, 3 messages, a fetch error, a redelivery | a pass means exactly once; flagged gaps are real, no false regression; every run ends with a verdict |
| `traffic_retries` | `Traffic` | both scenarios, 2 messages, not idempotent, batches appended twice, a fetch error, failing files | one outcome for each attempt; the fault validation never fails; a baseline that passes was in order |
| `fault_injection` | `MCFaultInjection` | 2 runners, 2 brokers, a restart of each | one injection at a time; planned pod; leader |
| `recovery` | `RecoveryObserver` | window 2, rounds one or two seconds apart | milestones are real; performance is sustained if no round of its window was late; the observation completes after the last fault |
| `run_lifecycle` | `RunLifecycle` | 2 starts of one run ID, each of any kind, 1 failure or kill at any step | "passed" is backed by evidence, traffic of one start only, analysed files do not change, `RunContract` is kept, every start ends unless it waits for Kafka for ever |
| `detectors` | `MCDetectors` | brokers 1, 2 and 11, 2 partitions, a minute of 3 samples | what looks healthy serves; the mapped pod is the leader's; verdicts over a series are earned |
| `matrix` | `Matrix` | 2 repetitions, 2 failures | no duplicates, order of the schedule, one Job at a time; a completed matrix is sound and quiet; experiments keep `RunContract`; it completes |

The remaining runs (`expect: violation`) are those of section 6.

**Bounds, and why they are enough.** Every bound is a constant with a comment.
Two writers and closers are what lock and channel distinguish (one waiting,
one proceeding); with a channel of one a third request blocks. In the traffic,
three messages on one partition give a predecessor, a message and a successor,
the pattern of gaps and regressions; two appends of a batch are a duplicate and,
with a second batch, a reordering; one fetch error and one redelivery are the
events that interact. One partition is what TLC can take in minutes:
partitions share only the poll and the end of the run, and a poll can report
an error beside this partition's records without a second one (the client adds
errors of the group and of metadata to a poll as fetches of their own). The theorems
of section 5 hold for any number of partitions, messages, appends and redeliveries.
`traffic_retries` has no redelivery, so that disorder can only come from the log. Only it
lets writes of the files fail: of `PassedBaselineIsExactlyOnce` TLC checks no more than
the half without them, the theorem has both.
For injection two runners race; two brokers are a target and another leader; one
restart replaces a pod between any two steps. In the lifecycle two starts race
for the directory and the topic, and one failure meets each step of either, as
do the deferred calls after it; its properties are proved for any number of both. Brokers 1
and 11 share a last digit, which a comparison of suffixes could confuse; a topic
has one replica (profile A) or three (B); a series of four samples, a second or two
apart, has samples before, at and inside a cutoff of three seconds.
The observer's window of two seconds has a first, an inner and a last round, as
`stableSince` is zero in the first; the observer keeps nothing older than the last
round but what it latched. Two seconds from one round to the next
(`MaxGap`) make a round late and leave a stale tick behind it, which are all its
cases: longer ones are late by more. `recovery_timeout` and `recovery_cluster` have
rounds a second apart; their counterexamples need no late one. The theorems hold for
every `MaxGap`. Two repetitions are
the least with both orders of the profiles, two failures let a second one hit the
repair of the first. `MaxRuns` is the number of combinations plus the failures,
so that it never stops a run. `ApiErrors` is FALSE in `matrix`; `matrix_parallel`
shows what happens otherwise.

**Deadlock.** The runs of `Matrix` check for it. In the others the modelled part
really ends: writers and closers have returned, the verdict is there, every
runner and every start has ended, the observation has returned, the series has
reached its bound (`CHECK_DEADLOCK FALSE`).

## 4. Fairness

Only steps that the code or its scheduler must take are fair; failures, restarts,
leader changes, retries, redeliveries, fetch errors, cancellations and
interrupts never are.

- `JSONLWriter`: each writer, each closer and `run`: goroutines are scheduled,
  and a lock or channel operation that stays possible is taken. The lock's queue
  is in the model, so weak fairness suffices.
- `Traffic`: producer, consumer and runner are goroutines; `ClientStep` of each
  partition says that the Kafka client finishes a batch, acknowledged or failed,
  and runs its callback. The code does not enforce it: it sets no time-out for a record
  (`producer.go:44`), so this is the assumption that the cluster answers. Without it
  `Flush`, which has no time-out, may wait for ever (`producer.go:64`).
- `RunLifecycle`: a started process takes its next step, except in the observation of a
  fault (`Observing`), which ends only with a recovery (`recovery_timeout`); a
  consumer whose context is cancelled returns. The producer owes nothing, as it
  flushes with a background context (`producer.go:64`). `EveryStartEnds` excepts a start
  that stays in one of these two waits for ever. Single calls to Kafka and Kubernetes
  return or fail. Nobody has to start, fail or be killed.
- `RecoveryObserver`: the ticker fires, applications that can run progress once
  disturbances are over (`calm`).
- `Matrix`: the script's own steps; an experiment ends by itself (its manifest has
  no deadline, the experiment its time-outs); the operator calls the matrix again
  and clears what the check reports. That is what the README of the repository asks
  of the operator; without it nothing restarts a script that failed.

## 5. Proofs

| Theorem | Module | Assumes |
|---|---|---|
| `TypeCorrect` | `JSONLWriterProofs`, `TrafficProofs`, `FaultInjectionProofs`, `RecoveryObserverProofs`, `RunLifecycleProofs`, `MatrixProofs` | the named assumptions on the constants |
| `NeverSendsOnClosed`, `SealedIsComplete`, `NoHiddenError` | `JSONLWriterProofs` | same |
| `Implementation`: `Spec` implements `AppendLog` | `JSONLWriterProofs` | same |
| `LinesKeepCallOrder`, `RequestsAreNotLost`, `NeverStandsStill` | `JSONLWriterProofs` | same |
| `OutcomesComplete`, `FaultRunsValidate`, `PassedBaselinesAreExactlyOnce` | `TrafficProofs` | same |
| `AcknowledgementsAreLogged`, `CommitsFollowConsumption`, `NothingAcknowledgedIsLost` | `TrafficProofs` | same |
| `RegressionsAreReal`, `ReportedGapsAreReal`, `PassedBaselinesAreInOrder` | `TrafficOrderProofs` | same |
| `DuplicatesAreRedelivered`, `BaselinesFailForAReason` | `TrafficOrderProofs` | same |
| `MutualExclusion`, `PlannedPodDeleted`, `LeaderDeleted` | `FaultInjectionProofs` | same |
| `RealMilestones`, `SustainedPerformance` | `RecoveryObserverProofs` | same |
| `OneTrafficOnly`, `PassedAlwaysBacked`, `EvidenceStaysFrozen` | `RunLifecycleProofs` | same |
| `StartsKeepContract`: each start implements `RunContract` | `RunLifecycleProofs` | same |
| `StartsNeverStandStill`, `DeferredCallsCleanUp` | `RunLifecycleProofs` | same |
| `HealthyTopicsServe`, `MappedPodIsTheLeaders`, `VerdictsAreEarned` | `DetectorsProofs` | same; the mapping rests on `DigitsAssumption` |
| `OneRunPerCombination`, `ScheduleFollowed`, `SoundWhenCompleted` | `MatrixProofs` | same |
| `JobsKeepContract`: each experiment implements `RunContract` | `MatrixProofs` | same |
| `SequentialRuns`, `QuietWhenCompleted` | `MatrixProofs` | `~ApiErrors`: the guard is answered (`matrix_parallel` shows it is needed) |

The arguments:

- **Writer.** The properties speak of the end; the inductive invariant follows a
  request on its way. `LockInv`: readers hold off the closing of the channel.
  `QueueInv`: a request in the channel or an answer belongs to a writer that waits
  for it. `OutcomeInv`, `EncodedInv`: what is encoded is what was accepted or is
  being answered. `ErrorInv`, `FinishInv`: an error is kept until `Close`. The
  refinement maps each action to an action of `AppendLog` or a stutter. Three
  further facts have no run of their own: a writer's lines are in the order of its calls
  (`LinesInCallOrder`), a Write that waits has its request in the channel of a `run`
  that still serves it (`AwaitInv`), and hence some goroutine can always go on
  (`NoStandstill`, the guards of their steps spelled out in place of ENABLED): the safety
  half of `WriteReturns` and `CloseReturns`.
- **Traffic, counting.** Each produced message is in one place: the client's
  buffer, a pending callback, or past its callback (`PlaceInv`), and what is past has
  an outcome in the file unless a write failed (`OutcomeInv`); buffers are empty
  when the producer has stopped (`StoppedIsFlushed`). What was consumed comes
  from the log, what the log has was produced (`LogIsProduced`, `ConsumedIsKnown`);
  the rest compares cardinalities by injections.
- **Traffic, delivery.** What is in flight past its append, in a callback or acknowledged
  in the file is in the log (`AckInv`). On the other side the consumer's position
  and its commit have everything before them consumed, `next` inside a poll too, as
  long as no poll reported an error (`ReadInv`), and what was consumed is in the file
  unless a write failed (`SeenIsRecorded`). Together: a consumer that is through with the
  log misses nothing that was acknowledged. The two conditions are the code's: section 6
  has the poll that skips records.
- **Traffic, order.** With an idempotent producer the log of a partition increases
  and lies before what the buffer still holds (`OrderInv`). The tracker's last
  position is a record of the log, and what it has seen lies `Behind` it
  (`TrackerInv`): a flag compares two records in the order of the log (`FlagsInv`).
  Gaps need that sequence numbers follow from the global counter, for which the
  module has lemmas on division. Without a redelivery fetches only go forward
  (`ForwardInv`), so a baseline that passes consumed in order (`SortedInv`), and a
  record at the consumer's offset is a new one (`ReportInv`): only redelivery makes
  duplicates. With `PassedBaselinesAreExactlyOnce` that makes the validation right both
  ways: a baseline of an idempotent producer that fails had a failed message, a
  redelivery or a drain cut off by its deadline (`FailedForAReason`). A fetch error alone is
  no further reason: what it skipped keeps the drain waiting until that deadline (`DrainInv`).
- **Injection.** `OneFaultAtATime` is not inductive: two runners could both be past
  the list. `ListedAsRunning` closes it: whoever has prepared is listed as
  running until it has ended, so the second one to list sees the first.
  `PodAsChecked` and `LeaderAsChecked` say that what was checked still holds unless
  the history notes the change.
- **Observer.** `StreakCoversWindow`: while `stableSince` is set and no round since was
  overdue, as many good seconds lie behind as it counts and one more. A round that is not late,
  on a tick that is not stale, has one second behind it, and `TickDistance` is one.
- **Lifecycle.** Its first section turns scripts into facts about positions
  (`AtWhere`, `PositionOf`): which step is where, in which script. The invariants say what
  holds at or past a position: streams (`StreamInv`), goroutines (`RunInv`), lost entries
  (`RefusedInv`), artifacts (`EvidenceInv`). `TrafficInv`: only one start gets past the
  creation of the topic, because Kafka refuses it a second time. `AuthorInv`: a whole
  metadata.json is what some start wrote, although all of them may write; `EndInv`: who
  returned without error wrote a good status last. `CancelInv`: past the `stop` of a component
  its context is cancelled, so no `await` waits for one that was never told to stop
  (`StartsNeverStandStill`: the safety half of `EveryStartEnds`). `HandoverInv`: what a
  run has open and handed over, and what it still has to cancel, is on its stack of deferred
  calls; when that is empty nothing is left (`DeferredCallsCleanUp`; a fault run hands over
  its timeline only, so its JSONL files may stay open to the end of the process).
  `PassedIsBacked` joins these: who wrote "passed" is past the collection of its evidence and
  the close of its files, and `TimelineInv` adds that a timeline that was handed over
  breaks by a failure only (`PassedAlwaysBacked`).
- **Matrix.** `NoDuplicateRuns` needs that from the skip to the copy the combination has
  no passed directory (`SlotIsOpen`, `CurrentRunIsOpen`) and that runs
  yet to be created have none (`OnlyCreatedRuns`). `OneOfficialJob` needs that no
  Job is active from the guard to the creation (`ClearedForJob`). The order of
  the schedule follows from the run every earlier slot had (`SlotsHadRuns`); a completed
  matrix is sound as its check still holds when the rows are written (`CheckHolds`,
  `RowsAreValid`), and quiet as every passed run was cleaned up before the next
  slot (`CleansCompleted`).
- **Detectors.** A partition with a leader is led from an ISR whose members are all alive; one
  without waits for the one broker that its ISR still has (`Led`, `Waits`). So a topic
  with every leader has only living members in its ISRs, and as many as replicas are all
  replicas, by cardinality. A pod's name ends in a hyphen and its own ID. If it also ended
  in a hyphen and another ID, the last hyphen would be at two places, as digits have
  none (`HyphenSeparates`); so only the leader's pod is selected (`OwnPodOnly`); the
  controllers' pods have another role. `BadIsLatest`: `badAt` is the latest bad sample of
  the series, which the window of the detector has or has not; `GrowthAddsUp`: counters that
  grew in each interval grew at least by the number of intervals.

Every inductive invariant was checked with TLC before it was proved, those of the
order of the traffic also with two partitions. Every invariant and action
property of a passing run is proved, and every refinement is. Only model-checked are the
liveness properties (`WriteReturns`, `CloseReturns`, `RunEnds`, `ObservationCompletes`,
`EveryStartEnds`, `MatrixCompletes`): the prover has no ENABLED, hence no fairness.
For the writer and the lifecycle the part of them that is safety is proved, as
above. What a recursive definition computes for all inputs is out of the prover's reach; no
module uses RECURSIVE. The properties that only theorems state stand in the modules of
the proofs, beside them.

## 6. Where code and documents disagree

Each `violation` run checks one statement of a document or test and finds it
violated by the model of the code:

| Run | Statement | Code |
|---|---|---|
| `traffic_drain` | README:159, the consumer catches up with the acknowledgements | two counters are compared; duplicates count (`runner.go:288`) |
| `recovery_timeout` | docs/PROJECT_SPEC:146, ends with recovery or timeout | the observer has not the context with the timeout (`fault.go:198`) |
| `recovery_cluster` | docs/PROJECT_SPEC:193, replicas are in sync again | latched before Kafka noticed the loss (`fault.go:416`) |
| `matrix_parallel` | README:231 and 244, strictly sequential | a failed question reads as "no Job" (`matrix.sh:38`) |

The code has further departures, which have no run of their own; the
properties above are worded so that they hold with them:

- A poll with an error skips the records it brought, and a later commit goes past
  them (`consumer.go:46`): a fault run then reports as missing what the topic has.
- A message that was skipped and is redelivered after its successors is behind the
  last offset, is not compared and raises no flag (`tracker.go:42`), hence
  `rebalances = 0` in `PassedBaselineIsInOrder`.
- A pod replaced between the comparison of UIDs and the deletion is deleted in the
  place of the planned one, as `DeletePod` takes a name (`fault.go:236`); the
  history `replaced` notes it in `DeletesPlannedPod`.
- A round that was late compares the records of several seconds with the rate of one
  (`fault.go:435`), and counts the window from the ticker's instants: it can latch
  the performance with seconds below 90% in its window. `PerformanceIsSustained` speaks
  of windows without such rounds (`~overdue`).
- "passed" is written while timeline.jsonl is open and buffered (`runner.go:348`,
  `fault.go:224`; only `Close` flushes, `jsonl.go:81`). A kill before the deferred `Close`, or its
  error, which is ignored (`runner.go:191`, `fault.go:133`), leaves a truncated timeline beside
  "passed", and the check of `infra.sh:216` finds the file. `PassedIsBacked` demands it
  whole only if nothing failed.
- A directory that says "passed" may still change: the deferred `Close` writes the end of the
  timeline, and a second start of the run ID rewrites metadata.json and appends to the
  timeline. `EvidenceIsFrozen` is about producer.jsonl and consumer.jsonl alone.
- A failed run leaves its directory in `data/raw`, and the check at the end of the
  resumed matrix fails for it (`matrix_results.py:173`) although each combination
  has its valid run: `MatrixCompletes` needs the operator's `Exclude`.
- README:233 says that incomplete directories are disregarded; a combination
  counts as complete by its metadata.json alone (`matrix.sh:24`). `CompletedMatrixIsSound`
  holds as the check at the end does look at the artifacts.
- A second start of a run ID takes the directory as its own and overwrites the
  status of the first (`runner.go:184`), although the plan says "create unique run
  directory" (`runner.go:84`); it stops at the topic. `PassedIsBacked` and
  `OneTraffic` say what is protected all the same.
- docs/PROJECT_SPEC:201 wants a configurable interval before applications count as
  stable. `application_stable` is configured and read by no code: one
  acknowledgement and one consumed message are enough (`fault.go:446`).
- docs/PROJECT_SPEC:205 also asks for latency and lag; `observeRecovery` compares
  throughput only (`fault.go:437`), the detector of `recovery.go` has all three.
- `PerformanceSeconds` is written again in every round until the other milestones
  are in (`fault.go:459`): the last such second is exported, not the first.
- A rate above 10^9 a second makes the ticker's period zero, which panics
  (`producer.go:59`).

## 7. Not modelled

- Kubernetes client: construction and the retries of client-go. Its calls are single
  reads and steps of the cluster.
- Configuration: `Load`, the environment, and the rules of `Validate` on single fields;
  those on replication and window restrict `Detectors`.
- Commands: flag parsing, signal contexts, the stand-alone producer and consumer.
- `infra.sh`: installation, images, status, the smoke and pilot runs; deletion of a topic
  or rebuilding the cluster between two starts of a run ID.
- Metrics, the manifest validator, statistics and charts, deployment manifests: no
  state that a decision of the program depends on.

Payloads, latencies and formatting are abstracted everywhere. Calls without
an effect of their own on the run (`Ping`, closing a client) are failures a step may meet;
an error that the code ignores, as that of a deferred `Close`, is an outcome of its step
that changes what the file holds and nothing else.

## 8. Plan

Done:

1. `AppendLog`, `JSONLWriter` with proofs of the invariants and the refinement.
2. `IntegrityTracker`, `Traffic`: both scenarios, with proofs of every safety property.
3. `FaultInjection` with proofs.
4. `RecoveryObserver` with proofs.
5. `Matrix` with proofs of every safety property.
6. `RunContract`, `RunLifecycle` with proofs of the invariants and the refinement, and the
   same contract kept by the experiments of `Matrix`.
7. `Detectors`: broker mapping, topic state, the detectors against the observer, with
   proofs of every property.
8. Theorems beyond the runs: delivery from the acknowledgement to the consumer's file, validation
   that fails only for a reason, order and progress of the writer, progress and
   clean-up of every start.

Left, the first being worth most:

1. Recorded times in `RecoveryObserver`: the order of the milestones and the second
   that `PerformanceSeconds` keeps.
2. Theorems about what `Matrix` leaves on disk and `RecoveryObserver` reports beyond their
   runs: a passed directory stays one unless the operator excludes it.
3. The ticker's period and the single-field rules of `Validate`, with their edges.
4. `Generator` under concurrent calls of `Next`; today only one goroutine calls it.
