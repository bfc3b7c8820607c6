-------------------------- MODULE RecoveryObserver --------------------------
(***************************************************************************)
(* observeRecovery (internal/experiment/fault.go): from the deletion of    *)
(* the broker pod on, once a second, it asks Kafka and Kubernetes for      *)
(* their state and reads the counters of producer and consumer, latches    *)
(* the instant of every milestone, and returns when it has all of them.    *)
(*                                                                         *)
(* An instant is a Boolean here: the milestone was latched or not.  A      *)
(* round is one step, at its reading of the counters; its requests before  *)
(* that have no timeout of their own and may make it late.                 *)
(* Cluster and counters are external: what they may show after the         *)
(* deletion of a pod.                                                      *)
(***************************************************************************)
EXTENDS Integers

CONSTANTS
    Window,     \* PerformanceWindow, in seconds
    Enough,     \* least count a second that is 90% of baselineRate
    MaxGap      \* bound: seconds from one round to the next (requests may block)

ASSUME ObserverAssumption ==
    /\ Window \in Nat \ {0}
    /\ Enough \in Nat \ {0}
    /\ MaxGap \in Nat \ {0}

VARIABLES
    pod,        \* the broker's pod: "old" (planned UID), "gone", "new", "ready"
    broker,     \* what Kafka knows: "serving", "lost" (its ISR shrunk), "back"
    leader,     \* of partition 0: "planned", "none" or "other"
    expired,    \* the timeout of runCtx: producer and consumer have stopped
    cancelled,  \* the context of the run (SIGTERM)
    calm,       \* faults and slow reads are over
    gap,        \* seconds since the last round read the counters
    late,       \* seconds from its taking of its tick to that reading
    lag,        \* seconds its tick had waited in the ticker's channel
    acks,       \* acknowledgements since the last round, up to Enough
    consumption, \* records processed since the last round, up to Enough
    podRecreated, podReady, newLeader, kafkaReady, appReady,
    productionMarked, consumptionMarked,
    stableSince, \* seconds since stableSince, up to Window; -1 for the zero time
    performance, \* PerformanceSeconds > 0
    result,      \* "observing", "recovered" or "cancelled"
    sustained,   \* history: latest seconds in a row with Enough, up to Window
    overdue      \* history: a round since stableSince was late, or its tick stale

envVars == <<pod, broker, leader, expired, cancelled, calm>>
clusterLatches == <<podRecreated, podReady, newLeader, kafkaReady>>
loadVars == <<gap, acks, consumption>>
roundVars == <<late, lag, overdue>>
appLatches == <<appReady, productionMarked, consumptionMarked>>
observerVars == <<clusterLatches, appLatches, stableSince, performance, result>>
vars == <<envVars, loadVars, roundVars, observerVars, sustained>>

None == -1

Init ==
    /\ pod \in {"old", "gone"}
    /\ broker = "serving"
    /\ leader \in {"planned", "other"}
    /\ expired = FALSE
    /\ cancelled = FALSE
    /\ calm = FALSE
    /\ gap = 0 /\ acks = 0 /\ consumption = 0
    /\ late = 0 /\ lag = 0 /\ overdue = FALSE
    /\ podRecreated = FALSE /\ podReady = FALSE
    /\ newLeader = FALSE /\ kafkaReady = FALSE
    /\ appReady = FALSE /\ productionMarked = FALSE /\ consumptionMarked = FALSE
    /\ stableSince = None
    /\ performance = FALSE
    /\ result = "observing"
    /\ sustained = 0
-----------------------------------------------------------------------------
(***************************************************************************)
(* The cluster (external)                                                  *)
(***************************************************************************)
Disturbed == ~calm /\ result = "observing"

PodMoves ==
    /\ Disturbed
    /\ \/ pod = "old" /\ pod' = "gone"
       \/ pod = "gone" /\ pod' = "new"
       \/ pod = "new" /\ pod' = "ready"
       \/ pod = "ready" /\ pod' = "new"
    /\ UNCHANGED <<broker, leader, expired, cancelled, calm, loadVars, roundVars, observerVars,
                   sustained>>

\* The controller notices the loss only some time after the deletion.
BrokerLost ==
    /\ Disturbed
    /\ pod # "old"
    /\ broker = "serving"
    /\ broker' = "lost"
    /\ leader' \in (IF leader = "planned" THEN {"none", "other"} ELSE {leader})
    /\ UNCHANGED <<pod, expired, cancelled, calm, loadVars, roundVars, observerVars,
                   sustained>>

\* Without a replica in sync the partition waits for its broker.
LeaderElected ==
    /\ Disturbed
    /\ leader = "none"
    /\ leader' = "other"
    /\ UNCHANGED <<pod, broker, expired, cancelled, calm, loadVars, roundVars, observerVars,
                   sustained>>

BrokerBack ==
    /\ Disturbed
    /\ pod \in {"new", "ready"}
    /\ broker = "lost"
    /\ broker' = "back"
    /\ leader' \in {leader, "planned"} \ {"none"}
    /\ UNCHANGED <<pod, expired, cancelled, calm, loadVars, roundVars, observerVars,
                   sustained>>

ExperimentTimeout ==
    /\ Disturbed
    /\ ~expired
    /\ expired' = TRUE
    /\ UNCHANGED <<pod, broker, leader, cancelled, calm, loadVars, roundVars, observerVars,
                   sustained>>

Cancel ==
    /\ Disturbed
    /\ ~cancelled
    /\ cancelled' = TRUE
    /\ UNCHANGED <<pod, broker, leader, expired, calm, loadVars, roundVars, observerVars,
                   sustained>>

CalmDown ==
    /\ Disturbed
    /\ pod = "ready" /\ broker = "back" /\ ~expired /\ ~cancelled
    /\ calm' = TRUE
    /\ UNCHANGED <<pod, broker, leader, expired, cancelled, loadVars, roundVars, observerVars,
                   sustained>>

UpTo(bound, n) == IF n > bound THEN bound ELSE n

\* Seconds from the end of the last round to the next tick.  The ticker's
\* channel holds one: the first tick that a late round lets pass waits there,
\* the others are dropped.
UntilTick == IF late = 0 THEN 1 ELSE 0

\* One more second of the applications' work: a acknowledgements, c records.
\* Capped, for only whether they reach Enough matters.
Second(a, c) ==
    /\ result = "observing"
    /\ gap < (IF calm THEN UntilTick ELSE MaxGap)
    /\ expired => a = 0 /\ c = 0
    /\ calm => a = Enough /\ c = Enough
    /\ gap' = gap + 1
    /\ acks' = UpTo(Enough, acks + a)
    /\ consumption' = UpTo(Enough, consumption + c)
    /\ sustained' = IF a = Enough /\ c = Enough THEN UpTo(Window, sustained + 1) ELSE 0
    /\ UNCHANGED <<envVars, roundVars, observerVars>>

Environment ==
    \/ PodMoves \/ BrokerLost \/ LeaderElected \/ BrokerBack
    \/ ExperimentTimeout \/ Cancel \/ CalmDown
-----------------------------------------------------------------------------
(***************************************************************************)
(* A round of the observer                                                 *)
(***************************************************************************)
\* Mutant: PartitionLeader's answer for a leaderless partition is taken.
AnyNewLeader == leader # "planned" \/ podRecreated

\* Mutant: a leader that stays or returns is never taken for a new one.
OnlyOtherLeader == leader = "other"

\* newLeaderDetected, or any leader once the pod is known to be a new one;
\* PartitionLeader returns an error for a leaderless partition.
NewLeader ==
    /\ leader # "none"
    /\ leader # "planned" \/ podRecreated

\* No leaderless or under-replicated partition, and allISRRecovered.
ISRRecovered == broker # "lost"

\* TopicState, and PartitionLeader if that answers.
ObserveKafka(topicRead, leaderRead) ==
    /\ newLeader' = (newLeader \/ (topicRead /\ leaderRead /\ NewLeader))
    /\ kafkaReady' = (kafkaReady \/ (topicRead /\ ISRRecovered))

\* podRecreatedDetected: a pod with another UID.
Recreated == pod \in {"new", "ready"}

PodIsReady == pod \in {"old", "ready"}

\* Mutant: the identity of the pod counts for its recreation only.
ObservePodByName(podRead) ==
    /\ podRecreated' = (podRecreated \/ (podRead /\ Recreated))
    /\ podReady' = (podReady \/ (podRead /\ PodIsReady))

ObservePod(podRead) ==
    /\ podRecreated' = (podRecreated \/ (podRead /\ Recreated))
    /\ podReady' = (podReady \/ (podRead /\ Recreated /\ PodIsReady))

\* The counters have grown since the fault, at some round: the marks stay.
ObserveApplications ==
    /\ productionMarked' = (productionMarked \/ acks > 0)
    /\ consumptionMarked' = (consumptionMarked \/ consumption > 0)
    /\ appReady' = (appReady \/ (productionMarked' /\ consumptionMarked'))

\* The growth since the last round, compared with the rate of one second.
Progressed == acks >= Enough /\ consumption >= Enough

\* From the tick of the last round to that of this one.
TickDistance == lag + 1

\* Mutant: a round below the rate does not restart the window.
StableAnyway ==
    stableSince' = IF appReady' /\ (Progressed \/ stableSince # None)
                   THEN IF stableSince = None THEN 0 ELSE UpTo(Window, stableSince + TickDistance)
                   ELSE None

StableRound ==
    stableSince' = IF appReady' /\ Progressed
                   THEN IF stableSince = None THEN 0 ELSE UpTo(Window, stableSince + TickDistance)
                   ELSE None

ObservePerformance ==
    /\ StableRound
    /\ performance' = (performance \/ stableSince' = Window)

AllRecovered == podReady /\ newLeader /\ kafkaReady /\ appReady /\ performance

\* The requests of this round took what is left of gap after its tick; that
\* tick had waited while the last round was late.
Delay ==
    /\ late' = gap - UntilTick
    /\ lag' = IF late = 0 THEN 0 ELSE late - 1
    /\ overdue' = (stableSince' # None /\ (late' > 0 \/ lag' > 0 \/ overdue))

\* A ticker's round; with a cancelled context every read fails.
Round(topicRead, leaderRead, podRead) ==
    /\ result = "observing"
    /\ gap >= UntilTick
    /\ cancelled => ~topicRead /\ ~leaderRead /\ ~podRead
    /\ calm => topicRead /\ leaderRead /\ podRead
    /\ ObserveKafka(topicRead, leaderRead)
    /\ ObservePod(podRead)
    /\ ObserveApplications
    /\ ObservePerformance
    /\ Delay
    /\ result' = IF AllRecovered' THEN "recovered" ELSE "observing"
    /\ gap' = 0 /\ acks' = 0 /\ consumption' = 0
    /\ UNCHANGED <<envVars, sustained>>

ReturnCancelled ==
    /\ result = "observing"
    /\ cancelled
    /\ result' = "cancelled"
    /\ UNCHANGED <<envVars, loadVars, roundVars, clusterLatches, appLatches, stableSince,
                   performance, sustained>>
-----------------------------------------------------------------------------
ApplicationsRun == \E a, c \in 0 .. Enough : Second(a, c)
SomeRound == \E topicRead, leaderRead, podRead \in BOOLEAN : Round(topicRead, leaderRead, podRead)

Next == Environment \/ ApplicationsRun \/ SomeRound \/ ReturnCancelled

Spec == Init /\ [][Next]_vars

\* Time passes, the ticker's rounds come, and a cancelled context is noticed;
\* the cluster owes nothing.
FairSpec ==
    Spec /\ WF_vars(ApplicationsRun) /\ WF_vars(SomeRound) /\ WF_vars(ReturnCancelled)
-----------------------------------------------------------------------------
\* Every variable has its type; Kafka shows a leaderless partition only without
\* its broker, and milestones latch in the code's order.
TypeOK ==
    /\ pod \in {"old", "gone", "new", "ready"}
    /\ broker \in {"serving", "lost", "back"}
    /\ leader \in {"planned", "none", "other"}
    /\ leader = "none" => broker = "lost"
    /\ expired \in BOOLEAN /\ cancelled \in BOOLEAN /\ calm \in BOOLEAN
    /\ gap \in 0 .. MaxGap /\ acks \in 0 .. Enough /\ consumption \in 0 .. Enough
    /\ late \in 0 .. MaxGap /\ lag \in 0 .. MaxGap /\ overdue \in BOOLEAN
    /\ podRecreated \in BOOLEAN /\ podReady \in BOOLEAN
    /\ podReady => podRecreated
    /\ appReady => productionMarked /\ consumptionMarked
    /\ newLeader \in BOOLEAN /\ kafkaReady \in BOOLEAN
    /\ appReady \in BOOLEAN
    /\ productionMarked \in BOOLEAN /\ consumptionMarked \in BOOLEAN
    /\ stableSince \in None .. Window
    /\ performance \in BOOLEAN
    /\ result \in {"observing", "recovered", "cancelled"}
    /\ sustained \in 0 .. Window

\* observeRecovery latches a new leader only if another broker leads or the
\* pod was replaced, and a new or ready pod only if it was replaced: neither a
\* leaderless partition nor the deleted pod, still listed, counts.
MilestonesAreReal ==
    /\ newLeader => leader = "other" \/ pod \in {"new", "ready"}
    /\ podRecreated \/ podReady => pod \in {"new", "ready"}

\* PROJECT_SPEC: performance is recovered after a whole window (60 seconds) in
\* which every second had 90% of the baseline's production and consumption.
\* That holds of every round that writes PerformanceSeconds, the first and the
\* later ones that replace it, if no round of its window was late: a late round
\* compares the records of several seconds with the rate of one.
PerformanceIsSustained ==
    [][gap' < gap /\ stableSince' = Window /\ ~overdue' => sustained = Window]_vars

\* Once faults are over, observeRecovery returns with every milestone, also
\* when the planned broker leads again (with one replica no other can).
ObservationCompletes == calm ~> result = "recovered"

\* PROJECT_SPEC, step 12: the run ends with the recovery or the timeout.
ObservationEnds == expired ~> result # "observing"

\* PROJECT_SPEC: the cluster is recovered when its replicas are in sync again.
KafkaRecoversAfterLoss == kafkaReady => broker = "back"
=============================================================================
