------------------------------- MODULE Detectors -------------------------------
(***************************************************************************)
(* What the program concludes from single looks at the cluster and from    *)
(* series of samples: TopicState and PartitionLeader (kafkaadmin/admin.go),*)
(* BrokerPod and MapBrokerPod (kubernetes/broker.go), and the detectors of *)
(* experiment/recovery.go, which only their tests call: observeRecovery    *)
(* has its own conditions (RecoveryObserver).                              *)
(*                                                                         *)
(* The state is the subject of these functions: a topic as Kafka shows it  *)
(* while brokers fail and return, the pods of the brokers as Kubernetes    *)
(* lists them (both external), or a series of samples that grows.  The     *)
(* configuration is one that Validate (config/config.go) accepts.          *)
(***************************************************************************)
EXTENDS Integers, Sequences, FiniteSets

CONSTANTS
    Brokers,     \* broker IDs
    Digits,      \* the decimal digits of each ID, as strconv.FormatInt prints them
    Partitions,  \* of the topic: Validate asks for one at least
    Minute,      \* 60 seconds
    StableFor,   \* the interval of ApplicationsRecovered
    MaxSamples   \* bound: length of the series

Digit == {"0", "1", "2", "3", "4", "5", "6", "7", "8", "9"}

\* What the mapping rests on: an ID has digits only, and no two IDs the same.
ASSUME DigitsAssumption ==
    /\ \A b \in Brokers : Digits[b] \in Seq(Digit) /\ Digits[b] # <<>>
    /\ \A a, b \in Brokers : Digits[a] = Digits[b] => a = b

ASSUME DetectorsAssumption ==
    /\ Brokers \subseteq Nat
    /\ IsFiniteSet(Brokers) /\ IsFiniteSet(Partitions) /\ Partitions # {}
    /\ Minute \in Nat \ {0} /\ StableFor \in Nat \ {0} /\ MaxSamples \in Nat

VARIABLES
    config,    \* the fields of the configuration that matter here
    subject,   \* what a behaviour is about: "cluster", "pods" or "series"
    replicas,  \* the brokers of each partition
    isr,       \* those of them in sync
    leader,    \* of each partition, or None
    up,        \* the brokers the controller takes for alive
    pods,      \* the brokers whose pod is listed
    ready,     \* those of them whose pod is Running and Ready
    labels,    \* a broker pod's identity: in "name", "id" or "both" labels
    series,    \* samples since the fault
    badAt      \* history: instant of the latest bad sample, or None

clusterVars == <<replicas, isr, leader, up>>
podVars == <<pods, ready, labels>>
seriesVars == <<series, badAt>>
vars == <<config, subject, clusterVars, podVars, seriesVars>>

None == -1
NoName == <<>>

\* Validate: each profile fixes its replication, and the window is a minute.
Configurations ==
    [profile : {"A", "B", "C"}, replication : 1 .. 3, window : {0, Minute}]

Valid(c) ==
    /\ c.profile \in {"A", "B"}
    /\ c.profile = "A" => c.replication = 1
    /\ c.profile = "B" => c.replication = 3
    /\ c.window = Minute
-----------------------------------------------------------------------------
(***************************************************************************)
(* kafkaadmin: a topic as its metadata show it                             *)
(***************************************************************************)
\* Mutant: a partition whose last replica is lost has its ISR, hence a leader.
LeaderlessWithoutISR == {p \in Partitions : leader[p] = None /\ isr[p] # replicas[p]}

Leaderless == {p \in Partitions : leader[p] = None}

UnderReplicated == {p \in Partitions : Cardinality(isr[p]) < Cardinality(replicas[p])}

TopicState ==
    [leaderlessPartitions |-> Cardinality(Leaderless),
     underReplicated |-> Cardinality(UnderReplicated)]

\* fault.go: the ISR of every partition, and its leader, are back.
AllISRRecovered ==
    /\ Partitions # {}
    /\ \A p \in Partitions :
          leader[p] >= 0 /\ Cardinality(isr[p]) = Cardinality(replicas[p])

\* observeRecovery's condition for the Kafka milestone.
KafkaReady ==
    /\ TopicState.leaderlessPartitions = 0
    /\ TopicState.underReplicated = 0
    /\ AllISRRecovered

\* recovery.go, for a sample of one partition of the topic.
ClusterRecovered(p) ==
    /\ TopicState.leaderlessPartitions = 0
    /\ TopicState.underReplicated = 0
    /\ Cardinality(isr[p]) = Cardinality(replicas[p])

\* PartitionLeader returns an error without a leader.
HasLeader(p) == leader[p] >= 0
-----------------------------------------------------------------------------
(***************************************************************************)
(* kubernetes: from a broker ID to its pod                                 *)
(***************************************************************************)
\* Strimzi names a pod <cluster>-<pool>-<number>; a label that is missing reads
\* as the empty string.
NameOf(pool, b) == <<"experiment", "-", pool, "-">> \o Digits[b]

PodOf(b) ==
    [name |-> NameOf("brokers", b), pool |-> "brokers", broker |-> TRUE, controller |-> FALSE,
     brokerId |-> IF labels[b] \in {"id", "both"} THEN Digits[b] ELSE <<>>,
     podName |-> IF labels[b] \in {"name", "both"} THEN NameOf("brokers", b) ELSE <<>>,
     ready |-> b \in ready]

\* A controller's pod may end in the number of a broker.
ControllerPod(b) ==
    [name |-> NameOf("controllers", b), pool |-> "controllers", broker |-> FALSE,
     controller |-> TRUE, brokerId |-> Digits[b], podName |-> NameOf("controllers", b),
     ready |-> TRUE]

Listed == {PodOf(b) : b \in pods} \cup {ControllerPod(b) : b \in Brokers}

Strings == INSTANCE SequencesExt

\* Mutant: the suffix is compared without its hyphen.
IdentifiesByDigits(pod, id) ==
    \/ pod.brokerId = Digits[id]
    \/ pod.podName = pod.name /\ Strings!IsSuffix(Digits[id], pod.name)

\* The broker-id label is the ID, or the pod-name label is the pod's name and
\* the name ends in a hyphen and the ID.
Identifies(pod, id) ==
    \/ pod.brokerId = Digits[id]
    \/ pod.podName = pod.name /\ Strings!IsSuffix(<<"-">> \o Digits[id], pod.name)

\* The name of the one pod that matches; otherwise an error.
BrokerPod(id) ==
    LET matches == {pod \in Listed : /\ pod.pool = "brokers" /\ pod.broker /\ ~pod.controller
                                     /\ Identifies(pod, id)}
    IN  IF Cardinality(matches) = 1 THEN (CHOOSE pod \in matches : TRUE).name ELSE NoName

\* The pod of that name is looked up again, and has to be Running and Ready.
MapBrokerPod(id) ==
    IF \E pod \in Listed : pod.name = BrokerPod(id) /\ pod.ready THEN BrokerPod(id) ELSE NoName
-----------------------------------------------------------------------------
(***************************************************************************)
(* recovery.go: detectors over a series of samples                         *)
(***************************************************************************)
Last == series[Len(series)]
Span == Last.at - series[1].at

ApplicationsRecovered ==
    /\ Len(series) >= 2
    /\ Span >= StableFor
    /\ \A i \in 2 .. Len(series) :
          /\ series[i].acknowledgements > series[i - 1].acknowledgements
          /\ series[i].consumed > series[i - 1].consumed

\* Mutant: the sample exactly one window old is not looked at.
PerformanceRecoveredAfterCutoff(window) ==
    /\ series # <<>>
    /\ window = Minute
    /\ Span >= window
    /\ \A i \in 1 .. Len(series) : series[i].at <= Last.at - window \/ series[i].good

\* good: throughput, latency and lag are within the limits of the baseline.
PerformanceRecovered(window) ==
    /\ series # <<>>
    /\ window = Minute
    /\ Span >= window
    /\ \A i \in 1 .. Len(series) : series[i].at < Last.at - window \/ series[i].good
-----------------------------------------------------------------------------
(***************************************************************************)
(* The subjects (external)                                                 *)
(***************************************************************************)
Init ==
    /\ config \in {c \in Configurations : Valid(c)}
    /\ subject \in {"cluster", "pods", "series"}
    /\ replicas \in [Partitions -> {r \in SUBSET Brokers : Cardinality(r) = config.replication}]
    /\ isr = replicas
    /\ leader \in [Partitions -> Brokers]
    /\ \A p \in Partitions : leader[p] \in replicas[p]
    /\ up = Brokers
    /\ pods = Brokers
    /\ ready = Brokers
    /\ labels \in [Brokers -> IF subject = "pods" THEN {"name", "id", "both"} ELSE {"both"}]
    /\ series = <<>>
    /\ badAt = None

\* The controller notices the loss of a broker: it leaves every ISR but those
\* it is the last member of, and another member leads.
BrokerFails(b) ==
    /\ subject = "cluster"
    /\ b \in up
    /\ up' = up \ {b}
    /\ isr' = [p \in Partitions |-> IF isr[p] = {b} THEN {b} ELSE isr[p] \ {b}]
    /\ \E next \in [Partitions -> Brokers \cup {None}] :
          /\ \A p \in Partitions :
                next[p] \in IF leader[p] # b THEN {leader[p]}
                            ELSE IF isr[p] = {b} THEN {None} ELSE isr[p] \ {b}
          /\ leader' = next
    /\ UNCHANGED <<config, subject, replicas, podVars, seriesVars>>

\* It leads again where it was the last member, and catches up elsewhere.
BrokerReturns(b) ==
    /\ subject = "cluster"
    /\ b \in Brokers \ up
    /\ up' = up \cup {b}
    /\ leader' = [p \in Partitions |-> IF isr[p] = {b} THEN b ELSE leader[p]]
    /\ UNCHANGED <<config, subject, replicas, isr, podVars, seriesVars>>

CatchUp(p, b) ==
    /\ subject = "cluster"
    /\ b \in up \cap replicas[p]
    /\ leader[p] # None
    /\ b \notin isr[p]
    /\ isr' = [isr EXCEPT ![p] = @ \cup {b}]
    /\ UNCHANGED <<config, subject, replicas, leader, up, podVars, seriesVars>>

PodChanges(b) ==
    /\ subject = "pods"
    /\ \/ b \in ready /\ ready' = ready \ {b} /\ pods' \in {pods, pods \ {b}}
       \/ b \notin ready /\ pods' = pods \cup {b} /\ ready' \in {ready, ready \cup {b}}
    /\ UNCHANGED <<config, subject, clusterVars, labels, seriesVars>>

NewSample ==
    /\ subject = "series"
    /\ Len(series) < MaxSamples
    /\ \E good \in BOOLEAN, pause \in 1 .. 2, acked, processed \in 0 .. 1 :
          LET sample == IF series = <<>>
                        THEN [at |-> 0, good |-> good, acknowledgements |-> 0, consumed |-> 0]
                        ELSE [at |-> Last.at + pause, good |-> good,
                              acknowledgements |-> Last.acknowledgements + acked,
                              consumed |-> Last.consumed + processed]
          IN  /\ series' = Append(series, sample)
              /\ badAt' = IF good THEN badAt ELSE sample.at
    /\ UNCHANGED <<config, subject, clusterVars, podVars>>

Next ==
    \/ \E b \in Brokers : BrokerFails(b) \/ BrokerReturns(b) \/ PodChanges(b)
    \/ \E p \in Partitions, b \in Brokers : CatchUp(p, b)
    \/ NewSample

Spec == Init /\ [][Next]_vars
-----------------------------------------------------------------------------
\* A topic that looks recovered, to the observer or to the detector, is one
\* whose every replica is on a live broker and in sync.  With one replica
\* neither the ISR nor the under-replicated count shows the loss: a partition
\* keeps its last member, and only the missing leader tells.
HealthyMeansServing ==
    /\ KafkaReady => \A p \in Partitions : replicas[p] \subseteq up /\ isr[p] = replicas[p]
    /\ KafkaReady <=> \A p \in Partitions : ClusterRecovered(p)

\* The pod a fault would delete for a partition is the leader's own broker pod,
\* although its name may end in the digits of another broker's (11 and 1) and a
\* controller's in the same ones, and whichever label identifies it; it is found
\* exactly when it is Running and Ready.
MappingFindsTheLeader ==
    \A p \in Partitions :
        HasLeader(p) =>
            MapBrokerPod(leader[p]) =
                IF leader[p] \in ready THEN NameOf("brokers", leader[p]) ELSE NoName

\* The window detector answers yes exactly when the series spans a window and
\* its latest bad sample lies more than a window back; the application detector
\* only when both counters have grown in every interval.
SeriesVerdictsAreEarned ==
    /\ PerformanceRecovered(config.window) <=>
          /\ series # <<>>
          /\ Span >= Minute
          /\ badAt = None \/ Last.at - badAt > Minute
    /\ ApplicationsRecovered =>
          /\ Last.at >= StableFor
          /\ Last.acknowledgements >= Len(series) - 1
          /\ Last.consumed >= Len(series) - 1
=============================================================================
