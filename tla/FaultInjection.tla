--------------------------- MODULE FaultInjection ---------------------------
(***************************************************************************)
(* The way of a fault experiment to the deletion of a broker pod           *)
(* (internal/experiment/fault.go: runFault, revalidateDeletion,            *)
(* injectFault), for several runners in one cluster.  Every read of Kafka  *)
(* or Kubernetes is a step of its own: brokers restart and partitions      *)
(* change their leader in between.                                         *)
(*                                                                         *)
(* Each run has a topic of its own; the partition meant is its partition   *)
(* 0.  Brokers, their pods and the status that Kubernetes keeps of the     *)
(* runners' pods are external.                                             *)
(***************************************************************************)
EXTENDS Naturals

CONSTANTS
    Runners,      \* pods of fault experiments, each one run
    Brokers,      \* broker ids; the pod of a broker keeps its name
    NoBroker,     \* the leader of a leaderless partition
    MaxRestarts   \* bound: restarts of a broker pod

ASSUME InjectionAssumption ==
    /\ NoBroker \notin Brokers
    /\ MaxRestarts \in Nat

VARIABLES
    dryRun,   \* options.DryRun: the runs that are to delete nothing
    uid,      \* the UID of a broker's current (or last) pod: its generation
    pod,      \* "ready", "starting" or "absent"
    leader,   \* the leader of a run's partition
    status,   \* phase of a runner's pod: "pending", "running", "finished"
    pc,       \* where a runner is
    target,   \* plan: BrokerID, and with it the pod's name
    planned,  \* plan: plannedPodUID
    moved,    \* history: runs whose partition changed its leader since the check
    replaced, \* history: runs whose target got a new pod since it was checked
    deleted   \* history: the UID of the pod a run deleted, 0 if none

clusterVars == <<uid, pod, leader>>
planVars == <<dryRun, target, planned>>
historyVars == <<moved, replaced, deleted>>
vars == <<clusterVars, status, pc, planVars, historyVars>>

Init ==
    /\ dryRun \in SUBSET Runners
    /\ uid = [b \in Brokers |-> 1]
    /\ pod = [b \in Brokers |-> "ready"]
    /\ leader \in [Runners -> Brokers]
    /\ status = [r \in Runners |-> "pending"]
    /\ pc = [r \in Runners |-> "created"]
    /\ target = [r \in Runners |-> NoBroker]
    /\ planned = [r \in Runners |-> 0]
    /\ moved = {}
    /\ replaced = {}
    /\ deleted = [r \in Runners |-> 0]
-----------------------------------------------------------------------------
(***************************************************************************)
(* The cluster (external)                                                  *)
(***************************************************************************)
PodChecked(r) == pc[r] \in {"pod checked", "cleared", "confirmed"}
LeaderChecked(r) == pc[r] = "leader checked" \/ PodChecked(r)

PodStops(b) ==
    /\ pod[b] # "absent"
    /\ uid[b] <= MaxRestarts
    /\ pod' = [pod EXCEPT ![b] = "absent"]
    /\ UNCHANGED <<uid, leader, status, pc, planVars, historyVars>>

\* The controller creates a pod with the same name and a new UID.
PodCreated(b) ==
    /\ pod[b] = "absent"
    /\ pod' = [pod EXCEPT ![b] = "starting"]
    /\ uid' = [uid EXCEPT ![b] = @ + 1]
    /\ replaced' = replaced \cup {r \in Runners : PodChecked(r) /\ target[r] = b}
    /\ UNCHANGED <<leader, status, pc, planVars, moved, deleted>>

PodBecomesReady(b) ==
    /\ pod[b] = "starting"
    /\ pod' = [pod EXCEPT ![b] = "ready"]
    /\ UNCHANGED <<uid, leader, status, pc, planVars, historyVars>>

LeaderChanges(r) ==
    /\ \E b \in {c \in Brokers : pod[c] = "ready"} \cup {NoBroker} :
          /\ leader[r] # b
          /\ leader' = [leader EXCEPT ![r] = b]
    /\ moved' = IF LeaderChecked(r) THEN moved \cup {r} ELSE moved
    /\ UNCHANGED <<uid, pod, status, pc, planVars, replaced, deleted>>

\* Kubernetes reports that the runner's container runs ...
RunnerReported(r) ==
    /\ status[r] = "pending"
    /\ pc[r] # "created"
    /\ status' = [status EXCEPT ![r] = "running"]
    /\ UNCHANGED <<clusterVars, pc, planVars, historyVars>>

\* ... and that it has ended.
RunnerEnded(r) ==
    /\ status[r] # "finished"
    /\ pc[r] = "ended"
    /\ status' = [status EXCEPT ![r] = "finished"]
    /\ UNCHANGED <<clusterVars, pc, planVars, historyVars>>
-----------------------------------------------------------------------------
(***************************************************************************)
(* A runner                                                                *)
(***************************************************************************)
Goto(r, place) == pc' = [pc EXCEPT ![r] = place]

\* Any call that returns an error ends the run.
Fail(r) ==
    /\ pc[r] \notin {"created", "ended"}
    /\ Goto(r, "ended")
    /\ UNCHANGED <<clusterVars, status, planVars, historyVars>>

\* validateKafkaReady: some broker pod is listed and every listed one is ready.
KafkaReady ==
    LET listed == {b \in Brokers : pod[b] # "absent"}
    IN  listed # {} /\ \A b \in listed : pod[b] = "ready"

ValidateKafka(r) ==
    /\ pc[r] = "created"
    /\ Goto(r, IF KafkaReady THEN "preparing" ELSE "ended")
    /\ UNCHANGED <<clusterVars, status, planVars, historyVars>>

\* prepareFaultSession: topic, applications, warm-up and baseline.  They take
\* minutes: by then Kubernetes has reported that the runner's pod runs.
Prepare(r) ==
    /\ pc[r] = "preparing"
    /\ status[r] = "running"
    /\ Goto(r, "prepared")
    /\ UNCHANGED <<clusterVars, status, planVars, historyVars>>

\* Mutant: a leaderless partition is not refused.
DiscoverAnyLeader(r) ==
    /\ pc[r] = "prepared"
    /\ target' = [target EXCEPT ![r] = leader[r]]
    /\ Goto(r, "discovered")
    /\ UNCHANGED <<clusterVars, status, dryRun, planned, historyVars>>

\* TopicState and PartitionLeader; a leaderless partition ends the run (Fail).
DiscoverLeader(r) ==
    /\ pc[r] = "prepared"
    /\ leader[r] # NoBroker
    /\ target' = [target EXCEPT ![r] = leader[r]]
    /\ Goto(r, "discovered")
    /\ UNCHANGED <<clusterVars, status, dryRun, planned, historyVars>>

\* ListPods and MapBrokerPod: the one pod of that broker, which must be ready.
MapPod(r) ==
    /\ pc[r] = "discovered"
    /\ pod[target[r]] = "ready"
    /\ planned' = [planned EXCEPT ![r] = uid[target[r]]]
    /\ Goto(r, "planned")
    /\ UNCHANGED <<clusterVars, status, dryRun, target, historyVars>>

\* DryRun: analyse and return, nothing is deleted.
EndDryRun(r) ==
    /\ pc[r] = "planned"
    /\ r \in dryRun
    /\ Goto(r, "ended")
    /\ UNCHANGED <<clusterVars, status, planVars, historyVars>>

\* Mutant: the leader is not asked for again.
SkipLeaderCheck(r) ==
    /\ pc[r] = "planned"
    /\ r \notin dryRun
    /\ Goto(r, "leader checked")
    /\ UNCHANGED <<clusterVars, status, planVars, historyVars>>

\* revalidateDeletion: identity and authorization, PartitionLeader ...
CheckLeader(r) ==
    /\ pc[r] = "planned"
    /\ r \notin dryRun
    /\ Goto(r, IF leader[r] = target[r] THEN "leader checked" ELSE "ended")
    /\ UNCHANGED <<clusterVars, status, planVars, historyVars>>

\* Mutant: the pod is checked by name only.
CheckPodByName(r) ==
    /\ pc[r] = "leader checked"
    /\ Goto(r, IF pod[target[r]] = "ready" THEN "pod checked" ELSE "ended")
    /\ UNCHANGED <<clusterVars, status, planVars, historyVars>>

\* ... GetPod by name ...
CheckPod(r) ==
    /\ pc[r] = "leader checked"
    /\ Goto(r, IF pod[target[r]] = "ready" /\ uid[target[r]] = planned[r]
               THEN "pod checked" ELSE "ended")
    /\ UNCHANGED <<clusterVars, status, planVars, historyVars>>

\* Mutant: runners whose pod is not reported yet count, running ones do not.
CheckPendingRunners(r) ==
    /\ pc[r] = "pod checked"
    /\ Goto(r, IF \E s \in Runners \ {r} : status[s] = "pending" THEN "ended" ELSE "cleared")
    /\ UNCHANGED <<clusterVars, status, planVars, historyVars>>

\* ... and ListPods of the other fault runners.
CheckRunners(r) ==
    /\ pc[r] = "pod checked"
    /\ Goto(r, IF \E s \in Runners \ {r} : status[s] = "running" THEN "ended" ELSE "cleared")
    /\ UNCHANGED <<clusterVars, status, planVars, historyVars>>

\* The timeline records the plan and the request before the deletion.
Confirm(r) ==
    /\ pc[r] = "cleared"
    /\ Goto(r, "confirmed")
    /\ UNCHANGED <<clusterVars, status, planVars, historyVars>>

\* DeletePod deletes whatever pod has the name; it fails if there is none.
Delete(r) ==
    /\ pc[r] = "confirmed"
    /\ IF pod[target[r]] = "absent"
       THEN /\ Goto(r, "ended")
            /\ UNCHANGED <<pod, deleted>>
       ELSE /\ Goto(r, "observing")
            /\ pod' = [pod EXCEPT ![target[r]] = "absent"]
            /\ deleted' = [deleted EXCEPT ![r] = uid[target[r]]]
    /\ UNCHANGED <<uid, leader, status, planVars, moved, replaced>>

\* observeRecovery, the analysis and the snapshots; then the run ends.
Observe(r) ==
    /\ pc[r] = "observing"
    /\ Goto(r, "ended")
    /\ UNCHANGED <<clusterVars, status, planVars, historyVars>>
-----------------------------------------------------------------------------
Cluster ==
    \/ \E b \in Brokers : PodStops(b) \/ PodCreated(b) \/ PodBecomesReady(b)
    \/ \E r \in Runners : LeaderChanges(r) \/ RunnerReported(r) \/ RunnerEnded(r)

Runner(r) ==
    \/ Fail(r)
    \/ ValidateKafka(r)
    \/ Prepare(r)
    \/ DiscoverLeader(r)
    \/ MapPod(r)
    \/ EndDryRun(r)
    \/ CheckLeader(r)
    \/ CheckPod(r)
    \/ CheckRunners(r)
    \/ Confirm(r)
    \/ Delete(r)
    \/ Observe(r)

Next == Cluster \/ \E r \in Runners : Runner(r)

Spec == Init /\ [][Next]_vars
-----------------------------------------------------------------------------
Places == {"created", "preparing", "prepared", "discovered", "planned", "leader checked",
           "pod checked", "cleared", "confirmed", "observing", "ended"}

\* A run that has gone past the discovery of the leader and not ended.
HasTarget(r) ==
    pc[r] \in Places \ {"created", "preparing", "prepared", "ended"}

\* Every variable has its type, and a run past the discovery has a broker as
\* its target, never "no leader" (the check of LeaderlessPartitions).
TypeOK ==
    /\ dryRun \subseteq Runners
    /\ uid \in [Brokers -> Nat]
    /\ pod \in [Brokers -> {"ready", "starting", "absent"}]
    /\ leader \in [Runners -> Brokers \cup {NoBroker}]
    /\ status \in [Runners -> {"pending", "running", "finished"}]
    /\ pc \in [Runners -> Places]
    /\ target \in [Runners -> Brokers \cup {NoBroker}]
    /\ \A r \in Runners : HasTarget(r) => target[r] \in Brokers
    /\ planned \in [Runners -> Nat]
    /\ moved \subseteq Runners
    /\ replaced \subseteq Runners
    /\ deleted \in [Runners -> Nat]

\* A run that may delete its broker, or has and is observing the recovery.
Injecting(r) == pc[r] \in {"cleared", "confirmed", "observing"}

\* No two experiments inject a fault at once: from the moment
\* revalidateDeletion clears a run until that run ends no other is cleared.
OneFaultAtATime ==
    \A r, s \in Runners : Injecting(r) /\ Injecting(s) => r = s

\* injectFault deletes the very pod of the plan (same UID), unless that pod was
\* replaced after the last check; and a dry run deletes nothing.
DeletesPlannedPod ==
    \A r \in Runners : deleted[r] # 0 =>
        /\ r \notin dryRun
        /\ deleted[r] = planned[r] \/ r \in replaced

\* injectFault deletes the leader of the run's partition, unless the partition
\* changed its leader after revalidateDeletion asked for it.
DeletesLeader ==
    [][\A r \in Runners : deleted'[r] # deleted[r] =>
          leader[r] = target[r] \/ r \in moved]_vars
=============================================================================
