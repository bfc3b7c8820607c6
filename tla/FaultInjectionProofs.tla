------------------------- MODULE FaultInjectionProofs -------------------------
(***************************************************************************)
(* Theorems about FaultInjection, for any number of runners and brokers    *)
(* and any number of restarts: at most one fault at a time, and what a     *)
(* runner deletes is the pod and the leader it checked.                    *)
(***************************************************************************)
EXTENDS FaultInjection, TLAPS

\* Kubernetes lists a run that is past its preparation as running until the
\* run has ended: what makes the check of the other runners conclusive.
Past(r) == pc[r] \notin {"created", "preparing", "ended"}
ListedAsRunning == \A r \in Runners : Past(r) => status[r] = "running"

\* Only an authorized run gets past the plan, and only such a run deletes.
Revalidating(r) == LeaderChecked(r) \/ pc[r] = "observing"
RealRunsRevalidate == \A r \in Runners : Revalidating(r) => r \notin dryRun
DeletionIsLast ==
    \A r \in Runners : deleted[r] # 0 => pc[r] \in {"observing", "ended"}

\* What a check found still holds, or the history says that it changed.
PodAsChecked ==
    \A r \in Runners : PodChecked(r) => uid[target[r]] = planned[r] \/ r \in replaced
LeaderAsChecked ==
    \A r \in Runners : LeaderChecked(r) => leader[r] = target[r] \/ r \in moved

IInv ==
    /\ TypeOK
    /\ ListedAsRunning
    /\ OneFaultAtATime
    /\ RealRunsRevalidate
    /\ DeletionIsLast
    /\ PodAsChecked
    /\ LeaderAsChecked
    /\ DeletesPlannedPod
-----------------------------------------------------------------------------
\* The first state satisfies the inductive invariant.
LEMMA InitIInv == Init => IInv
  BY InjectionAssumption
  DEF Init, IInv, TypeOK, Places, HasTarget, ListedAsRunning, Past, OneFaultAtATime, Injecting,
      RealRunsRevalidate, Revalidating, DeletionIsLast, PodAsChecked, PodChecked,
      LeaderAsChecked, LeaderChecked, DeletesPlannedPod

\* A new pod has a new generation.
LEMMA NextGeneration == ASSUME NEW n \in Nat PROVE n + 1 \in Nat
  OBVIOUS

\* Every step keeps every variable in its type.
LEMMA TypeStep == TypeOK /\ [Next]_vars => TypeOK'
<1> SUFFICES ASSUME TypeOK, [Next]_vars
             PROVE  TypeOK'
  OBVIOUS
<1> USE InjectionAssumption DEF TypeOK, Places, HasTarget, planVars, historyVars, clusterVars
<1>1. ASSUME NEW b \in Brokers, PodStops(b) \/ PodCreated(b) \/ PodBecomesReady(b)
      PROVE  TypeOK'
  <2>1. CASE PodStops(b)
    BY <2>1 DEF PodStops
  <2>2. CASE PodCreated(b)
    <3>1. uid' \in [Brokers -> Nat] /\ pod' \in [Brokers -> {"ready", "starting", "absent"}]
      <4>1. uid' = [uid EXCEPT ![b] = uid[b] + 1]
        BY <2>2 DEF PodCreated
      <4>3. uid[b] \in Nat
        OBVIOUS
      <4>4. uid[b] + 1 \in Nat
        BY <4>3, NextGeneration
      <4>2. pod' = [pod EXCEPT ![b] = "starting"]
        BY <2>2 DEF PodCreated
      <4> QED
        BY <4>1, <4>2, <4>4
    <3>2. replaced' \subseteq Runners
      BY <2>2 DEF PodCreated
    <3> QED
      BY <2>2, <3>1, <3>2 DEF PodCreated
  <2>3. CASE PodBecomesReady(b)
    BY <2>3 DEF PodBecomesReady
  <2> QED
    BY <1>1, <2>1, <2>2, <2>3
<1>2. ASSUME NEW r \in Runners, LeaderChanges(r)
      PROVE  TypeOK'
  BY <1>2, ZenonT(60) DEF LeaderChanges
<1>3. ASSUME NEW r \in Runners, RunnerReported(r) \/ RunnerEnded(r)
      PROVE  TypeOK'
  BY <1>3 DEF RunnerReported, RunnerEnded
<1>4. ASSUME NEW r \in Runners, Fail(r) \/ ValidateKafka(r) \/ Prepare(r)
      PROVE  TypeOK'
  BY <1>4 DEF Fail, ValidateKafka, Prepare, Goto
<1>5. ASSUME NEW r \in Runners, DiscoverLeader(r)
      PROVE  TypeOK'
  BY <1>5 DEF DiscoverLeader, Goto
<1>6. ASSUME NEW r \in Runners, MapPod(r) \/ EndDryRun(r) \/ CheckLeader(r)
      PROVE  TypeOK'
  <2>1. CASE MapPod(r)
    <3>1. planned' \in [Runners -> Nat]
      BY <2>1 DEF MapPod
    <3> QED
      BY <2>1, <3>1 DEF MapPod, Goto
  <2>2. CASE EndDryRun(r) \/ CheckLeader(r)
    BY <2>2 DEF EndDryRun, CheckLeader, Goto
  <2> QED
    BY <1>6, <2>1, <2>2
<1>7. ASSUME NEW r \in Runners, CheckPod(r) \/ CheckRunners(r) \/ Confirm(r) \/ Observe(r)
      PROVE  TypeOK'
  BY <1>7 DEF CheckPod, CheckRunners, Confirm, Observe, Goto
<1>8. ASSUME NEW r \in Runners, Delete(r)
      PROVE  TypeOK'
  <2>1. CASE pod[target[r]] = "absent"
    BY <1>8, <2>1 DEF Delete, Goto
  <2>2. CASE pod[target[r]] # "absent"
    <3>1. target[r] \in Brokers /\ uid[target[r]] \in Nat
      BY <1>8 DEF Delete
    <3>2. deleted' \in [Runners -> Nat]
      <4>1. deleted' = [deleted EXCEPT ![r] = uid[target[r]]]
        BY <1>8, <2>2 DEF Delete
      <4> QED
        BY <3>1, <4>1
    <3>3. pod' \in [Brokers -> {"ready", "starting", "absent"}]
      <4>1. pod' = [pod EXCEPT ![target[r]] = "absent"]
        BY <1>8, <2>2 DEF Delete
      <4> QED
        BY <3>1, <4>1
    <3> QED
      BY <1>8, <2>2, <3>2, <3>3, ZenonT(60) DEF Delete, Goto
  <2> QED
    BY <2>1, <2>2
<1>9. CASE UNCHANGED vars
  BY <1>9 DEF vars
<1> QED
  BY <1>1, <1>2, <1>3, <1>4, <1>5, <1>6, <1>7, <1>8, <1>9 DEF Next, Cluster, Runner

\* What a run's own step does to its place, and that it leaves the others alone.
LEMMA RunnerMoves ==
  ASSUME TypeOK, NEW r \in Runners, Runner(r)
  PROVE  /\ pc' = [pc EXCEPT ![r] = pc'[r]]
         /\ status' = status
         /\ dryRun' = dryRun
         /\ leader' = leader
         /\ uid' = uid
         /\ moved' = moved
         /\ replaced' = replaced
  BY DEF TypeOK, Runner, Fail, ValidateKafka, Prepare, DiscoverLeader, MapPod, EndDryRun,
         CheckLeader, CheckPod, CheckRunners, Confirm, Delete, Observe, Goto,
         planVars, historyVars, clusterVars

\* The cluster's steps leave the runners' places and plans alone.
LEMMA ClusterKeeps ==
  ASSUME Cluster
  PROVE  /\ UNCHANGED <<pc, dryRun, target, planned, deleted>>
         /\ moved \subseteq moved'
         /\ replaced \subseteq replaced'
  BY DEF Cluster, PodStops, PodCreated, PodBecomesReady, LeaderChanges, RunnerReported,
         RunnerEnded, planVars, historyVars, clusterVars
-----------------------------------------------------------------------------
\* A run past its preparation stays listed as running.
LEMMA ListedStep == TypeOK /\ ListedAsRunning /\ [Next]_vars => ListedAsRunning'
<1> SUFFICES ASSUME TypeOK, ListedAsRunning, [Next]_vars
             PROVE  ListedAsRunning'
  OBVIOUS
<1> USE DEF ListedAsRunning, Past
<1>1. CASE Cluster
  <2>1. pc' = pc
    BY <1>1, ClusterKeeps
  <2>2. ASSUME NEW r \in Runners, RunnerReported(r) \/ RunnerEnded(r)
        PROVE  ListedAsRunning'
    BY <2>1, <2>2 DEF RunnerReported, RunnerEnded, TypeOK
  <2>3. ASSUME status' = status
        PROVE  ListedAsRunning'
    BY <2>1, <2>3
  <2> QED
    BY <1>1, <2>2, <2>3 DEF Cluster, PodStops, PodCreated, PodBecomesReady, LeaderChanges
<1>2. ASSUME NEW r \in Runners, Runner(r)
      PROVE  ListedAsRunning'
  <2>1. pc' = [pc EXCEPT ![r] = pc'[r]] /\ status' = status
    BY <1>2, RunnerMoves
  <2>2. Past(r)' => Past(r) \/ Prepare(r)
    BY <1>2 DEF Runner, Fail, ValidateKafka, DiscoverLeader, MapPod, EndDryRun, CheckLeader,
                CheckPod, CheckRunners, Confirm, Delete, Observe, Goto, TypeOK
  <2> QED
    BY <2>1, <2>2 DEF TypeOK, Prepare
<1>3. CASE UNCHANGED vars
  BY <1>3 DEF vars
<1> QED
  BY <1>1, <1>2, <1>3 DEF Next

\* Only CheckRunners makes a run one that injects, and it finds no other.
LEMMA OneFaultStep ==
  TypeOK /\ ListedAsRunning /\ OneFaultAtATime /\ [Next]_vars => OneFaultAtATime'
<1> SUFFICES ASSUME TypeOK, ListedAsRunning, OneFaultAtATime, [Next]_vars
             PROVE  OneFaultAtATime'
  OBVIOUS
<1>1. CASE Cluster \/ UNCHANGED vars
  BY <1>1, ClusterKeeps DEF OneFaultAtATime, Injecting, vars
<1>2. ASSUME NEW r \in Runners, Runner(r)
      PROVE  OneFaultAtATime'
  <2>1. pc' = [pc EXCEPT ![r] = pc'[r]]
    BY <1>2, RunnerMoves
  <2>2. CASE Injecting(r)' => Injecting(r)
    BY <2>1, <2>2 DEF OneFaultAtATime, Injecting, TypeOK
  <2>3. CASE CheckRunners(r) /\ Injecting(r)'
    <3>1. \A s \in Runners \ {r} : status[s] # "running"
      BY <2>3 DEF CheckRunners, Injecting, Goto, TypeOK
    <3>2. \A s \in Runners \ {r} : ~Injecting(s)
      BY <3>1 DEF ListedAsRunning, Past, Injecting
    <3>3. \A s \in Runners \ {r} : ~Injecting(s)'
      BY <2>1, <3>2 DEF Injecting, TypeOK
    <3> QED
      BY <3>3 DEF OneFaultAtATime
  <2> QED
    BY <1>2, <2>2, <2>3
    DEF Runner, Fail, ValidateKafka, Prepare, DiscoverLeader, MapPod, EndDryRun, CheckLeader,
        CheckPod, Confirm, Delete, Observe, Goto, Injecting, TypeOK
<1> QED
  BY <1>1, <1>2 DEF Next

\* A run gets past the plan only if it is no dry run, and ends after deleting.
LEMMA AuthorizedStep ==
  TypeOK /\ RealRunsRevalidate /\ DeletionIsLast /\ [Next]_vars
    => RealRunsRevalidate' /\ DeletionIsLast'
<1> SUFFICES ASSUME TypeOK, RealRunsRevalidate, DeletionIsLast, [Next]_vars
             PROVE  RealRunsRevalidate' /\ DeletionIsLast'
  OBVIOUS
<1> USE DEF RealRunsRevalidate, DeletionIsLast, Revalidating, LeaderChecked, PodChecked
<1>1. CASE Cluster \/ UNCHANGED vars
  BY <1>1, ClusterKeeps DEF vars, planVars, historyVars, clusterVars
<1>2. ASSUME NEW r \in Runners, Runner(r)
      PROVE  RealRunsRevalidate' /\ DeletionIsLast'
  <2>1. pc' = [pc EXCEPT ![r] = pc'[r]] /\ dryRun' = dryRun
    BY <1>2, RunnerMoves
  <2>2. Revalidating(r)' => Revalidating(r) \/ r \notin dryRun
    BY <1>2 DEF Runner, Fail, ValidateKafka, Prepare, DiscoverLeader, MapPod, EndDryRun,
                CheckLeader, CheckPod, CheckRunners, Confirm, Delete, Observe, Goto, TypeOK
  <2>3. RealRunsRevalidate'
    BY <2>1, <2>2 DEF TypeOK
  <2>4. deleted' = deleted \/ Delete(r)
    BY <1>2 DEF Runner, Fail, ValidateKafka, Prepare, DiscoverLeader, MapPod, EndDryRun,
                CheckLeader, CheckPod, CheckRunners, Confirm, Observe, historyVars
  <2>5. deleted[r] # 0 => pc'[r] \in {"observing", "ended"}
    BY <1>2 DEF Runner, Fail, ValidateKafka, Prepare, DiscoverLeader, MapPod, EndDryRun,
                CheckLeader, CheckPod, CheckRunners, Confirm, Delete, Observe, Goto, TypeOK
  <2>6. CASE deleted' = deleted
    BY <2>1, <2>3, <2>5, <2>6 DEF TypeOK
  <2>7. CASE Delete(r)
    BY <2>1, <2>3, <2>7, ZenonT(60) DEF Delete, Goto, TypeOK
  <2> QED
    BY <2>4, <2>6, <2>7
<1> QED
  BY <1>1, <1>2 DEF Next

\* The pod a run checked is the one of the plan until the history says that
\* it was replaced.
LEMMA PodStep == TypeOK /\ PodAsChecked /\ [Next]_vars => PodAsChecked'
<1> SUFFICES ASSUME TypeOK, PodAsChecked, [Next]_vars
             PROVE  PodAsChecked'
  OBVIOUS
<1> USE DEF PodAsChecked, PodChecked
<1>1. ASSUME NEW b \in Brokers, PodCreated(b)
      PROVE  PodAsChecked'
  BY <1>1 DEF PodCreated, TypeOK, HasTarget, Places, planVars
<1>2. CASE Cluster /\ uid' = uid
  BY <1>2, ClusterKeeps
<1>3. ASSUME NEW r \in Runners, Runner(r)
      PROVE  PodAsChecked'
  <2>1. /\ pc' = [pc EXCEPT ![r] = pc'[r]]
        /\ uid' = uid
        /\ replaced' = replaced
    BY <1>3, RunnerMoves
  <2>2. ASSUME NEW s \in Runners, s # r
        PROVE  target'[s] = target[s] /\ planned'[s] = planned[s]
    BY <1>3, <2>2 DEF Runner, Fail, ValidateKafka, Prepare, DiscoverLeader, MapPod, EndDryRun,
         CheckLeader, CheckPod, CheckRunners, Confirm, Delete, Observe, planVars, TypeOK
  <2>3. PodChecked(r)' => /\ target'[r] = target[r] /\ planned'[r] = planned[r]
                          /\ PodChecked(r) \/ uid[target[r]] = planned[r]
    BY <1>3 DEF Runner, Fail, ValidateKafka, Prepare, DiscoverLeader, MapPod, EndDryRun,
         CheckLeader, CheckPod, CheckRunners, Confirm, Delete, Observe, Goto, planVars, TypeOK
  <2> QED
    BY <2>1, <2>2, <2>3, ZenonT(60) DEF TypeOK
<1>4. CASE UNCHANGED vars
  BY <1>4 DEF vars, planVars, historyVars, clusterVars
<1> QED
  BY <1>1, <1>2, <1>3, <1>4
  DEF Next, Cluster, PodStops, PodBecomesReady, LeaderChanges, RunnerReported, RunnerEnded,
      clusterVars

\* The leader a run checked is its target until the history says it changed.
LEMMA LeaderStep == TypeOK /\ LeaderAsChecked /\ [Next]_vars => LeaderAsChecked'
<1> SUFFICES ASSUME TypeOK, LeaderAsChecked, [Next]_vars
             PROVE  LeaderAsChecked'
  OBVIOUS
<1> USE DEF LeaderAsChecked, LeaderChecked, PodChecked
<1>1. ASSUME NEW r \in Runners, LeaderChanges(r)
      PROVE  LeaderAsChecked'
  BY <1>1 DEF LeaderChanges, TypeOK, planVars
<1>2. CASE Cluster /\ leader' = leader
  BY <1>2, ClusterKeeps
<1>3. ASSUME NEW r \in Runners, Runner(r)
      PROVE  LeaderAsChecked'
  <2>1. /\ pc' = [pc EXCEPT ![r] = pc'[r]]
        /\ leader' = leader
        /\ moved' = moved
    BY <1>3, RunnerMoves
  <2>2. ASSUME NEW s \in Runners, s # r
        PROVE  target'[s] = target[s]
    BY <1>3, <2>2 DEF Runner, Fail, ValidateKafka, Prepare, DiscoverLeader, MapPod, EndDryRun,
         CheckLeader, CheckPod, CheckRunners, Confirm, Delete, Observe, planVars, TypeOK
  <2>3. LeaderChecked(r)' => /\ target'[r] = target[r]
                             /\ LeaderChecked(r) \/ leader[r] = target[r]
    BY <1>3 DEF Runner, Fail, ValidateKafka, Prepare, DiscoverLeader, MapPod, EndDryRun,
         CheckLeader, CheckPod, CheckRunners, Confirm, Delete, Observe, Goto, planVars, TypeOK
  <2> QED
    BY <2>1, <2>2, <2>3 DEF TypeOK
<1>4. CASE UNCHANGED vars
  BY <1>4 DEF vars, planVars, historyVars, clusterVars
<1> QED
  BY <1>1, <1>2, <1>3, <1>4
  DEF Next, Cluster, PodStops, PodCreated, PodBecomesReady, RunnerReported, RunnerEnded,
      clusterVars

\* A deletion takes the pod of the plan, and later steps keep what was deleted.
LEMMA DeletionStep == IInv /\ [Next]_vars => DeletesPlannedPod'
<1> SUFFICES ASSUME IInv, [Next]_vars
             PROVE  DeletesPlannedPod'
  OBVIOUS
<1> USE DEF IInv, DeletesPlannedPod
<1>1. CASE Cluster \/ UNCHANGED vars
  BY <1>1, ClusterKeeps DEF vars, planVars, historyVars, clusterVars
<1>2. ASSUME NEW r \in Runners, Runner(r)
      PROVE  DeletesPlannedPod'
  <2>1. dryRun' = dryRun /\ replaced' = replaced
    BY <1>2, RunnerMoves
  <2>2. CASE Delete(r)
    <3>1. r \notin dryRun /\ (uid[target[r]] = planned[r] \/ r \in replaced)
      BY <2>2 DEF Delete, RealRunsRevalidate, Revalidating, LeaderChecked, PodAsChecked, PodChecked
    <3>2. planned' = planned
      BY <2>2 DEF Delete, planVars
    <3>3. deleted' = deleted \/ deleted' = [deleted EXCEPT ![r] = uid[target[r]]]
      BY <2>2 DEF Delete
    <3> QED
      BY <2>1, <3>1, <3>2, <3>3 DEF TypeOK
  <2>3. CASE MapPod(r)
    <3>1. deleted[r] = 0
      BY <2>3 DEF MapPod, DeletionIsLast
    <3>2. deleted' = deleted /\ \A s \in Runners \ {r} : planned'[s] = planned[s]
      BY <2>3 DEF MapPod, TypeOK, historyVars
    <3> QED
      BY <2>1, <3>1, <3>2
  <2>4. CASE deleted' = deleted /\ planned' = planned
    BY <2>1, <2>4
  <2> QED
    BY <1>2, <2>2, <2>3, <2>4
    DEF Runner, Fail, ValidateKafka, Prepare, DiscoverLeader, EndDryRun, CheckLeader,
        CheckPod, CheckRunners, Confirm, Observe, planVars, historyVars
<1> QED
  BY <1>1, <1>2 DEF Next

\* The invariant is inductive.
LEMMA NextIInv == IInv /\ [Next]_vars => IInv'
  BY TypeStep, ListedStep, OneFaultStep, AuthorizedStep, PodStep, LeaderStep, DeletionStep
  DEF IInv

LEMMA Invariance == Spec => []IInv
  BY InitIInv, NextIInv, PTL DEF Spec
-----------------------------------------------------------------------------
\* Every variable keeps its type, and a run past the discovery of the leader
\* has a broker as its target.
THEOREM TypeCorrect == Spec => []TypeOK
<1>1. IInv => TypeOK
  BY DEF IInv
<1> QED
  BY <1>1, Invariance, PTL

\* However many fault experiments start in a cluster, and whatever restarts
\* meanwhile, at most one is between revalidateDeletion and its end.
THEOREM MutualExclusion == Spec => []OneFaultAtATime
<1>1. IInv => OneFaultAtATime
  BY DEF IInv
<1> QED
  BY <1>1, Invariance, PTL

\* injectFault deletes the pod of the plan, or one that replaced it between
\* the last check and the deletion; a dry run deletes nothing.
THEOREM PlannedPodDeleted == Spec => []DeletesPlannedPod
<1>1. IInv => DeletesPlannedPod
  BY DEF IInv
<1> QED
  BY <1>1, Invariance, PTL

\* injectFault deletes the leader of the run's partition, unless that changed
\* between revalidateDeletion and the deletion.
THEOREM LeaderDeleted == Spec => DeletesLeader
<1> DEFINE OfLeader == \A r \in Runners : deleted'[r] # deleted[r] =>
                          leader[r] = target[r] \/ r \in moved
<1>1. IInv /\ [Next]_vars => [OfLeader]_vars
  <2> SUFFICES ASSUME IInv, Next, NEW s \in Runners, deleted'[s] # deleted[s]
               PROVE  leader[s] = target[s] \/ s \in moved
    OBVIOUS
  <2>1. ASSUME NEW r \in Runners, Runner(r)
        PROVE  Delete(s)
    <3>1. Delete(r)
      BY <2>1 DEF Runner, Fail, ValidateKafka, Prepare, DiscoverLeader, MapPod, EndDryRun,
                  CheckLeader, CheckPod, CheckRunners, Confirm, Observe, historyVars
    <3> QED
      BY <3>1 DEF Delete, IInv, TypeOK
  <2>2. Delete(s)
    BY <2>1, ClusterKeeps DEF Next
  <2> QED
    BY <2>2 DEF Delete, IInv, LeaderAsChecked, LeaderChecked, PodChecked
<1> QED
  BY <1>1, Invariance, PTL DEF Spec, DeletesLeader
=============================================================================
