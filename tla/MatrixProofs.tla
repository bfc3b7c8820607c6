---------------------------- MODULE MatrixProofs ----------------------------
(***************************************************************************)
(* Proofs about Matrix for every number of repetitions, runs and failures: *)
(* the types, that no combination gets a second directory that passed,     *)
(* that official experiments never run in parallel when the cluster        *)
(* answers the guard, that every Job keeps the contract of a run, that the *)
(* order of the schedule is kept, and what a completed matrix has.         *)
(***************************************************************************)
EXTENDS Matrix, FiniteSetTheorems, TLAPS

\* A run that was not created yet has left nothing in data/raw.
OnlyCreatedRuns == \A r \in Runs : r > created => dir[r] = "none"

\* An experiment is for a slot of the schedule.
SlotExists ==
    pc \in {"ready", "waiting", "copying", "salvaging", "copied", "cleaning", "cleaned"}
        => slot <= Last

\* From the guard to the Job: the combination is still to be run.
SlotIsOpen == pc = "ready" => ~CombinationComplete(Scheduled(slot))

\* From the Job to the copy: the current run has no directory, and its
\* combination none that passed.
CurrentRunIsOpen ==
    pc \in {"waiting", "copying", "salvaging"} =>
        /\ created \in Runs
        /\ dir[created] = "none"
        /\ ~CombinationComplete(key[created])

\* From the copy to the next combination: there is a current run.
CurrentRunExists == pc \in {"copied", "cleaning"} => created \in Runs

\* The inductive invariant of the results.
RInv == TypeOK /\ OnlyCreatedRuns /\ SlotExists /\ SlotIsOpen
        /\ CurrentRunIsOpen /\ CurrentRunExists /\ NoDuplicateRuns

\* From the guard to the Job: no official Job is active.  With RInv's types and
\* OneOfficialJob it is inductive when the guard is always answered.
ClearedForJob == pc = "ready" => JobsEnded
-----------------------------------------------------------------------------
\* The slots of the schedule are combinations of the matrix.
LEMMA ScheduledType ==
    ASSUME NEW n \in 1 .. Last
    PROVE  Scheduled(n) \in Keys
<1> DEFINE repetition == (n - 1) \div 4 + 1
<1>1. repetition \in 1 .. Repetitions
  BY MatrixAssumption DEF Last
<1>2. QED
  BY <1>1 DEF Scheduled, Keys, Profiles, Scenarios

LEMMA InitInv == Init => RInv
BY MatrixAssumption DEF Init, RInv, TypeOK, OnlyCreatedRuns, SlotExists, SlotIsOpen,
   CurrentRunIsOpen, CurrentRunExists, NoDuplicateRuns, Directories, Places, JobStates, Statuses, NoKey, Runs

\* Every action keeps the types.
LEMMA TypeStep ==
    ASSUME TypeOK, SlotExists, CurrentRunIsOpen, CurrentRunExists, [Next]_vars
    PROVE  TypeOK' /\ SlotExists'
<1> USE MatrixAssumption
<1>1. CASE Start \/ Check
  BY <1>1 DEF Start, Check, TypeOK, SlotExists, Goto, Places, clusterVars, rawVars, Last
<1>2. CASE Skip \/ ReadyBefore \/ GuardFails
  BY <1>2 DEF Skip, ReadyBefore, GuardFails, TypeOK, SlotExists, Goto, Places, clusterVars, rawVars, Last
<1>3. CASE ReadyAfter
  BY <1>3 DEF ReadyAfter, TypeOK, SlotExists, Goto, Places, clusterVars, rawVars, Last
<1>4. CASE CreateJob
  BY <1>4, ScheduledType DEF CreateJob, TypeOK, SlotExists, Goto, Places, rawVars, Runs, JobStates, Statuses, Last
<1>5. CASE WaitJob \/ Validate
  BY <1>5 DEF WaitJob, Validate, TypeOK, SlotExists, Goto, Places, clusterVars, rawVars
<1>6. CASE WaitTimesOut \/ Interrupt
  BY <1>6 DEF WaitTimesOut, Interrupt, Disturbance, TypeOK, SlotExists, Goto, Places, clusterVars, rawVars
<1>7. CASE CopyResults
  BY <1>7 DEF CopyResults, CurrentRunIsOpen, TypeOK, SlotExists, Goto, Places, clusterVars, Statuses
<1>8. CASE CopyBreaks
  BY <1>8 DEF CopyBreaks, CurrentRunIsOpen, Disturbance, TypeOK, SlotExists, Goto, Places, clusterVars, Statuses
<1>9. CASE CleanupSuccess
  BY <1>9 DEF CleanupSuccess, CurrentRunExists, TypeOK, SlotExists, Goto, Places, rawVars, JobStates
<1>10. CASE Aggregate
  BY <1>10 DEF Aggregate, TypeOK, SlotExists, Goto, Places, clusterVars, rawVars
<1>11. ASSUME NEW r \in Runs, JobProceeds(r) \/ RunFails(r) \/ PodLost(r) PROVE TypeOK' /\ SlotExists'
  BY <1>11 DEF JobProceeds, RunPasses, JobEnds, RunFails, PodLost, Disturbance, TypeOK, SlotExists, rawVars, JobStates, Statuses
<1>12. ASSUME NEW r \in Runs, Exclude(r) PROVE TypeOK' /\ SlotExists'
  BY <1>12 DEF Exclude, TypeOK, SlotExists, clusterVars
<1>13. CASE UNCHANGED vars
  BY <1>13 DEF vars, TypeOK, SlotExists, clusterVars, rawVars
<1> QED
  BY <1>1, <1>2, <1>3, <1>4, <1>5, <1>6, <1>7, <1>8, <1>9, <1>10, <1>11, <1>12, <1>13 DEF Next, MatrixProceeds

\* A step that leaves data/raw and the runs alone keeps what is known of them.
LEMMA SameResults ==
    ASSUME UNCHANGED <<created, key, dir, excluded>>
    PROVE  /\ OnlyCreatedRuns => OnlyCreatedRuns'
           /\ NoDuplicateRuns => NoDuplicateRuns'
           /\ \A k : CombinationComplete(k)' <=> CombinationComplete(k)
           /\ \A r \in Runs : key'[r] = key[r] /\ dir'[r] = dir[r]
BY DEF OnlyCreatedRuns, NoDuplicateRuns, CombinationComplete, Directories

\* A copy puts the current run's directory into data/raw, and no other.
LEMMA CopyStep ==
    ASSUME RInv, CopyResults \/ CopyBreaks
    PROVE  RInv'
<1>1. /\ created \in Runs
      /\ dir[created] = "none"
      /\ ~CombinationComplete(key[created])
      /\ UNCHANGED <<created, key, excluded>>
      /\ \A r \in Runs : r # created => dir'[r] = dir[r]
  BY DEF RInv, TypeOK, CurrentRunIsOpen, CopyResults, CopyBreaks, clusterVars
<1>2. TypeOK' /\ SlotExists'
  BY TypeStep DEF RInv, Next, MatrixProceeds
<1>3. OnlyCreatedRuns'
  BY <1>1, MatrixAssumption DEF RInv, TypeOK, OnlyCreatedRuns, Runs
<1>4. NoDuplicateRuns'
  BY <1>1 DEF RInv, NoDuplicateRuns, CombinationComplete, Directories
<1>5. pc' \in {"copied", "stopped"}
  BY DEF CopyResults, CopyBreaks, Goto
<1> QED
  BY <1>1, <1>2, <1>3, <1>4, <1>5 DEF RInv, SlotIsOpen, CurrentRunIsOpen, CurrentRunExists

\* A new run is of a combination that is still to be run.
LEMMA CreateStep ==
    ASSUME RInv, CreateJob
    PROVE  RInv'
<1> USE MatrixAssumption
<1>1. /\ created + 1 \in Runs
      /\ created' = created + 1
      /\ key'[created + 1] = Scheduled(slot)
      /\ \A r \in Runs : r # created + 1 => key'[r] = key[r]
      /\ dir[created + 1] = "none"
      /\ UNCHANGED <<dir, excluded>>
  BY DEF RInv, TypeOK, OnlyCreatedRuns, CreateJob, Runs, rawVars
<1>2. TypeOK' /\ SlotExists'
  BY TypeStep DEF RInv, Next, MatrixProceeds
<1>3. OnlyCreatedRuns'
  BY <1>1 DEF RInv, TypeOK, OnlyCreatedRuns, Runs
<1>4. NoDuplicateRuns'
  BY <1>1 DEF RInv, NoDuplicateRuns, Directories
<1>5. ~CombinationComplete(Scheduled(slot))'
  BY <1>1 DEF RInv, SlotIsOpen, CreateJob, CombinationComplete, Directories
<1>6. CurrentRunIsOpen'
  BY <1>1, <1>5 DEF CurrentRunIsOpen, CombinationComplete, Directories, CreateJob
<1>7. pc' = "waiting"
  BY DEF CreateJob, Goto
<1> QED
  BY <1>2, <1>3, <1>4, <1>6, <1>7 DEF RInv, SlotIsOpen, CurrentRunExists

\* A directory that is moved away completes no combination.
LEMMA ExcludeStep ==
    ASSUME RInv, NEW r \in Runs, Exclude(r)
    PROVE  RInv'
<1>1. TypeOK' /\ SlotExists'
  BY TypeStep DEF RInv, Next
<1>2. /\ UNCHANGED <<pc, slot, created, key, dir>>
      /\ Directories' \subseteq Directories
  BY DEF Exclude, clusterVars, Directories
<1>3. \A k : CombinationComplete(k)' => CombinationComplete(k)
  BY <1>2 DEF CombinationComplete
<1>4. OnlyCreatedRuns' /\ NoDuplicateRuns'
  BY <1>2 DEF RInv, OnlyCreatedRuns, NoDuplicateRuns
<1>5. Scheduled(slot)' = Scheduled(slot)
  BY <1>2 DEF Scheduled
<1>6. SlotIsOpen'
  BY <1>2, <1>3, <1>5 DEF RInv, SlotIsOpen, CombinationComplete
<1>7. CurrentRunIsOpen' /\ CurrentRunExists'
  BY <1>2, <1>3 DEF RInv, CurrentRunIsOpen, CurrentRunExists, CombinationComplete
<1> QED
  BY <1>1, <1>4, <1>6, <1>7 DEF RInv

\* The remaining steps create and copy nothing.
LEMMA QuietStep ==
    ASSUME RInv, [Next]_vars, UNCHANGED <<created, key, dir, excluded>>,
           \/ UNCHANGED <<pc, slot>>
           \/ ReadyBefore
           \/ WaitJob
           \/ Validate
           \/ WaitTimesOut
           \/ pc' \in {"stopped", "scheduled", "cleaned", "checked", "complete"}
    PROVE  RInv'
<1>1. TypeOK' /\ SlotExists'
  BY TypeStep DEF RInv
<1>2. OnlyCreatedRuns' /\ NoDuplicateRuns'
  BY SameResults DEF RInv
<1>3. \A k : CombinationComplete(k)' <=> CombinationComplete(k)
  BY DEF CombinationComplete, Directories
<1>4. SlotIsOpen'
  BY DEF RInv, SlotIsOpen, CombinationComplete, Directories, Scheduled,
         ReadyBefore, WaitJob, Validate, WaitTimesOut, Goto
<1>5. CurrentRunIsOpen' /\ CurrentRunExists'
  BY DEF RInv, CurrentRunIsOpen, CurrentRunExists, CombinationComplete, Directories,
         ReadyBefore, WaitJob, Validate, WaitTimesOut, Goto
<1> QED
  BY <1>1, <1>2, <1>4, <1>5 DEF RInv

LEMMA NextInv == RInv /\ [Next]_vars => RInv'
<1> SUFFICES ASSUME RInv, [Next]_vars PROVE RInv'
  OBVIOUS
<1>1. CASE CopyResults \/ CopyBreaks
  BY <1>1, CopyStep
<1>2. CASE CreateJob
  BY <1>2, CreateStep
<1>3. ASSUME NEW r \in Runs, Exclude(r) PROVE RInv'
  BY <1>3, ExcludeStep
<1>4. CASE Start \/ Skip \/ ReadyAfter \/ GuardFails \/ Check \/ Aggregate
  BY <1>4, QuietStep DEF Start, Skip, ReadyAfter, GuardFails, Check, Aggregate, Goto, clusterVars, rawVars
<1>5. CASE ReadyBefore \/ WaitJob \/ Validate \/ WaitTimesOut
  BY <1>5, QuietStep DEF ReadyBefore, WaitJob, Validate, WaitTimesOut, clusterVars, rawVars
<1>6. CASE CleanupSuccess \/ Interrupt
  BY <1>6, QuietStep DEF CleanupSuccess, Interrupt, Goto, clusterVars, rawVars
<1>7. ASSUME NEW r \in Runs, JobProceeds(r) \/ RunFails(r) \/ PodLost(r) PROVE RInv'
  BY <1>7, QuietStep DEF JobProceeds, RunPasses, JobEnds, RunFails, PodLost, rawVars
<1>8. CASE UNCHANGED vars
  BY <1>8, QuietStep DEF vars, clusterVars, rawVars
<1> QED
  BY <1>1, <1>2, <1>3, <1>4, <1>5, <1>6, <1>7, <1>8 DEF Next, MatrixProceeds

LEMMA Invariance == Spec => []RInv
BY InitInv, NextInv, PTL DEF Spec

\* The types of the matrix are kept, for every number of repetitions, runs and
\* failures (matrix.sh, the loop over the repetitions and new_run_id).
THEOREM TypeCorrect == Spec => []TypeOK
<1>1. RInv => TypeOK
  BY DEF RInv
<1> QED
  BY <1>1, Invariance, PTL

\* However often the matrix fails, is killed and is called again, no
\* combination gets a second directory that passed (combination_complete).
THEOREM OneRunPerCombination == Spec => []NoDuplicateRuns
<1>1. RInv => NoDuplicateRuns
  BY DEF RInv
<1> QED
  BY <1>1, Invariance, PTL
-----------------------------------------------------------------------------
\* A step that makes no run active keeps the Jobs apart.
LEMMA JobsStep ==
    ASSUME TypeOK, ~ApiErrors, ClearedForJob, OneOfficialJob, [Next]_vars
    PROVE  ClearedForJob' /\ OneOfficialJob'
<1> USE MatrixAssumption
<1>1. CASE CreateJob
  <2>1. \A r \in Runs : r # created + 1 => job'[r] # "active"
    BY <1>1 DEF CreateJob, ClearedForJob, JobsEnded, TypeOK
  <2>2. pc' = "waiting"
    BY <1>1 DEF CreateJob, Goto
  <2> QED
    BY <2>1, <2>2 DEF OneOfficialJob, ClearedForJob
<1>2. CASE ReadyBefore
  BY <1>2 DEF ReadyBefore, GuardPasses, JobsEnded, ClearedForJob, OneOfficialJob, clusterVars
<1>3. CASE Start \/ Skip \/ ReadyAfter \/ GuardFails \/ WaitJob \/ Check \/ Aggregate
  BY <1>3 DEF Start, Skip, ReadyAfter, GuardFails, WaitJob, Check, Aggregate, Goto,
              ClearedForJob, OneOfficialJob, JobsEnded, clusterVars
<1>4. CASE CopyResults \/ CopyBreaks \/ Validate \/ WaitTimesOut \/ Interrupt
  BY <1>4 DEF CopyResults, CopyBreaks, Validate, WaitTimesOut, Interrupt, Goto,
              ClearedForJob, OneOfficialJob, JobsEnded, clusterVars
<1>5. CASE CleanupSuccess
  BY <1>5 DEF CleanupSuccess, Goto, ClearedForJob, OneOfficialJob, JobsEnded, TypeOK
<1>6. ASSUME NEW r \in Runs, JobProceeds(r) \/ RunFails(r) \/ PodLost(r)
      PROVE  ClearedForJob' /\ OneOfficialJob'
  BY <1>6 DEF JobProceeds, RunPasses, JobEnds, RunFails, PodLost,
              ClearedForJob, OneOfficialJob, JobsEnded, TypeOK
<1>7. ASSUME NEW r \in Runs, Exclude(r)
      PROVE  ClearedForJob' /\ OneOfficialJob'
  BY <1>7 DEF Exclude, ClearedForJob, OneOfficialJob, JobsEnded, clusterVars
<1>8. CASE UNCHANGED vars
  BY <1>8 DEF vars, ClearedForJob, OneOfficialJob, JobsEnded, clusterVars
<1> QED
  BY <1>1, <1>2, <1>3, <1>4, <1>5, <1>6, <1>7, <1>8 DEF Next, MatrixProceeds

\* As long as kubectl get jobs answers, two official experiments never run at
\* the same time, whatever an earlier call left behind (wait_environment_ready).
THEOREM SequentialRuns ==
    ASSUME ~ApiErrors
    PROVE  Spec => []OneOfficialJob
<1>1. Init => ClearedForJob /\ OneOfficialJob
  BY DEF Init, ClearedForJob, OneOfficialJob
<1>2. RInv => TypeOK
  BY DEF RInv
<1>3. TypeOK /\ ClearedForJob /\ OneOfficialJob /\ [Next]_vars
      => ClearedForJob' /\ OneOfficialJob'
  BY JobsStep
<1> QED
  BY <1>1, <1>2, <1>3, Invariance, PTL DEF Spec
-----------------------------------------------------------------------------
\* A Job exists for a created run only, and what is copied into data/raw without
\* an error, validated and cleaned up is a Job that completed.
OnlyCreatedJobs == \A r \in Runs : r > created => job[r] = "none"
CleansCompleted == pc \in {"copying", "copied", "cleaning"} => job[created] = "complete"
JobInv == OnlyCreatedJobs /\ CleansCompleted

LEMMA JobInvInit == Init => JobInv
BY DEF Init, JobInv, OnlyCreatedJobs, CleansCompleted

LEMMA JobInvStep ==
    ASSUME RInv, JobInv, [Next]_vars
    PROVE  JobInv'
<1> USE MatrixAssumption DEF JobInv, OnlyCreatedJobs, CleansCompleted
<1>1. TypeOK /\ CurrentRunIsOpen /\ CurrentRunExists
  BY DEF RInv
<1>2. CASE Start \/ Skip \/ ReadyBefore \/ ReadyAfter \/ GuardFails \/ Check \/ Aggregate
  BY <1>2 DEF Start, Skip, ReadyBefore, ReadyAfter, GuardFails, Check, Aggregate, Goto, clusterVars
<1>3. CASE CreateJob
  BY <1>1, <1>3 DEF CreateJob, Goto, TypeOK, Runs
<1>4. CASE WaitJob
  BY <1>4 DEF WaitJob, Goto, clusterVars
<1>5. CASE WaitTimesOut \/ Interrupt
  BY <1>5 DEF WaitTimesOut, Interrupt, Goto, clusterVars
<1>6. CASE CopyResults \/ CopyBreaks \/ Validate
  BY <1>6 DEF CopyResults, CopyBreaks, Validate, Goto, clusterVars
<1>7. CASE CleanupSuccess
  BY <1>1, <1>7 DEF CleanupSuccess, Goto, TypeOK, CurrentRunExists, Runs
<1>8. ASSUME NEW r \in Runs, JobProceeds(r) \/ RunFails(r) \/ PodLost(r)
      PROVE  JobInv'
  BY <1>1, <1>8 DEF JobProceeds, RunPasses, JobEnds, RunFails, PodLost, TypeOK, Runs
<1>9. ASSUME NEW r \in Runs, Exclude(r)
      PROVE  JobInv'
  BY <1>9 DEF Exclude, clusterVars
<1>10. CASE UNCHANGED vars
  BY <1>10 DEF vars, clusterVars
<1> QED
  BY <1>2, <1>3, <1>4, <1>5, <1>6, <1>7, <1>8, <1>9, <1>10 DEF Next, MatrixProceeds

\* Every step of the matrix is, for each run, a step of its contract or none.
LEMMA ContractStep ==
    ASSUME RInv, JobInv, [Next]_vars, NEW q \in Runs
    PROVE  Run(q)!Next \/ UNCHANGED Run(q)!vars
<1> USE DEF Run!Next, Run!vars
<1>1. TypeOK /\ CurrentRunExists
  BY DEF RInv
<1>2. CASE UNCHANGED <<job, volume>>
  BY <1>2 DEF JobOutcome
<1>3. CASE CreateJob
  <2>1. CASE q = created + 1
    <3>1. job[q] = "none" /\ job'[q] = "active" /\ volume'[q] = "running"
      BY <1>1, <1>3, <2>1, MatrixAssumption
      DEF JobInv, OnlyCreatedJobs, CreateJob, TypeOK, Runs
    <3> QED
      BY <3>1 DEF JobOutcome, Run!Begin
  <2>2. CASE q # created + 1
    BY <1>1, <1>3, <2>2 DEF CreateJob, TypeOK, JobOutcome
  <2> QED
    BY <2>1, <2>2
<1>4. CASE CleanupSuccess
  <2>1. job[created] = "complete"
    BY <1>4 DEF CleanupSuccess, JobInv, CleansCompleted
  <2> QED
    BY <1>1, <1>4, <2>1 DEF CleanupSuccess, TypeOK, JobOutcome, CurrentRunExists
<1>5. ASSUME NEW r \in Runs, RunPasses(r) \/ RunFails(r)
      PROVE  Run(q)!Next \/ UNCHANGED Run(q)!vars
  BY <1>1, <1>5 DEF RunPasses, RunFails, TypeOK, JobOutcome, Run!Report, Run!Reports, Run!GoodReports
<1>6. ASSUME NEW r \in Runs, JobEnds(r)
      PROVE  Run(q)!Next \/ UNCHANGED Run(q)!vars
  BY <1>1, <1>6 DEF JobEnds, TypeOK, JobOutcome, Run!Succeed, Run!Fail, Run!GoodReports
<1>7. ASSUME NEW r \in Runs, PodLost(r)
      PROVE  Run(q)!Next \/ UNCHANGED Run(q)!vars
  BY <1>1, <1>7 DEF PodLost, TypeOK, JobOutcome, Run!Fail
<1> QED
  BY <1>2, <1>3, <1>4, <1>5, <1>6, <1>7
  DEF Next, MatrixProceeds, JobProceeds, Start, Skip, ReadyBefore, ReadyAfter, GuardFails, WaitJob,
      CopyResults, Validate, Check, Aggregate, WaitTimesOut, CopyBreaks, Interrupt, Exclude,
      clusterVars, vars

\* Whatever fails and however often the matrix is called again, each Job it
\* creates, waits for and deletes behaves as a start that keeps RunContract.
THEOREM JobsKeepContract == Spec => RunsKeepContract
<1>1. Init => \A r \in Runs : Run(r)!Init
  BY DEF Init, JobOutcome, Run!Init
<1>2. RInv /\ JobInv /\ [Next]_vars
      => [\A r \in Runs : Run(r)!Next \/ UNCHANGED Run(r)!vars]_vars
  BY ContractStep
<1>3. RInv /\ JobInv /\ [Next]_vars => JobInv'
  BY JobInvStep
<1> QED
  BY <1>1, <1>2, <1>3, JobInvInit, Invariance, PTL DEF Spec, RunsKeepContract
-----------------------------------------------------------------------------
(***************************************************************************)
(* The schedule                                                            *)
(***************************************************************************)
\* Combination m had a run that passed, among the first n runs.
HadRun(m, n) == \E q \in 1 .. n : key[q] = Scheduled(m) /\ dir[q] = "passed"

\* Where the loop over the schedule is running.
InLoop == {"scheduled", "ready", "waiting", "copying", "salvaging", "copied", "cleaning", "cleaned"}

\* While the loop runs, every combination before the current one had its run.
SlotsHadRuns ==
    pc \in InLoop => \A m \in 1 .. slot - 1 : HadRun(m, created)

\* The current run is of the current combination, and passed once validated.
CurrentRunIsOfSlot ==
    /\ pc \in {"waiting", "copying", "salvaging", "copied", "cleaning", "cleaned"}
          => created \in Runs /\ key[created] = Scheduled(slot)
    /\ pc \in {"cleaning", "cleaned"} => dir[created] = "passed"

ScheduleInv == SlotsHadRuns /\ CurrentRunIsOfSlot /\ RunsFollowSchedule

\* A step that keeps the runs, their combinations and their passes keeps what
\* was had.
LEMMA HadRunsStay ==
    ASSUME NEW m, NEW n \in Nat, HadRun(m, n), \A q \in 1 .. n : key'[q] = key[q],
           \A q \in 1 .. n : dir[q] = "passed" => dir'[q] = "passed"
    PROVE  HadRun(m, n)'
<1>1. Scheduled(m)' = Scheduled(m)
  BY DEF Scheduled
<1> QED
  BY <1>1 DEF HadRun

\* No step changes the combination of a run or takes a pass back.
LEMMA PassesStay ==
    ASSUME RInv, [Next]_vars, NEW q \in 1 .. created
    PROVE  key'[q] = key[q] /\ (dir[q] = "passed" => dir'[q] = "passed")
<1>1. q \in Runs /\ TypeOK
  BY MatrixAssumption DEF RInv, TypeOK, Runs
<1>2. CASE CreateJob
  BY <1>1, <1>2, MatrixAssumption DEF CreateJob, TypeOK, rawVars, Runs
<1>3. CASE CopyResults \/ CopyBreaks
  <2>1. dir[created] = "none"
    BY <1>3 DEF RInv, CurrentRunIsOpen, CopyResults, CopyBreaks
  <2> QED
    BY <1>1, <1>3, <2>1 DEF CopyResults, CopyBreaks, TypeOK, clusterVars
<1>4. CASE UNCHANGED <<key, dir>>
  BY <1>4
<1> QED
  BY <1>2, <1>3, <1>4
  DEF Next, MatrixProceeds, JobProceeds, Start, Skip, ReadyBefore, ReadyAfter, GuardFails, WaitJob,
      Validate, CleanupSuccess, Check, Aggregate, WaitTimesOut, Interrupt, Exclude, RunPasses,
      RunFails, JobEnds, PodLost, clusterVars, rawVars, vars

\* Run r is of a combination whose predecessors had their runs before it.
Follows(r) ==
    \E n \in 1 .. Last : key[r] = Scheduled(n) /\ \A m \in 1 .. n - 1 : HadRun(m, r - 1)

LEMMA FollowsStays ==
    ASSUME RInv, [Next]_vars, NEW r \in 1 .. created, Follows(r)
    PROVE  Follows(r)'
<1>1. created \in Nat /\ r \in Nat /\ r - 1 \in Nat /\ r - 1 <= created
  BY DEF RInv, TypeOK
<1>2. PICK n \in 1 .. Last : key[r] = Scheduled(n) /\ \A m \in 1 .. n - 1 : HadRun(m, r - 1)
  BY DEF Follows
<1>3. key'[r] = Scheduled(n)
  BY <1>2, PassesStay
<1>4. \A q \in 1 .. r - 1 : key'[q] = key[q] /\ (dir[q] = "passed" => dir'[q] = "passed")
  BY <1>1, PassesStay
<1>5. \A m \in 1 .. n - 1 : HadRun(m, r - 1)'
  BY <1>1, <1>2, <1>4, HadRunsStay
<1>6. Scheduled(n)' = Scheduled(n)
  BY DEF Scheduled
<1> QED
  BY <1>3, <1>5, <1>6 DEF Follows, Last

LEMMA FollowsAll == RunsFollowSchedule <=> \A r \in 1 .. created : Follows(r)
BY DEF RunsFollowSchedule, Follows, HadRun

\* Every step keeps the order of the schedule.
LEMMA FollowStep ==
    ASSUME RInv, ScheduleInv, [Next]_vars
    PROVE  \A r \in 1 .. created' : Follows(r)'
<1>1. \A r \in 1 .. created : Follows(r)'
  BY FollowsAll, FollowsStays DEF ScheduleInv
<1>2. CASE created' = created
  BY <1>1, <1>2
<1>3. CASE CreateJob
  <2>1. created \in Nat /\ created' = created + 1 /\ key'[created + 1] = Scheduled(slot)
    BY <1>3, MatrixAssumption DEF RInv, TypeOK, CreateJob, Runs
  <2>2. slot \in 1 .. Last
    BY <1>3, MatrixAssumption DEF RInv, TypeOK, SlotExists, CreateJob, Last
  <2>3. \A m \in 1 .. slot - 1 : HadRun(m, created)
    BY <1>3 DEF ScheduleInv, SlotsHadRuns, CreateJob, InLoop
  <2>4. ASSUME NEW c \in Nat, c = created, NEW n \in 1 .. Last, n = slot
        PROVE  Follows(c + 1)'
    <3>1. \A q \in 1 .. c : key'[q] = key[q] /\ (dir[q] = "passed" => dir'[q] = "passed")
      BY <2>4, PassesStay
    <3>2. \A m \in 1 .. n - 1 : HadRun(m, c)
      BY <2>3, <2>4
    <3>3. \A m \in 1 .. n - 1 : HadRun(m, c)'
      BY <3>1, <3>2, HadRunsStay
    <3>4. key'[c + 1] = Scheduled(n) /\ Scheduled(n)' = Scheduled(n)
      BY <2>1, <2>4 DEF Scheduled
    <3>5. c + 1 - 1 = c
      OBVIOUS
    <3> QED
      BY <3>3, <3>4, <3>5 DEF Follows, Last
  <2>5. ASSUME NEW r \in 1 .. created', r \notin 1 .. created
        PROVE  Follows(r)'
    <3>1. r - 1 = created /\ r - 1 \in Nat /\ r = (r - 1) + 1
      BY <2>1, <2>5
    <3> QED
      BY <2>2, <2>4, <3>1
  <2> QED
    BY <1>1, <2>5
<1> QED
  BY <1>2, <1>3
  DEF Next, MatrixProceeds, JobProceeds, Start, Skip, ReadyBefore, ReadyAfter, GuardFails, WaitJob,
      CopyResults, CopyBreaks, Validate, CleanupSuccess, Check, Aggregate, WaitTimesOut, Interrupt,
      Exclude, RunPasses, RunFails, JobEnds, PodLost, clusterVars, vars

LEMMA HadRunStays ==
    ASSUME RInv, [Next]_vars, NEW m, HadRun(m, created)
    PROVE  HadRun(m, created)'
<1>1. PICK q \in 1 .. created : key[q] = Scheduled(m) /\ dir[q] = "passed"
  BY DEF HadRun
<1>2. created' = created \/ created' = created + 1
  BY DEF Next, MatrixProceeds, JobProceeds, Start, Skip, ReadyBefore, ReadyAfter, GuardFails,
         CreateJob, WaitJob, CopyResults, CopyBreaks, Validate, CleanupSuccess, Check, Aggregate,
         WaitTimesOut, Interrupt, Exclude, RunPasses, RunFails, JobEnds, PodLost, clusterVars, vars
<1>3. q \in 1 .. created'
  BY <1>2 DEF RInv, TypeOK
<1>4. key'[q] = Scheduled(m) /\ dir'[q] = "passed" /\ Scheduled(m)' = Scheduled(m)
  BY <1>1, PassesStay DEF Scheduled
<1> QED
  BY <1>3, <1>4 DEF HadRun

\* How the loop moves along the schedule.
LEMMA SlotChange ==
    ASSUME RInv, ScheduleInv, [Next]_vars, pc' \in InLoop
    PROVE  \/ slot' = slot /\ pc \in InLoop
           \/ slot' = 1
           \/ slot' = slot + 1 /\ pc \in InLoop /\ HadRun(slot, created)
<1>1. CASE Start
  BY <1>1 DEF Start
<1>2. CASE Skip
  <2>1. PICK q \in Runs : dir[q] = "passed" /\ key[q] = Scheduled(slot)
    BY <1>2 DEF Skip, CombinationComplete, Directories
  <2>2. q \in 1 .. created
    BY <2>1, MatrixAssumption DEF RInv, TypeOK, OnlyCreatedRuns, Runs
  <2> QED
    BY <1>2, <2>1, <2>2 DEF Skip, HadRun, InLoop
<1>3. CASE ReadyAfter
  <2>1. created \in Runs /\ key[created] = Scheduled(slot) /\ dir[created] = "passed"
    BY <1>3 DEF ReadyAfter, ScheduleInv, CurrentRunIsOfSlot
  <2> QED
    BY <1>3, <2>1 DEF ReadyAfter, HadRun, InLoop, Runs
<1>4. CASE ReadyBefore \/ CreateJob \/ WaitJob \/ WaitTimesOut \/ CopyResults \/ CopyBreaks
           \/ Validate \/ CleanupSuccess
  <2>1. /\ pc \in {"scheduled", "ready", "waiting", "copying", "salvaging", "copied", "cleaning"}
        /\ slot' = slot
    BY <1>4 DEF ReadyBefore, CreateJob, WaitJob, WaitTimesOut, CopyResults, CopyBreaks, Validate,
                CleanupSuccess
  <2> QED
    BY <2>1 DEF InLoop
<1>5. CASE GuardFails \/ Check \/ Aggregate \/ Interrupt
  BY <1>5 DEF GuardFails, Check, Aggregate, Interrupt, Goto, InLoop
<1>6. CASE UNCHANGED <<pc, slot>>
  BY <1>6
<1> QED
  BY <1>1, <1>2, <1>3, <1>4, <1>5, <1>6
  DEF Next, MatrixProceeds, JobProceeds, Exclude, RunPasses, RunFails, JobEnds, PodLost, vars

LEMMA SlotsStep ==
    ASSUME RInv, ScheduleInv, [Next]_vars
    PROVE  SlotsHadRuns'
<1> SUFFICES ASSUME pc' \in InLoop, NEW m \in 1 .. slot' - 1
             PROVE  HadRun(m, created)'
  BY DEF SlotsHadRuns
<1>1. slot \in Nat /\ slot' \in Nat
  BY TypeStep, MatrixAssumption DEF RInv, TypeOK
<1>2. \/ slot' = slot /\ pc \in InLoop
      \/ slot' = 1
      \/ slot' = slot + 1 /\ pc \in InLoop /\ HadRun(slot, created)
  BY SlotChange
<1>3. ASSUME pc \in InLoop PROVE \A n \in 1 .. slot - 1 : HadRun(n, created)
  BY <1>3 DEF ScheduleInv, SlotsHadRuns
<1>4. HadRun(m, created)
  <2>1. CASE slot' = slot /\ pc \in InLoop
    BY <1>3, <2>1
  <2>2. CASE slot' = 1
    BY <2>2
  <2>3. CASE slot' = slot + 1 /\ pc \in InLoop /\ HadRun(slot, created)
    <3>1. m \in 1 .. slot - 1 \/ m = slot
      BY <1>1, <2>3
    <3> QED
      BY <1>3, <2>3, <3>1
  <2> QED
    BY <1>2, <2>1, <2>2, <2>3
<1> QED
  BY <1>4, HadRunStays

LEMMA CurrentStep ==
    ASSUME RInv, ScheduleInv, [Next]_vars
    PROVE  CurrentRunIsOfSlot'
<1> USE DEF CurrentRunIsOfSlot
<1>1. TypeOK /\ CurrentRunIsOfSlot
  BY DEF RInv, ScheduleInv
<1>2. CASE CreateJob
  <2>1. created + 1 \in Runs /\ key'[created + 1] = Scheduled(slot)
    BY <1>1, <1>2, MatrixAssumption DEF CreateJob, TypeOK, Runs
  <2>2. created' = created + 1 /\ slot' = slot /\ pc' = "waiting"
    BY <1>2 DEF CreateJob, Goto
  <2>3. Scheduled(slot)' = Scheduled(slot)
    BY <2>2 DEF Scheduled
  <2> QED
    BY <2>1, <2>2, <2>3
<1>3. ASSUME slot' = slot PROVE Scheduled(slot)' = Scheduled(slot)
  BY <1>3 DEF Scheduled
<1>4. CASE WaitJob \/ WaitTimesOut \/ CopyResults \/ CopyBreaks
  <2>1. /\ pc' \in {"copying", "salvaging", "copied", "stopped"}
        /\ pc \in {"waiting", "copying", "salvaging"}
        /\ UNCHANGED <<slot, created, key>>
    BY <1>4 DEF WaitJob, WaitTimesOut, CopyResults, CopyBreaks, Goto, clusterVars
  <2> QED
    BY <1>1, <1>3, <2>1
<1>5. CASE Validate \/ CleanupSuccess
  BY <1>1, <1>3, <1>5 DEF Validate, CleanupSuccess, Goto, clusterVars, rawVars
<1>6. CASE Start \/ Skip \/ ReadyBefore \/ ReadyAfter \/ GuardFails \/ Check \/ Aggregate \/ Interrupt
  BY <1>1, <1>6 DEF Start, Skip, ReadyBefore, ReadyAfter, GuardFails, Check, Aggregate, Interrupt, Goto
<1>7. CASE UNCHANGED <<pc, slot, created, key, dir>>
  BY <1>1, <1>3, <1>7
<1> QED
  BY <1>2, <1>4, <1>5, <1>6, <1>7
  DEF Next, MatrixProceeds, JobProceeds, Exclude, RunPasses, RunFails, JobEnds, PodLost,
      clusterVars, rawVars, vars

\* However often the matrix is interrupted and called again, an experiment
\* starts only after every combination before its own had a run that passed.
THEOREM ScheduleFollowed == Spec => []RunsFollowSchedule
<1>1. Init => ScheduleInv
  <2> SUFFICES ASSUME Init PROVE ScheduleInv
    OBVIOUS
  <2>1. pc = "stopped" /\ created = 0
    BY DEF Init
  <2> QED
    BY <2>1 DEF ScheduleInv, SlotsHadRuns, CurrentRunIsOfSlot, RunsFollowSchedule, InLoop
<1>2. RInv /\ ScheduleInv /\ [Next]_vars => ScheduleInv'
  <2> SUFFICES ASSUME RInv, ScheduleInv, [Next]_vars PROVE ScheduleInv'
    OBVIOUS
  <2>1. RunsFollowSchedule'
    BY FollowStep DEF RunsFollowSchedule, Follows, HadRun
  <2> QED
    BY <2>1, SlotsStep, CurrentStep DEF ScheduleInv
<1>3. ScheduleInv => RunsFollowSchedule
  BY DEF ScheduleInv
<1> QED
  BY <1>1, <1>2, <1>3, Invariance, PTL DEF Spec
-----------------------------------------------------------------------------
(***************************************************************************)
(* The completed matrix                                                    *)
(***************************************************************************)
\* What the check found still holds when the rows are written and afterwards,
\* and the rows are the runs it found valid.
CheckHolds == pc \in {"checked", "complete"} => CheckPasses
RowsAreValid == pc = "complete" => rows = {r \in Runs : ValidRun(r)}

LEMMA SameCheck ==
    ASSUME UNCHANGED <<key, dir, whole, excluded>>
    PROVE  /\ CheckPasses' <=> CheckPasses
           /\ {r \in Runs : ValidRun(r)}' = {r \in Runs : ValidRun(r)}
<1>1. Directories' = Directories
  BY DEF Directories
<1>2. \A r : ValidRun(r)' <=> ValidRun(r)
  BY <1>1 DEF ValidRun
<1>3. \A k : ValidRuns(k)' = ValidRuns(k)
  BY <1>2 DEF ValidRuns
<1> QED
  BY <1>1, <1>2, <1>3 DEF CheckPasses

LEMMA CheckStep ==
    ASSUME CheckHolds, RowsAreValid, [Next]_vars
    PROVE  CheckHolds' /\ RowsAreValid'
<1> USE DEF CheckHolds, RowsAreValid
<1>1. CASE Check
  BY <1>1, SameCheck DEF Check, Goto, clusterVars, rawVars
<1>2. CASE Aggregate
  BY <1>2, SameCheck DEF Aggregate, Goto, clusterVars, rawVars
<1>3. ASSUME NEW r \in Runs, Exclude(r)
      PROVE  CheckHolds' /\ RowsAreValid'
  <2>1. ~CheckPasses /\ pc' = pc
    BY <1>3 DEF Exclude, CheckPasses
  <2> QED
    BY <2>1
<1>4. CASE UNCHANGED <<pc, key, dir, whole, excluded, rows>>
  BY <1>4, SameCheck
<1>5. CASE pc' \notin {"checked", "complete"}
  BY <1>5
<1>6. CASE Start \/ Skip \/ ReadyBefore \/ ReadyAfter \/ GuardFails \/ CreateJob \/ WaitJob
           \/ WaitTimesOut \/ Interrupt
  BY <1>5, <1>6 DEF Start, Skip, ReadyBefore, ReadyAfter, GuardFails, CreateJob, WaitJob,
                    WaitTimesOut, Interrupt, Goto
<1>7. CASE CopyResults \/ CopyBreaks \/ Validate \/ CleanupSuccess
  BY <1>5, <1>7 DEF CopyResults, CopyBreaks, Validate, CleanupSuccess, Goto
<1> QED
  BY <1>1, <1>2, <1>3, <1>4, <1>6, <1>7
  DEF Next, MatrixProceeds, JobProceeds, RunPasses, RunFails, JobEnds, PodLost,
      clusterVars, rawVars, vars

LEMMA CheckInvariance == Spec => [](CheckHolds /\ RowsAreValid)
<1>1. Init => CheckHolds /\ RowsAreValid
  BY DEF Init, CheckHolds, RowsAreValid
<1>2. CheckHolds /\ RowsAreValid /\ [Next]_vars => CheckHolds' /\ RowsAreValid'
  BY CheckStep
<1> QED
  BY <1>1, <1>2, PTL DEF Spec

\* A check that passes found a run of every combination.
LEMMA CheckFindsRuns ==
    ASSUME CheckPasses, NEW k \in Keys
    PROVE  \E r \in Runs : ValidRun(r) /\ key[r] = k
<1>1. Cardinality(ValidRuns(k)) = 1
  BY DEF CheckPasses
<1>2. Cardinality({}) = 0
  BY FS_EmptySet
<1>3. ValidRuns(k) # {}
  BY <1>1, <1>2
<1> QED
  BY <1>3 DEF ValidRuns

\* Whatever was interrupted, lost or moved away before, the export of a matrix
\* that completed has exactly one run of each combination, and each passed and
\* was copied whole (matrix_results.py, check and aggregate).
THEOREM SoundWhenCompleted == Spec => []CompletedMatrixIsSound
<1>1. RInv /\ CheckHolds /\ RowsAreValid => CompletedMatrixIsSound
  <2> SUFFICES ASSUME RInv, CheckHolds, RowsAreValid, pc = "complete"
               PROVE  /\ \A k \in Keys : \E r \in rows : key[r] = k
                      /\ \A r \in rows : dir[r] = "passed" /\ r \in whole
                      /\ \A r, q \in rows : key[r] = key[q] => r = q
    BY DEF CompletedMatrixIsSound
  <2>1. CheckPasses /\ rows = {r \in Runs : ValidRun(r)}
    BY DEF CheckHolds, RowsAreValid
  <2>2. \A r \in rows : r \in Directories /\ dir[r] = "passed" /\ r \in whole
    BY <2>1 DEF ValidRun
  <2>3. \A k \in Keys : \E r \in rows : key[r] = k
    BY <2>1, CheckFindsRuns
  <2> QED
    BY <2>2, <2>3 DEF RInv, NoDuplicateRuns
<1> QED
  BY <1>1, Invariance, CheckInvariance, PTL
-----------------------------------------------------------------------------
\* A directory says "passed" only when its run's volume does.
PassesAreReal == \A r \in Runs : dir[r] = "passed" => volume[r] = "passed"

\* A Job that is active without its runner having passed is the last one
\* created, and its combination is still to be run.
ActiveIsOpen ==
    \A q \in Runs : job[q] = "active" /\ volume[q] # "passed" =>
        q = created /\ key[q] \in Keys /\ ~CombinationComplete(key[q])

QuietInv == ClearedForJob /\ OneOfficialJob /\ PassesAreReal /\ ActiveIsOpen

LEMMA PassesStep ==
    ASSUME RInv, PassesAreReal, [Next]_vars
    PROVE  PassesAreReal'
<1> USE DEF PassesAreReal
<1>1. TypeOK
  BY DEF RInv
<1>2. CASE CreateJob
  <2>1. created + 1 \in Runs /\ dir[created + 1] = "none"
    BY <1>1, <1>2, MatrixAssumption DEF CreateJob, TypeOK, RInv, OnlyCreatedRuns, Runs
  <2>2. dir' = dir /\ \A r \in Runs : r # created + 1 => volume'[r] = volume[r]
    BY <1>1, <1>2 DEF CreateJob, TypeOK, rawVars
  <2> QED
    BY <2>1, <2>2
<1>3. CASE CopyResults \/ CopyBreaks
  BY <1>1, <1>3 DEF CopyResults, CopyBreaks, TypeOK, clusterVars
<1>4. ASSUME NEW r \in Runs, RunPasses(r) \/ RunFails(r)
      PROVE  PassesAreReal'
  BY <1>1, <1>4 DEF RunPasses, RunFails, TypeOK, rawVars
<1>5. CASE UNCHANGED <<dir, volume>>
  BY <1>5
<1> QED
  BY <1>2, <1>3, <1>4, <1>5
  DEF Next, MatrixProceeds, JobProceeds, Start, Skip, ReadyBefore, ReadyAfter, GuardFails, WaitJob,
      Validate, CleanupSuccess, Check, Aggregate, WaitTimesOut, Interrupt, Exclude, JobEnds,
      PodLost, clusterVars, rawVars, vars

LEMMA OpenStep ==
    ASSUME RInv, ClearedForJob, ActiveIsOpen, [Next]_vars
    PROVE  ActiveIsOpen'
<1> USE DEF ActiveIsOpen
<1>1. TypeOK
  BY DEF RInv
<1>2. CASE CreateJob
  <2>1. /\ created + 1 \in Runs
        /\ created' = created + 1
        /\ key'[created + 1] = Scheduled(slot)
        /\ \A q \in Runs : q # created + 1 => job'[q] # "active"
    BY <1>1, <1>2, MatrixAssumption DEF CreateJob, TypeOK, ClearedForJob, JobsEnded, Runs
  <2>2. Scheduled(slot) \in Keys
    BY <1>1, <1>2, ScheduledType, MatrixAssumption DEF RInv, TypeOK, SlotExists, CreateJob, Last
  <2>3. RInv'
    BY <1>2, CreateStep
  <2>4. pc' = "waiting"
    BY <1>2 DEF CreateJob, Goto
  <2>5. ~CombinationComplete(key[created])'
    BY <2>3, <2>4 DEF RInv, CurrentRunIsOpen
  <2> QED
    BY <2>1, <2>2, <2>5 DEF CombinationComplete, Directories
<1>3. CASE CopyResults \/ CopyBreaks
  <2>1. /\ UNCHANGED <<created, key, job, volume, excluded>>
        /\ created \in Runs
        /\ \A r \in Runs : r # created => dir'[r] = dir[r]
        /\ dir'[created] = "passed" => volume[created] = "passed"
    BY <1>1, <1>3 DEF CopyResults, CopyBreaks, TypeOK, RInv, CurrentRunIsOpen, clusterVars
  <2> QED
    BY <2>1 DEF CombinationComplete, Directories
<1>4. CASE /\ UNCHANGED <<created, key, dir>>
           /\ excluded \subseteq excluded'
           /\ \A q \in Runs : job'[q] = "active" => job[q] = "active"
           /\ \A q \in Runs : volume[q] = "passed" => volume'[q] = "passed"
  BY <1>4 DEF CombinationComplete, Directories
<1>5. ASSUME NEW r \in Runs, JobProceeds(r) \/ RunFails(r) \/ PodLost(r)
      PROVE  ActiveIsOpen'
  BY <1>1, <1>4, <1>5 DEF JobProceeds, RunPasses, JobEnds, RunFails, PodLost, TypeOK, rawVars
<1>6. CASE CleanupSuccess
  BY <1>1, <1>4, <1>6 DEF CleanupSuccess, TypeOK, rawVars
<1>7. ASSUME NEW r \in Runs, Exclude(r)
      PROVE  ActiveIsOpen'
  BY <1>4, <1>7 DEF Exclude, clusterVars
<1>8. CASE UNCHANGED <<clusterVars, rawVars>>
  BY <1>4, <1>8 DEF clusterVars, rawVars
<1> QED
  BY <1>2, <1>3, <1>5, <1>6, <1>7, <1>8
  DEF Next, MatrixProceeds, Start, Skip, ReadyBefore, ReadyAfter, GuardFails, WaitJob, Validate,
      Check, Aggregate, WaitTimesOut, Interrupt, vars

\* As long as kubectl get jobs answers, a matrix that completed leaves no
\* experiment under way, although nothing asks for the Jobs of earlier calls at
\* its end: such a Job is the last one created, and the check misses its run.
THEOREM QuietWhenCompleted ==
    ASSUME ~ApiErrors
    PROVE  Spec => []CompletedMatrixIsQuiet
<1>1. Init => QuietInv
  BY DEF Init, QuietInv, ClearedForJob, OneOfficialJob, PassesAreReal, ActiveIsOpen
<1>2. RInv /\ QuietInv /\ [Next]_vars => QuietInv'
  <2> SUFFICES ASSUME RInv, QuietInv, [Next]_vars PROVE QuietInv'
    OBVIOUS
  <2>1. ClearedForJob' /\ OneOfficialJob'
    BY JobsStep DEF RInv, QuietInv
  <2> QED
    BY <2>1, PassesStep, OpenStep DEF QuietInv
<1>3. QuietInv /\ CheckHolds => CompletedMatrixIsQuiet
  <2> SUFFICES ASSUME QuietInv, CheckHolds, pc = "complete",
                      NEW q \in Runs, job[q] = "active", volume[q] # "passed"
               PROVE  FALSE
    BY DEF CompletedMatrixIsQuiet
  <2>1. key[q] \in Keys /\ ~CombinationComplete(key[q])
    BY DEF QuietInv, ActiveIsOpen
  <2>2. PICK r \in Runs : ValidRun(r) /\ key[r] = key[q]
    BY <2>1, CheckFindsRuns DEF CheckHolds
  <2> QED
    BY <2>1, <2>2 DEF ValidRun, CombinationComplete
<1> QED
  BY <1>1, <1>2, <1>3, Invariance, CheckInvariance, PTL DEF Spec
=============================================================================
