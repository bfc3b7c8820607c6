-------------------------------- MODULE Matrix --------------------------------
(***************************************************************************)
(* The experimental matrix (scripts/matrix.sh, the official path of        *)
(* run_kubernetes_experiment in scripts/infra.sh, and                      *)
(* scripts/matrix_results.py): it runs every combination of profile,       *)
(* scenario and repetition one after the other, and what it keeps between  *)
(* two calls is the directory data/raw and the Jobs of the cluster.  The   *)
(* operator calls it again after every failure.                            *)
(*                                                                         *)
(* A run is named by a number: new_run_id never gives a name twice.  The   *)
(* experiment inside a Job is modelled in Traffic and FaultInjection; here *)
(* it only passes, fails or is lost.                                       *)
(***************************************************************************)
EXTENDS Naturals, FiniteSets

CONSTANTS
    Repetitions,      \* REPETITIONS
    ApiErrors,        \* may kubectl get jobs fail when the guard asks it?
    MaxRuns,          \* bound: experiments created
    MaxDisturbances   \* bound: failures, time-outs, broken copies, interrupts

ASSUME MatrixAssumption ==
    /\ Repetitions \in Nat \ {0}
    /\ ApiErrors \in BOOLEAN
    /\ MaxRuns \in Nat
    /\ MaxDisturbances \in Nat

Profiles == {"A", "B"}
Scenarios == {"baseline", "fault"}
Keys == [profile : Profiles, scenario : Scenarios, repetition : 1 .. Repetitions]
NoKey == [profile |-> "none", scenario |-> "none", repetition |-> 0]
Runs == 1 .. MaxRuns

VARIABLES
    pc,           \* where matrix.sh, or the infra.sh it calls, is
    slot,         \* the combination it is at, counted along the schedule
    created,      \* runs created so far; the last one is the current one
    key,          \* labels of a run's Job: its combination
    job,          \* a run's Job in the cluster
    volume,       \* metadata.json in the run's volume
    dir,          \* metadata.json in data/raw/<run>; "none": no directory
    whole,        \* runs whose directory has every required artifact
    excluded,     \* runs whose directory was moved to data/excluded
    rows,         \* the runs in data/processed/runs.csv
    disturbances

clusterVars == <<created, key, job, volume>>
rawVars == <<dir, whole, excluded>>
vars == <<pc, slot, clusterVars, rawVars, rows, disturbances>>

Init ==
    /\ pc = "stopped"
    /\ slot = 1
    /\ created = 0
    /\ key = [r \in Runs |-> NoKey]
    /\ job = [r \in Runs |-> "none"]
    /\ volume = [r \in Runs |-> "none"]
    /\ dir = [r \in Runs |-> "none"]
    /\ whole = {}
    /\ excluded = {}
    /\ rows = {}
    /\ disturbances = 0

Disturbance ==
    /\ disturbances < MaxDisturbances
    /\ disturbances' = disturbances + 1
-----------------------------------------------------------------------------
(***************************************************************************)
(* A Job in the cluster (external).  metadata.json says "running" until    *)
(* the runner writes its verdict as the last artifact; backoffLimit is 0.  *)
(***************************************************************************)
RunPasses(r) ==
    /\ job[r] = "active"
    /\ volume[r] = "running"
    /\ volume' = [volume EXCEPT ![r] = "passed"]
    /\ UNCHANGED <<pc, slot, created, key, job, rawVars, rows, disturbances>>

RunFails(r) ==
    /\ job[r] = "active"
    /\ volume[r] = "running"
    /\ volume' = [volume EXCEPT ![r] = "failed"]
    /\ Disturbance
    /\ UNCHANGED <<pc, slot, created, key, job, rawVars, rows>>

\* The runner exits, with 0 only after it wrote "passed".
JobEnds(r) ==
    /\ job[r] = "active"
    /\ volume[r] # "running"
    /\ job' = [job EXCEPT ![r] = IF volume[r] = "passed" THEN "complete" ELSE "failed"]
    /\ UNCHANGED <<pc, slot, created, key, volume, rawVars, rows, disturbances>>

\* The runner exits with an error before its analysis, or its pod is lost: evicted,
\* or its node is gone.
PodLost(r) ==
    /\ job[r] = "active"
    /\ job' = [job EXCEPT ![r] = "failed"]
    /\ Disturbance
    /\ UNCHANGED <<pc, slot, created, key, volume, rawVars, rows>>
-----------------------------------------------------------------------------
(***************************************************************************)
(* matrix.sh: the schedule                                                 *)
(***************************************************************************)
\* Mutant: the loop runs one time too often.
LastAndOneMore == 4 * Repetitions + 1

Last == 4 * Repetitions

\* Odd repetitions run A then B, even ones B then A; each the baseline first.
Scheduled(n) ==
    LET repetition == (n - 1) \div 4 + 1
        first == IF repetition % 2 = 1 THEN "A" ELSE "B"
        second == IF repetition % 2 = 1 THEN "B" ELSE "A"
    IN  [profile |-> IF (n - 1) % 4 < 2 THEN first ELSE second,
         scenario |-> IF n % 2 = 1 THEN "baseline" ELSE "fault",
         repetition |-> repetition]

Directories == {r \in Runs : dir[r] # "none"} \ excluded

\* Mutant: no directory is found.
CombinationNeverComplete(k) == FALSE

\* combination_complete reads nothing but metadata.json.
CombinationComplete(k) == \E r \in Directories : key[r] = k /\ dir[r] = "passed"

\* Mutants of wait_environment_ready: no look at the Jobs at all ...
JobsNotAsked == TRUE

\* ... and a Failed condition that is not taken for an end.
JobsComplete == \A r \in Runs : job[r] \notin {"active", "failed"}

\* wait_environment_ready: no official Job without a Complete or Failed condition.
JobsEnded == \A r \in Runs : job[r] # "active"

\* When kubectl get jobs fails, the condition of the if is false as well.
GuardPasses == JobsEnded \/ ApiErrors

Goto(place) == pc' = place

Start ==
    /\ pc \in {"stopped", "complete"}
    /\ Goto("scheduled")
    /\ slot' = 1
    /\ UNCHANGED <<clusterVars, rawVars, rows, disturbances>>

Skip ==
    /\ pc = "scheduled"
    /\ slot <= Last
    /\ CombinationComplete(Scheduled(slot))
    /\ slot' = slot + 1
    /\ UNCHANGED <<pc, clusterVars, rawVars, rows, disturbances>>

\* The guard before an experiment.
ReadyBefore ==
    /\ pc = "scheduled"
    /\ slot <= Last
    /\ ~CombinationComplete(Scheduled(slot))
    /\ GuardPasses
    /\ Goto("ready")
    /\ UNCHANGED <<slot, clusterVars, rawVars, rows, disturbances>>

\* The guard after an experiment.
ReadyAfter ==
    /\ pc = "cleaned"
    /\ GuardPasses
    /\ Goto("scheduled")
    /\ slot' = slot + 1
    /\ UNCHANGED <<clusterVars, rawVars, rows, disturbances>>

GuardFails ==
    /\ \/ pc = "scheduled" /\ slot <= Last /\ ~CombinationComplete(Scheduled(slot))
       \/ pc = "cleaned"
    /\ ~JobsEnded
    /\ Goto("stopped")
    /\ UNCHANGED <<slot, clusterVars, rawVars, rows, disturbances>>
-----------------------------------------------------------------------------
(***************************************************************************)
(* infra.sh: run_kubernetes_experiment                                     *)
(***************************************************************************)
CreateJob ==
    /\ pc = "ready"
    /\ created < MaxRuns
    /\ created' = created + 1
    /\ key' = [key EXCEPT ![created'] = Scheduled(slot)]
    /\ job' = [job EXCEPT ![created'] = "active"]
    /\ volume' = [volume EXCEPT ![created'] = "running"]
    /\ Goto("waiting")
    /\ UNCHANGED <<slot, rawVars, rows, disturbances>>

\* Mutant: any end of the Job is taken for success.
WaitJobEnds ==
    /\ pc = "waiting"
    /\ job[created] # "active"
    /\ Goto("copying")
    /\ UNCHANGED <<slot, clusterVars, rawVars, rows, disturbances>>

\* wait_job: Complete, Failed, or neither within the time-out.
WaitJob ==
    /\ pc = "waiting"
    /\ job[created] # "active"
    /\ Goto(IF job[created] = "complete" THEN "copying" ELSE "salvaging")
    /\ UNCHANGED <<slot, clusterVars, rawVars, rows, disturbances>>

WaitTimesOut ==
    /\ pc = "waiting"
    /\ Goto("salvaging")
    /\ Disturbance
    /\ UNCHANGED <<slot, clusterVars, rawVars, rows>>

\* copy_results into a new directory; after a failed wait the call fails anyway.
CopyResults ==
    /\ pc \in {"copying", "salvaging"}
    /\ dir' = [dir EXCEPT ![created] = volume[created]]
    /\ whole' = whole \cup {created}
    /\ Goto(IF pc = "copying" THEN "copied" ELSE "stopped")
    /\ UNCHANGED <<slot, clusterVars, excluded, rows, disturbances>>

\* kubectl cp leaves files out, metadata.json or others; it reports it or not.
CopyBreaks ==
    /\ pc \in {"copying", "salvaging"}
    /\ \E metadata \in {"missing", volume[created]} :
          dir' = [dir EXCEPT ![created] = metadata]
    /\ \/ Goto("stopped")
       \/ pc = "copying" /\ Goto("copied")
    /\ Disturbance
    /\ UNCHANGED <<slot, clusterVars, whole, excluded, rows>>

\* Mutant: a run that fails its validation is left behind, the matrix goes on.
ValidateAndGoOn ==
    /\ pc = "copied"
    /\ Goto(IF dir[created] = "passed" /\ created \in whole THEN "cleaning" ELSE "cleaned")
    /\ UNCHANGED <<slot, clusterVars, rawVars, rows, disturbances>>

\* validate_artifacts and validate_official_metadata.
Validate ==
    /\ pc = "copied"
    /\ Goto(IF dir[created] = "passed" /\ created \in whole THEN "cleaning" ELSE "stopped")
    /\ UNCHANGED <<slot, clusterVars, rawVars, rows, disturbances>>

CleanupSuccess ==
    /\ pc = "cleaning"
    /\ job' = [job EXCEPT ![created] = "deleted"]
    /\ Goto("cleaned")
    /\ UNCHANGED <<slot, created, key, volume, rawVars, rows, disturbances>>

\* Any other command fails (set -e), or the call is killed.
Interrupt ==
    /\ pc \notin {"stopped", "complete"}
    /\ Goto("stopped")
    /\ Disturbance
    /\ UNCHANGED <<slot, clusterVars, rawVars, rows>>
-----------------------------------------------------------------------------
(***************************************************************************)
(* matrix_results.py                                                       *)
(***************************************************************************)
\* Mutant: the artifacts are not looked at.
PassedRun(r) == r \in Directories /\ dir[r] = "passed"

\* inspect_run: an official directory that passed and has every artifact.
ValidRun(r) == r \in Directories /\ dir[r] = "passed" /\ r \in whole

ValidRuns(k) == {r \in Runs : ValidRun(r) /\ key[r] = k}

\* check: every official directory is valid, and each combination has one.
CheckPasses ==
    /\ \A r \in Directories : ValidRun(r)
    /\ \A k \in Keys : Cardinality(ValidRuns(k)) = 1

Check ==
    /\ pc = "scheduled"
    /\ slot > Last
    /\ Goto(IF CheckPasses THEN "checked" ELSE "stopped")
    /\ UNCHANGED <<slot, clusterVars, rawVars, rows, disturbances>>

\* aggregate leaves out what is not valid.
Aggregate ==
    /\ pc = "checked"
    /\ rows' = {r \in Runs : ValidRun(r)}
    /\ Goto("complete")
    /\ UNCHANGED <<slot, clusterVars, rawVars, disturbances>>

\* The operator moves a directory that is not valid, and that no call is
\* writing, to data/excluded (external).
Exclude(r) ==
    /\ r \in Directories
    /\ ~ValidRun(r)
    /\ r # created \/ pc # "copied"
    /\ excluded' = excluded \cup {r}
    /\ UNCHANGED <<pc, slot, clusterVars, dir, whole, rows, disturbances>>
-----------------------------------------------------------------------------
JobProceeds(r) == RunPasses(r) \/ JobEnds(r)

MatrixProceeds ==
    \/ Start \/ Skip \/ ReadyBefore \/ ReadyAfter \/ GuardFails
    \/ CreateJob \/ WaitJob \/ CopyResults \/ Validate \/ CleanupSuccess
    \/ Check \/ Aggregate

Next ==
    \/ MatrixProceeds
    \/ WaitTimesOut \/ CopyBreaks \/ Interrupt
    \/ \E r \in Runs : JobProceeds(r) \/ RunFails(r) \/ PodLost(r) \/ Exclude(r)

Spec == Init /\ [][Next]_vars

\* The operator calls the matrix until it completes and clears what the check
\* reports; an experiment ends by itself (its own time-outs).
FairSpec ==
    /\ Spec
    /\ WF_vars(MatrixProceeds)
    /\ \A r \in Runs : WF_vars(JobProceeds(r)) /\ WF_vars(Exclude(r))
-----------------------------------------------------------------------------
Places == {"stopped", "scheduled", "ready", "waiting", "copying", "salvaging",
           "copied", "cleaning", "cleaned", "checked", "complete"}
JobStates == {"none", "active", "complete", "failed", "deleted"}
Statuses == {"none", "running", "passed", "failed"}

\* Every variable keeps its type; in particular a run is always of a
\* combination of the matrix (matrix.sh, the loop over the repetitions).
TypeOK ==
    /\ pc \in Places
    /\ slot \in 1 .. 4 * Repetitions + 1
    /\ created \in 0 .. MaxRuns
    /\ key \in [Runs -> Keys \cup {NoKey}]
    /\ job \in [Runs -> JobStates]
    /\ volume \in [Runs -> Statuses]
    /\ dir \in [Runs -> Statuses \cup {"missing"}]
    /\ whole \subseteq Runs
    /\ excluded \subseteq Runs
    /\ rows \subseteq Runs
    /\ disturbances \in 0 .. MaxDisturbances

\* However often the matrix is interrupted and called again, no combination
\* gets a second directory that passed (matrix.sh, combination_complete): a
\* duplicate would make the check fail for good.
NoDuplicateRuns ==
    \A r, q \in Directories :
        (dir[r] = "passed" /\ dir[q] = "passed" /\ key[r] = key[q]) => r = q

\* An experiment starts only when every combination before its own in the
\* schedule has had a run that passed, before it (matrix.sh, set -e and the
\* loop): the alternation of A and B holds over interrupts and calls.
RunsFollowSchedule ==
    \A r \in 1 .. created : \E n \in 1 .. Last :
        /\ key[r] = Scheduled(n)
        /\ \A m \in 1 .. n - 1 : \E q \in 1 .. r - 1 :
              key[q] = Scheduled(m) /\ dir[q] = "passed"

\* When the matrix has completed, runs.csv has exactly one run of each
\* combination, and each of them passed and came over with all its artifacts
\* (matrix_results.py, check and aggregate).
CompletedMatrixIsSound ==
    pc = "complete" =>
        /\ \A k \in Keys : \E r \in rows : key[r] = k
        /\ \A r \in rows : dir[r] = "passed" /\ r \in whole
        /\ \A r, q \in rows : key[r] = key[q] => r = q

\* Two official experiments never run at the same time (README: "Nao ha
\* execucao paralela"; matrix.sh, wait_environment_ready), although a call that
\* is interrupted or times out leaves its Job running.
OneOfficialJob ==
    \A r, q \in Runs : (job[r] = "active" /\ job[q] = "active") => r = q

\* When the matrix has completed no experiment is still under way: no Job of an
\* interrupted call survives unnoticed to the end, where nothing asks for it.
CompletedMatrixIsQuiet ==
    pc = "complete" => \A r \in Runs : job[r] = "active" => volume[r] = "passed"

\* With finitely many failures, an operator who calls the matrix again and
\* clears the directories that the check reports completes it.
MatrixCompletes == <>(pc = "complete")

\* A Job as its runner's contract sees it; a deleted one had completed.
JobOutcome(r) ==
    CASE job[r] = "none" -> "idle"
      [] job[r] = "active" -> "active"
      [] job[r] \in {"complete", "deleted"} -> "succeeded"
      [] OTHER -> "failed"

Run(r) == INSTANCE RunContract WITH status <- volume[r], outcome <- JobOutcome(r)

\* The Jobs the matrix creates, waits for and deletes are starts that keep the
\* contract RunLifecycle implements; in particular cleanup_success never
\* deletes a Job that did not succeed.
RunsKeepContract ==
    /\ \A r \in Runs : Run(r)!Init
    /\ [][\A r \in Runs : Run(r)!Next \/ UNCHANGED Run(r)!vars]_vars
=============================================================================
