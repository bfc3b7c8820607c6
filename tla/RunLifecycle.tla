----------------------------- MODULE RunLifecycle -----------------------------
(***************************************************************************)
(* The life of an experiment run: RunBaseline, DryRun                      *)
(* (internal/experiment/runner.go) and runFault with prepareFaultSession   *)
(* and stopAndAnalyze (fault.go), from the run's directory to the last     *)
(* deferred call.  A call may fail and the process may die anywhere.       *)
(*                                                                         *)
(* Several starts may use the same run ID (--run-id is taken as it is, and *)
(* a Job's pod can be started twice): they share the directory and the     *)
(* topic.  What flows through the files is modelled in Traffic, how an     *)
(* entry reaches its file in JSONLWriter, and what happens to the broker   *)
(* in FaultInjection and RecoveryObserver.                                 *)
(***************************************************************************)
EXTENDS Naturals, Sequences, FiniteSets

CONSTANTS
    Starts,       \* processes started with this run ID
    MaxFailures   \* bound: failing calls and killed processes

ASSUME LifecycleAssumption == MaxFailures \in Nat

\* The command line and what it asks for; sound: Load, Plan and the checks
\* before the run's directory accept the configuration and the options.
Options == [scenario : {"baseline", "fault"}, dryRun : BOOLEAN, confirmDelete : BOOLEAN,
            sound : BOOLEAN]

KindOf(o) ==
    CASE ~o.sound -> "refused"
      [] o.scenario = "baseline" -> IF o.dryRun THEN "plan" ELSE "baseline"
      [] OTHER -> IF o.dryRun THEN "rehearsal" ELSE IF o.confirmDelete THEN "fault" ELSE "refused"

Kinds == {KindOf(o) : o \in Options}
Components == {"producer", "consumer"}
Streams == Components \cup {"timeline"}

VARIABLES
    kind,       \* baseline, fault, dry run of a fault or baseline, or "refused"
    where,      \* "idle", "script", "deferred", "returned" or "killed"
    pc,         \* position in the script
    defers,     \* the deferred calls, the latest first
    error,      \* the error to return
    metadata,   \* status in metadata.json; "empty": truncated; "torn": no document
    wrote,      \* the status each start left in it
    truncated,  \* starts between the truncation of metadata.json and its bytes
    topic,      \* the run's topic exists
    stream,     \* a start's JSONL files: "none", "open", "sealed" or "broken"
    running,    \* goroutines of a start that have not returned
    cancelled,  \* those whose context is cancelled
    refused,    \* components that lost an entry to a closed file
    artifacts,  \* groups of evidence files in the directory
    failures

flowVars == <<where, pc, defers, error>>
metadataVars == <<metadata, wrote, truncated>>
componentVars == <<running, cancelled, refused>>
vars == <<kind, flowVars, metadataVars, topic, stream, componentVars, artifacts, failures>>

Init ==
    /\ kind \in [Starts -> Kinds]
    /\ where = [s \in Starts |-> "idle"]
    /\ pc = [s \in Starts |-> 1]
    /\ defers = [s \in Starts |-> <<>>]
    /\ error = [s \in Starts |-> FALSE]
    /\ metadata = "none"
    /\ wrote = [s \in Starts |-> "none"]
    /\ truncated = {}
    /\ topic = FALSE
    /\ stream = [s \in Starts |-> [f \in Streams |-> "none"]]
    /\ running = [s \in Starts |-> {}]
    /\ cancelled = [s \in Starts |-> {}]
    /\ refused = [s \in Starts |-> {}]
    /\ artifacts = {}
    /\ failures = 0

Failure ==
    /\ failures < MaxFailures
    /\ failures' = failures + 1
-----------------------------------------------------------------------------
(***************************************************************************)
(* The scripts: <<what, on what>>, in the order of the code                *)
(***************************************************************************)
Opening ==
    << <<"write", "running">>, <<"open", "timeline">>, <<"create", "topic">>,
       <<"open", "producer">>, <<"open", "consumer">>, <<"launch", "components">>,
       <<"pass", "phases">> >>

\* Mutant: the consumer is left to the end of the run's context.
ClosingWithoutStop ==
    << <<"stop", "producer">>, <<"await", "producer">>, <<"pass", "drain">>,
       <<"await", "consumer">>, <<"close", "producer">>, <<"close", "consumer">>,
       <<"collect", "analysis">>, <<"pass", "verdict">> >>

\* Mutant: the consumer is stopped, and its file closed under it.
ClosingWithoutAwait ==
    << <<"stop", "producer">>, <<"await", "producer">>, <<"pass", "drain">>,
       <<"stop", "consumer">>, <<"close", "producer">>, <<"close", "consumer">>,
       <<"collect", "analysis">>, <<"pass", "verdict">> >>

\* Mutant: the files are analysed while buffers hold their ends.
ClosingAfterAnalysis ==
    << <<"stop", "producer">>, <<"await", "producer">>, <<"pass", "drain">>,
       <<"stop", "consumer">>, <<"await", "consumer">>, <<"collect", "analysis">>,
       <<"close", "producer">>, <<"close", "consumer">>, <<"pass", "verdict">> >>

Closing ==
    << <<"stop", "producer">>, <<"await", "producer">>, <<"pass", "drain">>,
       <<"stop", "consumer">>, <<"await", "consumer">>,
       <<"close", "producer">>, <<"close", "consumer">>,
       <<"collect", "analysis">>, <<"pass", "verdict">> >>

BaselineScript == Opening \o Closing \o << <<"write", "passed">> >>

FaultScript ==
    Opening \o << <<"collect", "plan">>, <<"collect", "recovery">> >>
    \o Closing \o << <<"collect", "after">>, <<"write", "passed">> >>

\* The dry run of a fault measures everything and deletes nothing.
RehearsalScript ==
    Opening \o << <<"collect", "plan">> >>
    \o Closing \o << <<"collect", "placeholders">>, <<"write", "dry_run">> >>

\* The dry run of a baseline writes its plan into the timeline.
PlanScript ==
    << <<"write", "dry_run">>, <<"open", "timeline">>, <<"close", "timeline">>,
       <<"pass", "empty files">> >>

Script == [baseline |-> BaselineScript, fault |-> FaultScript,
           rehearsal |-> RehearsalScript, plan |-> PlanScript,
           refused |-> << <<"refuse", "start">> >>]

Ended(s) == pc[s] > Len(Script[kind[s]])
Step(s) == Script[kind[s]][pc[s]]

At(s, verb) == where[s] = "script" /\ ~Ended(s) /\ Step(s)[1] = verb
Object(s) == Step(s)[2]

Advance(s) == pc' = [pc EXCEPT ![s] = @ + 1]
Defer(s, calls) == defers' = [defers EXCEPT ![s] = calls \o @]

\* RunBaseline defers the close of what it opens; runFault only what
\* prepareFaultSession hands over to it at the end of the phases.
InBaseline(s) == kind[s] = "baseline"
-----------------------------------------------------------------------------
(***************************************************************************)
(* metadata.json: os.WriteFile truncates the file and then writes it       *)
(***************************************************************************)
Deferred(s, call) == where[s] = "deferred" /\ defers[s] # <<>> /\ Head(defers[s]) = call

Writing(s) == At(s, "write") \/ (Deferred(s, "failed") /\ error[s])
Target(s) == IF where[s] = "deferred" THEN "failed" ELSE Object(s)

Truncate(s) ==
    /\ Writing(s)
    /\ s \notin truncated
    /\ truncated' = truncated \cup {s}
    /\ metadata' = "empty"
    /\ wrote' = [wrote EXCEPT ![s] = "torn"]
    /\ UNCHANGED <<kind, flowVars, topic, stream, componentVars, artifacts, failures>>

\* Bytes of another start that came in between are overwritten, as far as the
\* new document reaches.
PutBytes(s) ==
    /\ s \in truncated
    /\ truncated' = truncated \ {s}
    /\ metadata' \in (IF metadata = "empty" THEN {Target(s)} ELSE {Target(s), "torn"})
    /\ wrote' = [wrote EXCEPT ![s] = Target(s)]

\* The call fails: before the truncation, or with a part of the bytes, or none.
PutFails(s) ==
    /\ truncated' = truncated \ {s}
    /\ metadata' \in (IF s \in truncated THEN {metadata, "torn"} ELSE {metadata})
    /\ UNCHANGED wrote

WriteMetadata(s) ==
    /\ At(s, "write")
    /\ PutBytes(s)
    /\ Advance(s)
    /\ UNCHANGED <<kind, where, defers, error, topic, stream, componentVars, artifacts, failures>>
-----------------------------------------------------------------------------
(***************************************************************************)
(* The other steps                                                         *)
(***************************************************************************)
Begin(s) ==
    /\ where[s] = "idle"
    /\ where' = [where EXCEPT ![s] = "script"]
    /\ UNCHANGED <<kind, pc, defers, error, metadataVars, topic, stream, componentVars,
                   artifacts, failures>>

\* NewJSONLWriter, which appends to a file that exists.
OpenStream(s) ==
    /\ At(s, "open")
    /\ stream' = [stream EXCEPT ![s][Object(s)] = "open"]
    /\ IF InBaseline(s) THEN Defer(s, <<Object(s)>>) ELSE UNCHANGED defers
    /\ Advance(s)
    /\ UNCHANGED <<kind, where, error, metadataVars, topic, componentVars, artifacts, failures>>

\* Mutant: a topic that exists is taken for the run's own.
CreateOrReuseTopic(s) ==
    /\ At(s, "create")
    /\ topic' = TRUE
    /\ Advance(s)
    /\ UNCHANGED <<kind, where, defers, error, metadataVars, stream, componentVars, artifacts,
                   failures>>

\* Kafka refuses to create a topic twice.
CreateTopic(s) ==
    /\ At(s, "create")
    /\ ~topic
    /\ topic' = TRUE
    /\ Advance(s)
    /\ UNCHANGED <<kind, where, defers, error, metadataVars, stream, componentVars, artifacts,
                   failures>>

Launch(s) ==
    /\ At(s, "launch")
    /\ running' = [running EXCEPT ![s] = Components]
    /\ IF InBaseline(s) THEN Defer(s, <<"cancel">>) ELSE UNCHANGED defers
    /\ Advance(s)
    /\ UNCHANGED <<kind, where, error, metadataVars, topic, stream, cancelled, refused,
                   artifacts, failures>>

\* The waits between two marks, the drain, the verdict.
Pass(s) ==
    /\ At(s, "pass")
    /\ IF Object(s) = "phases" /\ ~InBaseline(s)
       THEN Defer(s, <<"cancel", "timeline", "failed">>)
       ELSE UNCHANGED defers
    /\ Advance(s)
    /\ UNCHANGED <<kind, where, error, metadataVars, topic, stream, componentVars, artifacts,
                   failures>>

StopComponent(s) ==
    /\ At(s, "stop")
    /\ cancelled' = [cancelled EXCEPT ![s] = @ \cup {Object(s)}]
    /\ Advance(s)
    /\ UNCHANGED <<kind, where, defers, error, metadataVars, topic, stream, running, refused,
                   artifacts, failures>>

AwaitComponent(s) ==
    /\ At(s, "await")
    /\ Object(s) \notin running[s]
    /\ Advance(s)
    /\ UNCHANGED <<kind, where, defers, error, metadataVars, topic, stream, componentVars,
                   artifacts, failures>>

CloseStream(s) ==
    /\ At(s, "close")
    /\ stream' = [stream EXCEPT ![s][Object(s)] = "sealed"]
    /\ Advance(s)
    /\ UNCHANGED <<kind, where, defers, error, metadataVars, topic, componentVars, artifacts,
                   failures>>

\* The requests behind a group of files, and their writing.  For "recovery" it
\* is the end of observeRecovery, whenever that comes.
CollectEvidence(s) ==
    /\ At(s, "collect")
    /\ artifacts' = artifacts \cup {Object(s)}
    /\ Advance(s)
    /\ UNCHANGED <<kind, where, defers, error, metadataVars, topic, stream, componentVars,
                   failures>>
-----------------------------------------------------------------------------
(***************************************************************************)
(* Errors, deferred calls and the end of the process                       *)
(***************************************************************************)
ReturnFrom(s, failed) ==
    /\ where' = [where EXCEPT ![s] = "deferred"]
    /\ error' = [error EXCEPT ![s] = failed]
    /\ UNCHANGED pc

\* Mutant: the error of the validation does not reach the caller.
InvalidBaselineReturns(s) ==
    /\ At(s, "pass")
    /\ Object(s) = "verdict"
    /\ InBaseline(s)
    /\ ReturnFrom(s, FALSE)
    /\ Defer(s, <<"failed">>)
    /\ UNCHANGED <<kind, metadataVars, topic, stream, componentVars, artifacts, failures>>

\* The summary of a baseline is not valid: the verdict is written first.
InvalidBaseline(s) ==
    /\ At(s, "pass")
    /\ Object(s) = "verdict"
    /\ InBaseline(s)
    /\ ReturnFrom(s, TRUE)
    /\ Defer(s, <<"failed">>)
    /\ UNCHANGED <<kind, metadataVars, topic, stream, componentVars, artifacts, failures>>

\* Before anything was written: no confirmation of the fault, unknown options.
Refuse(s) ==
    /\ At(s, "refuse")
    /\ ReturnFrom(s, TRUE)
    /\ UNCHANGED <<kind, defers, metadataVars, topic, stream, componentVars, artifacts, failures>>

TopicExists(s) ==
    /\ At(s, "create")
    /\ topic
    /\ ReturnFrom(s, TRUE)
    /\ UNCHANGED <<kind, defers, metadataVars, topic, stream, componentVars, artifacts, failures>>

\* A call of the step returns an error, a mark before it does, a wait is
\* interrupted, or the awaited component failed.  A write may fail before the
\* file is open, after its truncation, or at its close; a failed Close of a
\* JSONL file loses entries.
StepFails(s) ==
    /\ where[s] = "script" /\ ~Ended(s) /\ Step(s)[1] \notin {"launch", "refuse"}
    /\ At(s, "await") => Object(s) \notin running[s]
    /\ Failure
    /\ ReturnFrom(s, TRUE)
    /\ IF At(s, "close")
       THEN stream' = [stream EXCEPT ![s][Object(s)] = "broken"]
       ELSE UNCHANGED stream
    /\ PutFails(s) \/ (At(s, "write") /\ PutBytes(s))
    /\ UNCHANGED <<kind, defers, topic, componentVars, artifacts>>

ReturnNormally(s) ==
    /\ where[s] = "script"
    /\ Ended(s)
    /\ ReturnFrom(s, FALSE)
    /\ UNCHANGED <<kind, defers, metadataVars, topic, stream, componentVars, artifacts, failures>>

Pop(s) == defers' = [defers EXCEPT ![s] = Tail(@)]

CancelDeferred(s) ==
    /\ Deferred(s, "cancel")
    /\ Pop(s)
    /\ cancelled' = [cancelled EXCEPT ![s] = Components]
    /\ UNCHANGED <<kind, where, pc, error, metadataVars, topic, stream, running, refused,
                   artifacts, failures>>

\* The error of a deferred Close is ignored; a second Close does nothing.
CloseDeferred(s) ==
    /\ \E f \in Streams :
          /\ Deferred(s, f)
          /\ \/ stream' = [stream EXCEPT ![s][f] = IF @ = "open" THEN "sealed" ELSE @]
                /\ UNCHANGED failures
             \/ stream[s][f] = "open"
                /\ stream' = [stream EXCEPT ![s][f] = "broken"]
                /\ Failure
    /\ Pop(s)
    /\ UNCHANGED <<kind, where, pc, error, metadataVars, topic, componentVars, artifacts>>

\* Written after an error only; the error of this write is ignored as well.
ReportFailure(s) ==
    /\ Deferred(s, "failed")
    /\ Pop(s)
    /\ \/ error[s] /\ PutBytes(s) /\ UNCHANGED failures
       \/ error[s] /\ Failure /\ PutFails(s)
       \/ ~error[s] /\ UNCHANGED <<metadataVars, failures>>
    /\ UNCHANGED <<kind, where, pc, error, topic, stream, componentVars, artifacts>>

\* Mutant: goroutines outlive the process.
ExitAlone(s, how) ==
    /\ where' = [where EXCEPT ![s] = how]
    /\ stream' = [stream EXCEPT ![s] =
                     [f \in Streams |-> IF @[f] = "open" THEN "broken" ELSE @[f]]]
    /\ truncated' = truncated \ {s}
    /\ UNCHANGED <<kind, pc, defers, error, metadata, wrote, topic, running, cancelled, refused,
                   artifacts>>

\* The process ends: goroutines stop where they are, and buffers are lost.
Exit(s, how) ==
    /\ where' = [where EXCEPT ![s] = how]
    /\ running' = [running EXCEPT ![s] = {}]
    /\ stream' = [stream EXCEPT ![s] =
                     [f \in Streams |-> IF @[f] = "open" THEN "broken" ELSE @[f]]]
    /\ truncated' = truncated \ {s}
    /\ UNCHANGED <<kind, pc, defers, error, metadata, wrote, topic, cancelled, refused, artifacts>>

Return(s) ==
    /\ where[s] = "deferred"
    /\ defers[s] = <<>>
    /\ Exit(s, "returned")
    /\ UNCHANGED failures

Kill(s) ==
    /\ where[s] \in {"script", "deferred"}
    /\ Exit(s, "killed")
    /\ Failure
-----------------------------------------------------------------------------
(***************************************************************************)
(* The components                                                          *)
(***************************************************************************)
\* Run returns: its context is cancelled or timed out, or it failed.
ComponentReturns(s, c) ==
    /\ c \in running[s]
    /\ running' = [running EXCEPT ![s] = @ \ {c}]
    /\ UNCHANGED <<kind, flowVars, metadataVars, topic, stream, cancelled, refused, artifacts,
                   failures>>

\* Write answers ErrWriterClosed: the entry is lost, which is only logged.
EntryRefused(s, c) ==
    /\ c \in running[s]
    /\ stream[s][c] \in {"sealed", "broken"}
    /\ refused' = [refused EXCEPT ![s] = @ \cup {c}]
    /\ UNCHANGED <<kind, flowVars, metadataVars, topic, stream, running, cancelled, artifacts,
                   failures>>
-----------------------------------------------------------------------------
Proceed(s) ==
    \/ Truncate(s) \/ WriteMetadata(s) \/ OpenStream(s) \/ CreateTopic(s) \/ Launch(s)
    \/ Pass(s) \/ StopComponent(s) \/ AwaitComponent(s) \/ CloseStream(s)
    \/ CollectEvidence(s) \/ InvalidBaseline(s) \/ Refuse(s) \/ TopicExists(s) \/ StepFails(s)
    \/ ReturnNormally(s) \/ CancelDeferred(s) \/ CloseDeferred(s) \/ ReportFailure(s)
    \/ Return(s)

Next ==
    \E s \in Starts :
        \/ Begin(s) \/ Proceed(s) \/ Kill(s)
        \/ \E c \in Components : ComponentReturns(s, c) \/ EntryRefused(s, c)

Spec == Init /\ [][Next]_vars

\* What only Kafka can end: observeRecovery has no timeout of its own, and the
\* producer's Run returns from a Flush with a background context.
Observing(s) == At(s, "collect") /\ Object(s) = "recovery"
AwaitsFlush(s) == At(s, "await") /\ Object(s) = "producer" /\ "producer" \in running[s]
WaitsForKafka(s) == Observing(s) \/ AwaitsFlush(s)

\* A started process goes on, outside the observation, and a consumer whose
\* context is cancelled returns; nobody has to start, fail or be killed, and
\* Kafka owes no answer.
FairSpec ==
    /\ Spec
    /\ \A s \in Starts :
          /\ WF_vars(~Observing(s) /\ Proceed(s))
          /\ WF_vars("consumer" \in cancelled[s] /\ ComponentReturns(s, "consumer"))
-----------------------------------------------------------------------------
StatusOf == {"none", "running", "passed", "failed", "dry_run", "empty", "torn"}
Evidence == {"plan", "recovery", "analysis", "after", "placeholders"}

\* Every variable has its type; only a live process has goroutines.
TypeOK ==
    /\ kind \in [Starts -> Kinds]
    /\ where \in [Starts -> {"idle", "script", "deferred", "returned", "killed"}]
    /\ pc \in [Starts -> Nat \ {0}]
    /\ defers \in [Starts -> Seq(Streams \cup {"cancel", "failed"})]
    /\ error \in [Starts -> BOOLEAN]
    /\ metadata \in StatusOf
    /\ wrote \in [Starts -> StatusOf]
    /\ truncated \subseteq Starts
    /\ topic \in BOOLEAN
    /\ stream \in [Starts -> [Streams -> {"none", "open", "sealed", "broken"}]]
    /\ running \in [Starts -> SUBSET Components]
    /\ cancelled \in [Starts -> SUBSET Components]
    /\ refused \in [Starts -> SUBSET Components]
    /\ artifacts \subseteq Evidence
    /\ failures \in 0 .. MaxFailures
    /\ \A s \in Starts : running[s] # {} => where[s] \in {"script", "deferred"}

\* validate_artifacts of infra.sh: the files that must exist after a run of this
\* kind, next to metadata.json.
Required(k) ==
    Streams \cup (IF k = "fault" THEN {"plan", "recovery", "analysis", "after"} ELSE {"analysis"})

Present == artifacts \cup {f \in Streams : \E s \in Starts : stream[s][f] # "none"}

\* A directory that says "passed", whenever it is read and whatever failed,
\* died or was started again, is a run's: every required file is there, both
\* components stopped before their files were closed, and these lost no entry.
\* timeline.jsonl is there too, but still open and buffered at this point: its
\* last events are lost with the process or with a failed Close, but not
\* without a failure.
PassedIsBacked ==
    metadata = "passed" =>
        \E s \in Starts :
            /\ kind[s] \in {"baseline", "fault"}
            /\ wrote[s] = "passed"
            /\ Required(kind[s]) \subseteq Present
            /\ running[s] = {}
            /\ \A c \in Components : stream[s][c] = "sealed" /\ c \notin refused[s]
            /\ stream[s]["timeline"] = "broken" => failures > 0

\* However often a run ID is started, producer and consumer run for one start
\* at most: producer.jsonl and consumer.jsonl never mix two starts, although
\* the directory and the files may exist already.
OneTraffic ==
    \A s, t \in Starts :
        stream[s]["producer"] # "none" /\ stream[t]["producer"] # "none" => s = t

\* Once the analysis was written no start touches the files it was made from,
\* producer.jsonl and consumer.jsonl, so that it can be repeated from a copy:
\* nothing flushes, closes or opens them any more.
EvidenceIsFrozen ==
    []["analysis" \in artifacts =>
            \A s \in Starts, c \in Components : stream'[s][c] = stream[s][c]]_vars

Outcome(s) ==
    CASE where[s] = "idle" -> "idle"
      [] where[s] \in {"script", "deferred"} -> "active"
      [] where[s] = "returned" /\ ~error[s] -> "succeeded"
      [] OTHER -> "failed"

Contract(s) == INSTANCE RunContract WITH status <- wrote[s], outcome <- Outcome(s)

\* Every start keeps the contract the matrix counts on: exit 0 only after a
\* good report, and no report after the end.
KeepsContract ==
    /\ \A s \in Starts : Contract(s)!Init
    /\ [][\A s \in Starts : Contract(s)!Next \/ UNCHANGED Contract(s)!vars]_vars

\* A started process ends, unless it waits for Kafka for ever: no early return,
\* failed call or second start leaves it waiting for anything else, such as a
\* component that nobody stops.
EveryStartEnds ==
    \A s \in Starts :
        where[s] = "script" ~> (where[s] \in {"returned", "killed"} \/ []WaitsForKafka(s))
=============================================================================
