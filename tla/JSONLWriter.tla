----------------------------- MODULE JSONLWriter -----------------------------
(***************************************************************************)
(* internal/output/jsonl.go: the file that the producer's callbacks and    *)
(* loop, and the consumer, append to.  Write takes the read lock and keeps *)
(* it until the goroutine run() has answered its request; Close takes the  *)
(* write lock, closes the request channel, and waits for run() to flush,   *)
(* sync and close the file.                                                *)
(*                                                                         *)
(* A Write is one call of one of Writers; a Close is the single call of    *)
(* one of Closers.  Receiving a request, encoding it and answering it are  *)
(* one step of run(): nobody can look in between.                          *)
(***************************************************************************)
EXTENDS Naturals, Sequences

CONSTANTS
    Writers,    \* goroutines that call Write
    Closers,    \* goroutines that call Close, once each
    MaxWrites,  \* bound: calls of Write per writer
    Capacity    \* capacity of the request channel (256 in the code)

ASSUME WriterAssumption ==
    /\ MaxWrites \in Nat
    /\ Capacity \in Nat \ {0}

Entries == Writers \X (1..MaxWrites)

VARIABLES
    pcW,            \* where a writer is in Write
    calls,          \* how many times a writer has called Write
    reply,          \* request.done of the writer's current request
    outcome,        \* what Write returned for an entry
    pcC,            \* where a closer is in Close
    verdict,        \* what Close returned
    closed,         \* w.closed
    requests,       \* w.requests: the queued entries
    requestsClosed, \* close(w.requests) has happened
    pcR,            \* where run() is
    writeErr,       \* writeErr # nil in run()
    bufErr,         \* the bufio.Writer met an I/O error (it is sticky)
    err,            \* w.err # nil
    lines,          \* entries encoded into the bufio.Writer, in order
    flushed,        \* how many of lines are completely in the file
    torn            \* the file ends with a part of a line

writerVars == <<pcW, calls, reply, outcome>>
closerVars == <<pcC, verdict, closed, requestsClosed>>
fileVars   == <<lines, flushed, torn>>
runVars    == <<pcR, writeErr, bufErr, err>>
vars == <<writerVars, closerVars, requests, runVars, fileVars>>

EntryOf(w) == <<w, calls[w]>>
Encoded == {lines[k] : k \in 1..Len(lines)}
Accepted == {e \in Entries : outcome[e] = "ok"}

\* Mutants: the read lock is released before the send, or before the answer.
ReadersBeforeSend == {w \in Writers : pcW[w] = "locked"}
ReadersBeforeAnswer == {w \in Writers : pcW[w] \in {"locked", "sending"}}

\* Goroutines between RLock and the deferred RUnlock.
Readers == {w \in Writers : pcW[w] \in {"locked", "sending", "waiting"}}

\* The closer inside Lock(): it keeps new readers out (sync.RWMutex).
Announced == {c \in Closers : pcC[c] = "announced"}

Init ==
    /\ pcW = [w \in Writers |-> "idle"]
    /\ calls = [w \in Writers |-> 0]
    /\ reply = [w \in Writers |-> "none"]
    /\ outcome = [e \in Entries |-> "none"]
    /\ pcC = [c \in Closers |-> "idle"]
    /\ verdict = [c \in Closers |-> "none"]
    /\ closed = FALSE
    /\ requests = <<>>
    /\ requestsClosed = FALSE
    /\ pcR = "loop"
    /\ writeErr = FALSE
    /\ bufErr = FALSE
    /\ err = FALSE
    /\ lines = <<>>
    /\ flushed = 0
    /\ torn = FALSE
-----------------------------------------------------------------------------
(***************************************************************************)
(* Write                                                                   *)
(***************************************************************************)
BeginWrite(w) ==
    /\ pcW[w] = "idle"
    /\ calls[w] < MaxWrites
    /\ calls' = [calls EXCEPT ![w] = @ + 1]
    /\ pcW' = [pcW EXCEPT ![w] = "called"]
    /\ reply' = [reply EXCEPT ![w] = "none"]
    /\ UNCHANGED <<outcome, closerVars, requests, runVars, fileVars>>

RLock(w) ==
    /\ pcW[w] = "called"
    /\ Announced = {}
    /\ pcW' = [pcW EXCEPT ![w] = "locked"]
    /\ UNCHANGED <<calls, reply, outcome, closerVars, requests, runVars, fileVars>>

CheckClosed(w) ==
    /\ pcW[w] = "locked"
    /\ IF closed
       THEN /\ pcW' = [pcW EXCEPT ![w] = "idle"]
            /\ outcome' = [outcome EXCEPT ![EntryOf(w)] = "closed"]
       ELSE /\ pcW' = [pcW EXCEPT ![w] = "sending"]
            /\ UNCHANGED outcome
    /\ UNCHANGED <<calls, reply, closerVars, requests, runVars, fileVars>>

Send(w) ==
    /\ pcW[w] = "sending"
    /\ Len(requests) < Capacity
    /\ requests' = Append(requests, EntryOf(w))
    /\ pcW' = [pcW EXCEPT ![w] = "waiting"]
    /\ UNCHANGED <<calls, reply, outcome, closerVars, runVars, fileVars>>

WriteReturn(w) ==
    /\ pcW[w] = "waiting"
    /\ reply[w] # "none"
    /\ pcW' = [pcW EXCEPT ![w] = "idle"]
    /\ outcome' = [outcome EXCEPT ![EntryOf(w)] = reply[w]]
    /\ UNCHANGED <<calls, reply, closerVars, requests, runVars, fileVars>>
-----------------------------------------------------------------------------
(***************************************************************************)
(* Close                                                                   *)
(***************************************************************************)
BeginClose(c) ==
    /\ pcC[c] = "idle"
    /\ pcC' = [pcC EXCEPT ![c] = "called"]
    /\ UNCHANGED <<writerVars, verdict, closed, requestsClosed, requests, runVars, fileVars>>

\* Lock() first excludes other closers and new readers ...
Announce(c) ==
    /\ pcC[c] = "called"
    /\ Announced = {}
    /\ pcC' = [pcC EXCEPT ![c] = "announced"]
    /\ UNCHANGED <<writerVars, verdict, closed, requestsClosed, requests, runVars, fileVars>>

\* Mutant: the flag is set but the channel is not closed.
CloseFlagOnly(c) ==
    /\ pcC[c] = "announced"
    /\ Readers = {}
    /\ closed' = TRUE
    /\ pcC' = [pcC EXCEPT ![c] = "draining"]
    /\ UNCHANGED <<writerVars, verdict, requestsClosed, requests, runVars, fileVars>>

\* ... then waits for the active readers; the section it guards is one step.
CloseRequests(c) ==
    /\ pcC[c] = "announced"
    /\ Readers = {}
    /\ closed' = TRUE
    /\ requestsClosed' = TRUE
    /\ pcC' = [pcC EXCEPT ![c] = "draining"]
    /\ UNCHANGED <<writerVars, verdict, requests, runVars, fileVars>>

\* Mutant: Close does not wait for run() to finish.
CloseReturnAtOnce(c) ==
    /\ pcC[c] = "draining"
    /\ verdict' = [verdict EXCEPT ![c] = IF err THEN "error" ELSE "ok"]
    /\ pcC' = [pcC EXCEPT ![c] = "returned"]
    /\ UNCHANGED <<writerVars, closed, requestsClosed, requests, runVars, fileVars>>

CloseReturn(c) ==
    /\ pcC[c] = "draining"
    /\ pcR = "done"
    /\ verdict' = [verdict EXCEPT ![c] = IF err THEN "error" ELSE "ok"]
    /\ pcC' = [pcC EXCEPT ![c] = "returned"]
    /\ UNCHANGED <<writerVars, closed, requestsClosed, requests, runVars, fileVars>>
-----------------------------------------------------------------------------
(***************************************************************************)
(* run()                                                                   *)
(***************************************************************************)
\* Mutant: counts a line that was never encoded.
SpillOneMore(all) ==
    /\ flushed' \in flushed..(Len(all) + 1)
    /\ torn' \in BOOLEAN

\* Bytes reach the file when the 4096-byte buffer spills, wherever a line ends.
Spill(all) ==
    /\ flushed' \in flushed..Len(all)
    /\ torn' \in IF flushed' = flushed /\ torn THEN {TRUE}
                 ELSE IF flushed' < Len(all) THEN BOOLEAN ELSE {FALSE}

Answer(w, result) ==
    /\ requests' = Tail(requests)
    /\ reply' = [reply EXCEPT ![w] = result]

EncodeOk ==
    /\ pcR = "loop"
    /\ requests # <<>>
    /\ ~writeErr
    /\ lines' = Append(lines, Head(requests))
    /\ Spill(lines')
    /\ Answer(Head(requests)[1], "ok")
    /\ UNCHANGED <<pcW, calls, outcome, closerVars, runVars>>

\* The value cannot be marshalled (io = FALSE) or a spill fails (io = TRUE).
EncodeFails(io) ==
    /\ pcR = "loop"
    /\ requests # <<>>
    /\ ~writeErr
    /\ writeErr' = TRUE
    /\ bufErr' = io
    /\ IF io
       THEN /\ flushed' \in flushed..Len(lines)
            /\ torn' \in BOOLEAN
       ELSE UNCHANGED <<flushed, torn>>
    /\ Answer(Head(requests)[1], "error")
    /\ UNCHANGED <<pcW, calls, outcome, closerVars, pcR, err, lines>>

\* Mutant: requests that follow a failure are dropped without an answer.
RefuseSilently ==
    /\ pcR = "loop"
    /\ requests # <<>>
    /\ writeErr
    /\ requests' = Tail(requests)
    /\ UNCHANGED <<writerVars, closerVars, runVars, fileVars>>

\* After the first failure every request is answered with it.
Refuse ==
    /\ pcR = "loop"
    /\ requests # <<>>
    /\ writeErr
    /\ Answer(Head(requests)[1], "error")
    /\ UNCHANGED <<pcW, calls, outcome, closerVars, runVars, fileVars>>

FlushOk ==
    /\ pcR = "loop"
    /\ requests = <<>>
    /\ requestsClosed
    /\ ~bufErr
    /\ flushed' = Len(lines)
    /\ torn' = FALSE
    /\ pcR' = "finish"
    /\ UNCHANGED <<writerVars, closerVars, requests, writeErr, bufErr, err, lines>>

FlushFails ==
    /\ pcR = "loop"
    /\ requests = <<>>
    /\ requestsClosed
    /\ flushed' \in flushed..Len(lines)
    /\ torn' \in BOOLEAN
    /\ bufErr' = TRUE
    /\ err' = TRUE
    /\ pcR' = "finish"
    /\ UNCHANGED <<writerVars, closerVars, requests, writeErr, lines>>

\* Mutant: the encoding error is not joined into w.err.
FinishWithoutWriteErr ==
    /\ pcR = "finish"
    /\ \E failed \in BOOLEAN : err' = (err \/ failed)
    /\ pcR' = "done"
    /\ UNCHANGED <<writerVars, closerVars, requests, writeErr, bufErr, fileVars>>

\* Sync and Close of the file (either may fail), then close(w.done).
Finish ==
    /\ pcR = "finish"
    /\ \E failed \in BOOLEAN : err' = (err \/ failed \/ writeErr)
    /\ pcR' = "done"
    /\ UNCHANGED <<writerVars, closerVars, requests, writeErr, bufErr, fileVars>>
-----------------------------------------------------------------------------
WriterStep(w) == RLock(w) \/ CheckClosed(w) \/ Send(w) \/ WriteReturn(w)

CloserStep(c) == Announce(c) \/ CloseRequests(c) \/ CloseReturn(c)

EncodeFailure == \E io \in BOOLEAN : EncodeFails(io)

RunStep ==
    \/ EncodeOk
    \/ EncodeFailure
    \/ Refuse
    \/ FlushOk
    \/ FlushFails
    \/ Finish

Next ==
    \/ \E w \in Writers : BeginWrite(w) \/ WriterStep(w)
    \/ \E c \in Closers : BeginClose(c) \/ CloserStep(c)
    \/ RunStep

Spec == Init /\ [][Next]_vars

\* The Go scheduler runs every goroutine that can go on; nothing makes a
\* goroutine call Write or Close.
Fairness ==
    /\ \A w \in Writers : WF_vars(WriterStep(w))
    /\ \A c \in Closers : WF_vars(CloserStep(c))
    /\ WF_vars(RunStep)

FairSpec == Spec /\ Fairness
-----------------------------------------------------------------------------
TypeOK ==
    /\ pcW \in [Writers -> {"idle", "called", "locked", "sending", "waiting"}]
    /\ calls \in [Writers -> 0..MaxWrites]
    /\ reply \in [Writers -> {"none", "ok", "error"}]
    /\ outcome \in [Entries -> {"none", "ok", "error", "closed"}]
    /\ pcC \in [Closers -> {"idle", "called", "announced", "draining", "returned"}]
    /\ verdict \in [Closers -> {"none", "ok", "error"}]
    /\ closed \in BOOLEAN
    /\ requests \in Seq(Entries)
    /\ requestsClosed \in BOOLEAN
    /\ pcR \in {"loop", "finish", "done"}
    /\ writeErr \in BOOLEAN
    /\ bufErr \in BOOLEAN
    /\ err \in BOOLEAN
    /\ lines \in Seq(Entries)
    /\ flushed \in 0..Len(lines)
    /\ torn \in BOOLEAN

\* A send on a closed channel panics: once the request channel is closed no
\* Write is about to send, or still waits for its answer.
NoSendOnClosedChannel ==
    requestsClosed => \A w \in Writers : pcW[w] \notin {"sending", "waiting"}

\* When some Close returned nil the file is whole: it ends with a complete
\* line and holds exactly the entries whose Write returned nil.
SealedFileIsComplete ==
    (\E c \in Closers : verdict[c] = "ok") =>
        /\ flushed = Len(lines)
        /\ ~torn
        /\ Encoded = Accepted

\* A Write that failed is not forgotten: no Close returns nil after it.
ErrorNeverHidden ==
    (\E c \in Closers : verdict[c] = "ok") =>
        \A e \in Entries : outcome[e] # "error"

\* Every Write returns, whatever fails and whoever closes meanwhile.
WriteReturns == \A w \in Writers : pcW[w] = "called" ~> pcW[w] = "idle"

\* Every Close returns, also when several are called or writers are blocked.
CloseReturns == \A c \in Closers : pcC[c] = "called" ~> pcC[c] = "returned"

\* The writer is an append-only log: entries are taken one at a time in the
\* order of their requests, nothing is taken after a failure or after sealing,
\* and sealing waits until everything taken was confirmed to its writer.
Abstract == INSTANCE AppendLog WITH
    log <- lines,
    confirmed <- Accepted,
    persisted <- flushed,
    phase <- IF ~closed THEN "open" ELSE IF pcR = "done" THEN "settled" ELSE "sealed",
    broken <- writeErr,
    verdict <- IF pcR # "done" THEN "none" ELSE IF err THEN "error" ELSE "ok"

ImplementsAppendLog == Abstract!Spec
=============================================================================
