-------------------------- MODULE JSONLWriterProofs --------------------------
(***************************************************************************)
(* For every number of writers, closers and calls, and every capacity of   *)
(* the request channel: the safety invariants of JSONLWriter hold, it      *)
(* implements AppendLog, the file keeps the order of the calls, no request *)
(* is lost and the goroutines never all wait.                              *)
(***************************************************************************)
EXTENDS JSONLWriter, TLAPS

\* A writer inside Write has called it: its current entry is one.
CallsInv == \A w \in Writers : pcW[w] # "idle" => calls[w] >= 1

\* Holding the read lock across the send and the answer keeps Close out.
LockInv ==
    /\ closed = requestsClosed
    /\ \A w \in Writers : requestsClosed => pcW[w] \notin {"sending", "waiting"}
    /\ \A c \in Closers : pcC[c] \in {"draining", "returned"} => requestsClosed

\* A queued request is the current, unanswered one of a waiting writer, and
\* is queued once; a writer that is still to send has no answer.
QueueInv ==
    /\ \A k \in 1..Len(requests) :
          /\ requests[k] = EntryOf(requests[k][1])
          /\ pcW[requests[k][1]] = "waiting"
          /\ reply[requests[k][1]] = "none"
    /\ \A j, k \in 1..Len(requests) : requests[j] = requests[k] => j = k
    /\ \A w \in Writers : pcW[w] \in {"called", "locked", "sending"} => reply[w] = "none"

\* An entry has no outcome before its Write returns.
OutcomeInv ==
    /\ \A w \in Writers : pcW[w] # "idle" => outcome[EntryOf(w)] = "none"
    /\ \A w \in Writers : \A i \in 1..MaxWrites : i > calls[w] => outcome[<<w, i>>] = "none"

\* The entries that run() answered with "ok" and whose Write is yet to return.
Answered(r) == {EntryOf(w) : w \in {v \in Writers : pcW[v] = "waiting" /\ reply[v] = r}}

EncodedInv == Encoded = Accepted \cup Answered("ok")

ErrorInv ==
    /\ \A e \in Entries : outcome[e] = "error" => writeErr
    /\ \A w \in Writers : pcW[w] = "waiting" /\ reply[w] = "error" => writeErr

\* What run() leaves behind, and what Close reads of it.
FinishInv ==
    /\ pcR # "loop" => requestsClosed
    /\ pcR # "loop" /\ ~err => flushed = Len(lines) /\ ~torn
    /\ pcR = "done" /\ writeErr => err
    /\ \A c \in Closers : verdict[c] = "ok" => pcR = "done" /\ ~err

IInv ==
    /\ TypeOK
    /\ CallsInv
    /\ LockInv
    /\ QueueInv
    /\ OutcomeInv
    /\ EncodedInv
    /\ ErrorInv
    /\ FinishInv

-----------------------------------------------------------------------------
\* Sequence facts used below, for any set of elements.
LEMMA EmptySeq == ASSUME NEW S PROVE <<>> \in Seq(S) /\ Len(<<>>) = 0
  OBVIOUS

LEMMA AppendSeq ==
  ASSUME NEW S, NEW s \in Seq(S), NEW e \in S
  PROVE  /\ Append(s, e) \in Seq(S)
         /\ Len(Append(s, e)) = Len(s) + 1
         /\ \A k \in 1..Len(s) : Append(s, e)[k] = s[k]
         /\ Append(s, e)[Len(s) + 1] = e
  OBVIOUS

LEMMA TailSeq ==
  ASSUME NEW S, NEW s \in Seq(S), s # <<>>
  PROVE  /\ Head(s) \in S
         /\ Len(s) >= 1
         /\ Head(s) = s[1]
         /\ Tail(s) \in Seq(S)
         /\ Len(Tail(s)) = Len(s) - 1
         /\ \A k \in 1..Len(Tail(s)) : Tail(s)[k] = s[k + 1]
  OBVIOUS

LEMMA LenSeq == ASSUME NEW S, NEW s \in Seq(S)
                PROVE Len(s) \in Nat /\ \A k \in 1..Len(s) : s[k] \in S
  OBVIOUS
-----------------------------------------------------------------------------
LEMMA EntryInEntries ==
  ASSUME TypeOK, CallsInv, NEW w \in Writers, pcW[w] # "idle"
  PROVE  EntryOf(w) \in Entries
  BY WriterAssumption DEF TypeOK, CallsInv, EntryOf, Entries

LEMMA HeadWriter == ASSUME NEW e \in Entries PROVE e[1] \in Writers
  BY DEF Entries

LEMMA TypeInit == Init => TypeOK /\ CallsInv
<1> SUFFICES ASSUME Init PROVE TypeOK /\ CallsInv
  OBVIOUS
<1>1. requests \in Seq(Entries) /\ lines \in Seq(Entries) /\ Len(lines) = 0
  BY EmptySeq DEF Init
<1>2. calls \in [Writers -> 0..MaxWrites]
  BY WriterAssumption DEF Init
<1>3. flushed \in 0..Len(lines)
  BY <1>1 DEF Init
<1>4. CallsInv
  BY DEF Init, CallsInv
<1> QED
  BY <1>1, <1>2, <1>3, <1>4 DEF Init, TypeOK

\* Every action keeps every variable in its type.
LEMMA TypeStep == TypeOK /\ CallsInv /\ [Next]_vars => TypeOK' /\ CallsInv'
<1> SUFFICES ASSUME TypeOK, CallsInv, [Next]_vars PROVE TypeOK' /\ CallsInv'
  OBVIOUS
<1> USE DEF vars, writerVars, closerVars, runVars, fileVars
<1>0. Len(lines) \in Nat /\ Len(requests) \in Nat
  BY LenSeq DEF TypeOK
<1>h. requests # <<>> => /\ Head(requests) \in Entries
                         /\ Head(requests)[1] \in Writers
                         /\ Tail(requests) \in Seq(Entries)
  BY TailSeq, HeadWriter DEF TypeOK
<1>1. ASSUME NEW w \in Writers, BeginWrite(w) PROVE TypeOK' /\ CallsInv'
  <2>1. calls' \in [Writers -> 0..MaxWrites]
    BY <1>1, WriterAssumption DEF BeginWrite, TypeOK
  <2>2. CallsInv'
    BY <1>1, WriterAssumption DEF BeginWrite, TypeOK, CallsInv
  <2> QED
    BY <1>1, <2>1, <2>2 DEF BeginWrite, TypeOK
<1>2. ASSUME NEW w \in Writers, RLock(w) PROVE TypeOK' /\ CallsInv'
  BY <1>2 DEF RLock, TypeOK, CallsInv
<1>3. ASSUME NEW w \in Writers, CheckClosed(w) PROVE TypeOK' /\ CallsInv'
  BY <1>3 DEF CheckClosed, TypeOK, CallsInv
<1>4. ASSUME NEW w \in Writers, Send(w) PROVE TypeOK' /\ CallsInv'
  <2>1. requests' \in Seq(Entries)
    BY <1>4, EntryInEntries, AppendSeq DEF Send, TypeOK
  <2> QED
    BY <1>4, <2>1 DEF Send, TypeOK, CallsInv
<1>5. ASSUME NEW w \in Writers, WriteReturn(w) PROVE TypeOK' /\ CallsInv'
  BY <1>5 DEF WriteReturn, TypeOK, CallsInv
<1>6. ASSUME NEW c \in Closers, BeginClose(c) PROVE TypeOK' /\ CallsInv'
  BY <1>6 DEF BeginClose, TypeOK, CallsInv
<1>7. ASSUME NEW c \in Closers, Announce(c) PROVE TypeOK' /\ CallsInv'
  BY <1>7 DEF Announce, TypeOK, CallsInv
<1>8. ASSUME NEW c \in Closers, CloseRequests(c) PROVE TypeOK' /\ CallsInv'
  BY <1>8 DEF CloseRequests, TypeOK, CallsInv
<1>9. ASSUME NEW c \in Closers, CloseReturn(c) PROVE TypeOK' /\ CallsInv'
  BY <1>9 DEF CloseReturn, TypeOK, CallsInv
<1>10. ASSUME EncodeOk PROVE TypeOK' /\ CallsInv'
  <2>1. lines' \in Seq(Entries) /\ Len(lines') = Len(lines) + 1
    BY <1>10, <1>h, AppendSeq DEF EncodeOk, TypeOK
  <2>2. flushed' \in 0..Len(lines') /\ torn' \in BOOLEAN
    <3>1. flushed' \in flushed..Len(lines')
      BY <1>10 DEF EncodeOk, Spill
    <3>2. torn' \in BOOLEAN
      BY <1>10 DEF EncodeOk, Spill
    <3> QED
      BY <2>1, <3>1, <3>2, <1>0 DEF TypeOK
  <2> QED
    BY <1>10, <1>h, <2>1, <2>2 DEF EncodeOk, Answer, TypeOK, CallsInv
<1>11. ASSUME NEW io \in BOOLEAN, EncodeFails(io) PROVE TypeOK' /\ CallsInv'
  <2>1. flushed' \in 0..Len(lines') /\ torn' \in BOOLEAN
    BY <1>11, <1>0 DEF EncodeFails, TypeOK
  <2>2. bufErr' \in BOOLEAN
    BY <1>11 DEF EncodeFails
  <2> QED
    BY <1>11, <1>h, <2>1, <2>2 DEF EncodeFails, Answer, TypeOK, CallsInv
<1>12. ASSUME Refuse PROVE TypeOK' /\ CallsInv'
  BY <1>12, <1>h DEF Refuse, Answer, TypeOK, CallsInv
<1>13. ASSUME FlushOk PROVE TypeOK' /\ CallsInv'
  <2>1. flushed' \in 0..Len(lines')
    BY <1>13, <1>0 DEF FlushOk, TypeOK
  <2> QED
    BY <1>13, <2>1 DEF FlushOk, TypeOK, CallsInv
<1>14. ASSUME FlushFails PROVE TypeOK' /\ CallsInv'
  BY <1>14, <1>0 DEF FlushFails, TypeOK, CallsInv
<1>15. ASSUME Finish PROVE TypeOK' /\ CallsInv'
  <2>1. err' \in BOOLEAN
    BY <1>15 DEF Finish
  <2> QED
    BY <1>15, <2>1 DEF Finish, TypeOK, CallsInv
<1>16. CASE UNCHANGED vars
  BY <1>16 DEF TypeOK, CallsInv
<1> QED
  BY <1>1, <1>2, <1>3, <1>4, <1>5, <1>6, <1>7, <1>8, <1>9, <1>10, <1>11, <1>12,
     <1>13, <1>14, <1>15, <1>16
  DEF Next, WriterStep, CloserStep, RunStep, EncodeFailure

\* Every variable keeps its type; a number of flushed lines is one of lines.
THEOREM TypeCorrect == Spec => []TypeOK
<1>1. Init => TypeOK /\ CallsInv
  BY TypeInit
<1>2. TypeOK /\ CallsInv /\ [Next]_vars => (TypeOK /\ CallsInv)'
  BY TypeStep
<1> QED
  BY <1>1, <1>2, PTL DEF Spec
-----------------------------------------------------------------------------
(***************************************************************************)
(* Each part of IInv is preserved, given the parts before it.              *)
(***************************************************************************)
LEMMA LockStep == TypeOK /\ LockInv /\ [Next]_vars => LockInv'
<1> SUFFICES ASSUME TypeOK, LockInv, [Next]_vars PROVE LockInv'
  OBVIOUS
<1> USE DEF TypeOK, LockInv, vars, writerVars, closerVars, runVars, fileVars
<1>1. ASSUME NEW w \in Writers, BeginWrite(w) \/ WriterStep(w) PROVE LockInv'
  BY <1>1 DEF BeginWrite, WriterStep, RLock, CheckClosed, Send, WriteReturn
<1>2. ASSUME NEW c \in Closers, BeginClose(c) \/ Announce(c) \/ CloseReturn(c)
      PROVE LockInv'
  BY <1>2 DEF BeginClose, Announce, CloseReturn
<1>3. ASSUME NEW c \in Closers, CloseRequests(c) PROVE LockInv'
  BY <1>3 DEF CloseRequests, Readers
<1>4. ASSUME RunStep PROVE LockInv'
  BY <1>4 DEF RunStep, EncodeOk, EncodeFailure, EncodeFails, Refuse, Answer,
              FlushOk, FlushFails, Finish
<1>5. CASE UNCHANGED vars
  BY <1>5
<1> QED
  BY <1>1, <1>2, <1>3, <1>4, <1>5 DEF Next, CloserStep

\* Taking the head of the queue and answering its writer keeps QueueInv.
LEMMA AnswerKeepsQueue ==
  ASSUME TypeOK, CallsInv, QueueInv, NEW r \in {"ok", "error"}, requests # <<>>,
         Answer(Head(requests)[1], r), UNCHANGED <<pcW, calls>>
  PROVE  QueueInv'
<1> DEFINE h == Head(requests)[1]
<1>1. /\ h \in Writers /\ h = requests[1][1] /\ Len(requests) >= 1
      /\ Len(requests') = Len(requests) - 1
      /\ Len(requests) \in Nat
      /\ \A k \in 1..Len(requests') : requests'[k] = requests[k + 1]
  BY TailSeq, HeadWriter, LenSeq DEF Answer, TypeOK
<1>2. requests[1] = EntryOf(h)
  BY <1>1 DEF QueueInv
<1>3. ASSUME NEW k \in 1..Len(requests')
      PROVE  /\ requests'[k] = EntryOf(requests'[k][1])
             /\ requests'[k][1] \in Writers
             /\ requests'[k][1] # h
             /\ pcW[requests'[k][1]] = "waiting"
             /\ reply[requests'[k][1]] = "none"
  <2>1. k + 1 \in 1..Len(requests) /\ 1 \in 1..Len(requests) /\ k + 1 # 1
    BY <1>1
  <2>2. requests'[k] = requests[k + 1]
    BY <1>1
  <2>3. requests[k + 1][1] \in Writers
    BY <2>1, LenSeq, HeadWriter DEF TypeOK
  <2> QED
    BY <1>2, <2>1, <2>2, <2>3 DEF QueueInv
<1>4. ASSUME NEW w \in Writers, w # h PROVE reply'[w] = reply[w]
  BY <1>4, <1>1 DEF Answer, TypeOK
<1>5. \A w \in Writers : EntryOf(w)' = EntryOf(w)
  BY DEF EntryOf
<1>6. ASSUME NEW j \in 1..Len(requests'), NEW k \in 1..Len(requests'),
             requests'[j] = requests'[k]
      PROVE  j = k
  <2>1. j + 1 \in 1..Len(requests) /\ k + 1 \in 1..Len(requests)
    BY <1>1
  <2> QED
    BY <1>1, <1>6, <2>1 DEF QueueInv
<1>7. ASSUME NEW w \in Writers, pcW[w] \in {"called", "locked", "sending"}
      PROVE  reply'[w] = "none"
  <2>1. w # h
    BY <1>1, <1>7 DEF QueueInv
  <2> QED
    BY <2>1, <1>4, <1>7 DEF QueueInv
<1> QED
  BY <1>3, <1>4, <1>5, <1>6, <1>7 DEF QueueInv

LEMMA QueueStep == TypeOK /\ CallsInv /\ QueueInv /\ [Next]_vars => QueueInv'
<1> SUFFICES ASSUME TypeOK, CallsInv, QueueInv, [Next]_vars PROVE QueueInv'
  OBVIOUS
<1> USE DEF vars, writerVars, closerVars, runVars, fileVars
<1>0. \A k \in 1..Len(requests) : requests[k] \in Entries /\ requests[k][1] \in Writers
  BY LenSeq, HeadWriter DEF TypeOK
<1>1. ASSUME NEW w \in Writers, BeginWrite(w) PROVE QueueInv'
  BY <1>0, <1>1 DEF BeginWrite, QueueInv, TypeOK, EntryOf
<1>2. ASSUME NEW w \in Writers, RLock(w) \/ CheckClosed(w) PROVE QueueInv'
  BY <1>0, <1>2 DEF RLock, CheckClosed, QueueInv, TypeOK, EntryOf
<1>3. ASSUME NEW w \in Writers, Send(w) PROVE QueueInv'
  <2>1. EntryOf(w) \in Entries /\ EntryOf(w)[1] = w
    BY <1>3, EntryInEntries DEF Send, EntryOf
  <2>2. /\ Len(requests') = Len(requests) + 1
        /\ Len(requests) \in Nat
        /\ \A k \in 1..Len(requests) : requests'[k] = requests[k]
        /\ requests'[Len(requests) + 1] = EntryOf(w)
    BY <1>3, <2>1, AppendSeq, LenSeq DEF Send, TypeOK
  <2>4. \A k \in 1..Len(requests) : requests[k] # EntryOf(w)
    BY <1>3, <2>1 DEF Send, QueueInv
  <2>5. \A k \in 1..Len(requests') : k \in 1..Len(requests) \/ k = Len(requests) + 1
    BY <2>2
  <2>6. reply' = reply /\ reply[w] = "none" /\ pcW' = [pcW EXCEPT ![w] = "waiting"]
    BY <1>3 DEF Send, QueueInv
  <2>7. \A k \in 1..Len(requests') :
           /\ requests'[k] = <<requests'[k][1], calls'[requests'[k][1]]>>
           /\ pcW'[requests'[k][1]] = "waiting"
           /\ reply'[requests'[k][1]] = "none"
    <3> TAKE k \in 1..Len(requests')
    <3>1. CASE k \in 1..Len(requests)
      BY <3>1, <1>0, <1>3, <2>2, <2>6 DEF Send, QueueInv, TypeOK, EntryOf
    <3>2. CASE k = Len(requests) + 1
      BY <3>2, <1>3, <2>1, <2>2, <2>6 DEF Send, TypeOK, EntryOf
    <3> QED
      BY <3>1, <3>2, <2>5
  <2>8. \A j, k \in 1..Len(requests') : requests'[j] = requests'[k] => j = k
    BY <2>2, <2>4, <2>5 DEF QueueInv
  <2>9. \A v \in Writers : pcW'[v] \in {"called", "locked", "sending"} => reply'[v] = "none"
    BY <2>6 DEF QueueInv, TypeOK
  <2> QED
    BY <2>7, <2>8, <2>9 DEF QueueInv, EntryOf
<1>4. ASSUME NEW w \in Writers, WriteReturn(w) PROVE QueueInv'
  BY <1>0, <1>4 DEF WriteReturn, QueueInv, TypeOK, EntryOf
<1>5. ASSUME NEW c \in Closers, BeginClose(c) \/ CloserStep(c) PROVE QueueInv'
  BY <1>5 DEF BeginClose, CloserStep, Announce, CloseRequests, CloseReturn, QueueInv, EntryOf
<1>6. CASE EncodeOk
  BY <1>6, AnswerKeepsQueue DEF EncodeOk
<1>7. CASE EncodeFailure
  BY <1>7, AnswerKeepsQueue DEF EncodeFailure, EncodeFails
<1>8. CASE Refuse
  BY <1>8, AnswerKeepsQueue DEF Refuse
<1>9. CASE FlushOk \/ FlushFails \/ Finish
  BY <1>9 DEF FlushOk, FlushFails, Finish, QueueInv, EntryOf
<1>10. CASE UNCHANGED vars
  BY <1>10 DEF QueueInv, EntryOf
<1> QED
  BY <1>1, <1>2, <1>3, <1>4, <1>5, <1>6, <1>7, <1>8, <1>9, <1>10
  DEF Next, WriterStep, RunStep

LEMMA OutcomeStep == TypeOK /\ CallsInv /\ OutcomeInv /\ [Next]_vars => OutcomeInv'
<1> SUFFICES ASSUME TypeOK, CallsInv, OutcomeInv, [Next]_vars PROVE OutcomeInv'
  OBVIOUS
<1> USE DEF vars, writerVars, closerVars, runVars, fileVars
<1>1. ASSUME NEW w \in Writers, BeginWrite(w) PROVE OutcomeInv'
  <2>1. calls[w] + 1 \in 1..MaxWrites /\ calls[w] + 1 > calls[w]
    BY <1>1, WriterAssumption DEF BeginWrite, TypeOK
  <2>2. outcome' = outcome /\ calls' = [calls EXCEPT ![w] = calls[w] + 1]
                          /\ pcW' = [pcW EXCEPT ![w] = "called"]
    BY <1>1 DEF BeginWrite
  <2>3. ASSUME NEW v \in Writers, pcW'[v] # "idle" PROVE outcome'[<<v, calls'[v]>>] = "none"
    <3>1. CASE v = w
      BY <2>1, <2>2, <3>1 DEF OutcomeInv, TypeOK
    <3>2. CASE v # w
      BY <2>2, <2>3, <3>2 DEF OutcomeInv, TypeOK, EntryOf
    <3> QED
      BY <3>1, <3>2
  <2>4. ASSUME NEW v \in Writers, NEW i \in 1..MaxWrites, i > calls'[v]
        PROVE  outcome'[<<v, i>>] = "none"
    <3>1. calls[v] \in Nat /\ calls'[v] >= calls[v]
      BY <2>2 DEF TypeOK
    <3>2. i > calls[v]
      BY <2>4, <3>1, <2>2, WriterAssumption DEF TypeOK
    <3> QED
      BY <3>2, <2>2 DEF OutcomeInv
  <2> QED
    BY <2>3, <2>4 DEF OutcomeInv, EntryOf
<1>2. ASSUME NEW w \in Writers, RLock(w) \/ Send(w) PROVE OutcomeInv'
  BY <1>2 DEF RLock, Send, OutcomeInv, TypeOK, EntryOf
<1>3. ASSUME NEW w \in Writers, CheckClosed(w) \/ WriteReturn(w) PROVE OutcomeInv'
  <2>1. calls[w] \in 1..MaxWrites /\ calls' = calls
    BY <1>3, WriterAssumption DEF CheckClosed, WriteReturn, TypeOK, CallsInv
  <2>2. \A v \in Writers : v # w => pcW'[v] = pcW[v]
    BY <1>3 DEF CheckClosed, WriteReturn, TypeOK
  <2>3. ASSUME NEW e \in Entries, outcome'[e] # outcome[e] PROVE e = EntryOf(w) /\ pcW'[w] = "idle"
    BY <1>3, <2>3 DEF CheckClosed, WriteReturn, TypeOK
  <2>4. ASSUME NEW v \in Writers, pcW'[v] # "idle" PROVE outcome'[<<v, calls'[v]>>] = "none"
    <3>1. CASE v = w
      <4>1. outcome' = outcome /\ pcW[w] # "idle"
        BY <1>3, <2>4, <3>1 DEF CheckClosed, WriteReturn, TypeOK
      <4> QED
        BY <2>1, <3>1, <4>1 DEF OutcomeInv, EntryOf
    <3>2. CASE v # w
      <4>1. pcW[v] # "idle" /\ EntryOf(v) \in Entries /\ EntryOf(v) # EntryOf(w)
        BY <2>2, <2>4, <3>2, EntryInEntries DEF EntryOf
      <4> QED
        BY <2>1, <2>3, <4>1 DEF OutcomeInv, EntryOf
    <3> QED
      BY <3>1, <3>2
  <2>5. ASSUME NEW v \in Writers, NEW i \in 1..MaxWrites, i > calls'[v]
        PROVE  outcome'[<<v, i>>] = "none"
    <3>1. <<v, i>> \in Entries /\ <<v, i>> # EntryOf(w)
      BY <2>1, <2>5, WriterAssumption DEF Entries, EntryOf
    <3> QED
      BY <2>1, <2>3, <2>5, <3>1 DEF OutcomeInv
  <2> QED
    BY <2>4, <2>5 DEF OutcomeInv, EntryOf
<1>4. ASSUME NEW c \in Closers, BeginClose(c) \/ CloserStep(c) PROVE OutcomeInv'
  BY <1>4 DEF BeginClose, CloserStep, Announce, CloseRequests, CloseReturn, OutcomeInv, EntryOf
<1>5. CASE RunStep
  BY <1>5 DEF RunStep, EncodeOk, EncodeFailure, EncodeFails, Refuse,
              FlushOk, FlushFails, Finish, OutcomeInv, EntryOf
<1>6. CASE UNCHANGED vars
  BY <1>6 DEF OutcomeInv, EntryOf
<1> QED
  BY <1>1, <1>2, <1>3, <1>4, <1>5, <1>6 DEF Next, WriterStep

\* The writer of the request at the head waits for its answer; the answer
\* changes its reply alone.
LEMMA AnswerOne ==
  ASSUME TypeOK, CallsInv, QueueInv, NEW r, requests # <<>>,
         Answer(Head(requests)[1], r)
  PROVE  LET w == Head(requests)[1]
         IN  /\ w \in Writers
             /\ Head(requests) = EntryOf(w)
             /\ EntryOf(w) \in Entries
             /\ pcW[w] = "waiting"
             /\ reply[w] = "none"
             /\ reply'[w] = r
             /\ \A v \in Writers : v # w => reply'[v] = reply[v]
<1>1. Head(requests)[1] \in Writers /\ Head(requests) = requests[1] /\ Len(requests) >= 1
  BY TailSeq, HeadWriter DEF TypeOK
<1>2. 1 \in 1..Len(requests)
  BY <1>1, LenSeq DEF TypeOK
<1> QED
  BY <1>1, <1>2, EntryInEntries DEF Answer, QueueInv, TypeOK

\* Encoding a request adds it to the encoded entries.
LEMMA EncodeAdds ==
  ASSUME TypeOK, NEW e \in Entries, lines' = Append(lines, e)
  PROVE  Encoded' = Encoded \cup {e}
<1>1. /\ Len(lines) \in Nat /\ Len(lines') = Len(lines) + 1
      /\ \A k \in 1..Len(lines) : lines'[k] = lines[k]
      /\ lines'[Len(lines) + 1] = e
  BY AppendSeq, LenSeq DEF TypeOK
<1>2. \A k : k \in 1..Len(lines') <=> k \in 1..Len(lines) \/ k = Len(lines) + 1
  BY <1>1
<1> QED
  BY <1>1, <1>2 DEF Encoded

\* Nothing is confirmed while its Write has not returned.
LEMMA CurrentNotAccepted ==
  ASSUME OutcomeInv, NEW w \in Writers, pcW[w] # "idle"
  PROVE  EntryOf(w) \notin Accepted
  BY DEF OutcomeInv, Accepted

\* What the steps of Write and run() do to the encoded and accepted entries;
\* they are cited by the invariant and by the refinement.
LEMMA WriteReturnAccepts ==
  ASSUME TypeOK, CallsInv, OutcomeInv, NEW w \in Writers, WriteReturn(w)
  PROVE  /\ Accepted' = IF reply[w] = "ok" THEN Accepted \cup {EntryOf(w)} ELSE Accepted
         /\ Answered("ok")' = Answered("ok") \ {EntryOf(w)}
         /\ reply[w] = "ok" => EntryOf(w) \in Answered("ok")
<1>1. EntryOf(w) \in Entries /\ outcome[EntryOf(w)] = "none"
  BY EntryInEntries DEF WriteReturn, OutcomeInv
<1>2. /\ outcome' = [outcome EXCEPT ![EntryOf(w)] = reply[w]]
      /\ pcW' = [pcW EXCEPT ![w] = "idle"] /\ pcW[w] = "waiting"
      /\ UNCHANGED <<calls, reply>>
  BY DEF WriteReturn
<1>3. Accepted' = IF reply[w] = "ok" THEN Accepted \cup {EntryOf(w)} ELSE Accepted
  BY <1>1, <1>2 DEF Accepted, TypeOK
<1>4. Answered("ok")' = Answered("ok") \ {EntryOf(w)}
  BY <1>2 DEF Answered, EntryOf, TypeOK
<1>5. reply[w] = "ok" => EntryOf(w) \in Answered("ok")
  BY <1>2 DEF Answered
<1> QED
  BY <1>3, <1>4, <1>5

LEMMA CheckClosedAccepts ==
  ASSUME TypeOK, CallsInv, OutcomeInv, NEW w \in Writers, CheckClosed(w)
  PROVE  Accepted' = Accepted /\ Answered("ok")' = Answered("ok")
<1>1. EntryOf(w) \in Entries /\ outcome[EntryOf(w)] = "none"
  BY EntryInEntries DEF CheckClosed, OutcomeInv
<1>2. \/ outcome' = [outcome EXCEPT ![EntryOf(w)] = "closed"]
      \/ outcome' = outcome
  BY DEF CheckClosed
<1>3. Accepted' = Accepted
  BY <1>1, <1>2 DEF Accepted, TypeOK
<1>4. pcW[w] = "locked" /\ pcW'[w] \in {"idle", "sending"}
      /\ (\A v \in Writers : v # w => pcW'[v] = pcW[v]) /\ UNCHANGED <<calls, reply>>
  BY DEF CheckClosed, TypeOK
<1>5. Answered("ok")' = Answered("ok")
  BY <1>4 DEF Answered, EntryOf
<1> QED
  BY <1>3, <1>5

LEMMA EncodedStep ==
  TypeOK /\ CallsInv /\ QueueInv /\ OutcomeInv /\ EncodedInv /\ [Next]_vars => EncodedInv'
<1> SUFFICES ASSUME TypeOK, CallsInv, QueueInv, OutcomeInv, EncodedInv, [Next]_vars
             PROVE  EncodedInv'
  OBVIOUS
<1> USE DEF vars, writerVars, closerVars, runVars, fileVars
<1>1. ASSUME NEW w \in Writers, BeginWrite(w) PROVE EncodedInv'
  <2>1. Answered("ok")' = Answered("ok")
    BY <1>1 DEF BeginWrite, Answered, EntryOf, TypeOK
  <2> QED
    BY <1>1, <2>1 DEF BeginWrite, EncodedInv, Encoded, Accepted
<1>2. ASSUME NEW w \in Writers, RLock(w) PROVE EncodedInv'
  <2>1. Answered("ok")' = Answered("ok")
    BY <1>2 DEF RLock, Answered, EntryOf, TypeOK
  <2> QED
    BY <1>2, <2>1 DEF RLock, EncodedInv, Encoded, Accepted
<1>3. ASSUME NEW w \in Writers, CheckClosed(w) PROVE EncodedInv'
  BY <1>3, CheckClosedAccepts DEF CheckClosed, EncodedInv, Encoded
<1>4. ASSUME NEW w \in Writers, Send(w) PROVE EncodedInv'
  <2>1. reply[w] = "none" /\ reply' = reply
    BY <1>4 DEF Send, QueueInv
  <2>2. Answered("ok")' = Answered("ok")
    BY <1>4, <2>1 DEF Send, Answered, EntryOf, TypeOK
  <2> QED
    BY <1>4, <2>2 DEF Send, EncodedInv, Encoded, Accepted
<1>5. ASSUME NEW w \in Writers, WriteReturn(w) PROVE EncodedInv'
  <2>1. Encoded' = Encoded
    BY <1>5 DEF WriteReturn, Encoded
  <2>2. reply[w] # "ok" => EntryOf(w) \notin Answered("ok")
    BY <1>5 DEF WriteReturn, Answered, EntryOf
  <2> QED
    BY <1>5, <2>1, <2>2, WriteReturnAccepts DEF EncodedInv
<1>6. ASSUME NEW c \in Closers, BeginClose(c) \/ CloserStep(c) PROVE EncodedInv'
  BY <1>6 DEF BeginClose, CloserStep, Announce, CloseRequests, CloseReturn,
              EncodedInv, Encoded, Accepted, Answered, EntryOf
<1>7. CASE EncodeOk
  <2> DEFINE w == Head(requests)[1]
  <2>1. /\ w \in Writers /\ Head(requests) = EntryOf(w) /\ EntryOf(w) \in Entries
        /\ pcW[w] = "waiting" /\ reply[w] = "none" /\ reply'[w] = "ok"
        /\ \A v \in Writers : v # w => reply'[v] = reply[v]
    BY <1>7, AnswerOne DEF EncodeOk
  <2>2. Encoded' = Encoded \cup {EntryOf(w)}
    BY <1>7, <2>1, EncodeAdds DEF EncodeOk
  <2>3. Answered("ok")' = Answered("ok") \cup {EntryOf(w)}
    BY <1>7, <2>1 DEF EncodeOk, Answered, EntryOf
  <2>4. Accepted' = Accepted
    BY <1>7 DEF EncodeOk, Accepted
  <2> QED
    BY <2>2, <2>3, <2>4 DEF EncodedInv
<1>8. CASE EncodeFailure \/ Refuse
  <2> DEFINE w == Head(requests)[1]
  <2>1. /\ w \in Writers /\ reply[w] = "none" /\ reply'[w] = "error"
        /\ \A v \in Writers : v # w => reply'[v] = reply[v]
    BY <1>8, AnswerOne DEF EncodeFailure, EncodeFails, Refuse
  <2>2. UNCHANGED <<pcW, calls, outcome, lines>>
    BY <1>8 DEF EncodeFailure, EncodeFails, Refuse
  <2>3. Answered("ok")' = Answered("ok")
    BY <2>1, <2>2 DEF Answered, EntryOf
  <2> QED
    BY <2>2, <2>3 DEF EncodedInv, Encoded, Accepted
<1>9. CASE FlushOk \/ FlushFails \/ Finish
  BY <1>9 DEF FlushOk, FlushFails, Finish, EncodedInv, Encoded, Accepted, Answered, EntryOf
<1>10. CASE UNCHANGED vars
  BY <1>10 DEF EncodedInv, Encoded, Accepted, Answered, EntryOf
<1> QED
  BY <1>1, <1>2, <1>3, <1>4, <1>5, <1>6, <1>7, <1>8, <1>9, <1>10
  DEF Next, WriterStep, RunStep

LEMMA ErrorStep ==
  TypeOK /\ CallsInv /\ QueueInv /\ ErrorInv /\ [Next]_vars => ErrorInv'
<1> SUFFICES ASSUME TypeOK, CallsInv, QueueInv, ErrorInv, [Next]_vars PROVE ErrorInv'
  OBVIOUS
<1> USE DEF vars, writerVars, closerVars, runVars, fileVars
<1>1. ASSUME NEW w \in Writers, BeginWrite(w) \/ RLock(w) \/ CheckClosed(w) PROVE ErrorInv'
  BY <1>1 DEF BeginWrite, RLock, CheckClosed, ErrorInv, TypeOK
<1>2. ASSUME NEW w \in Writers, Send(w) PROVE ErrorInv'
  BY <1>2 DEF Send, QueueInv, ErrorInv, TypeOK
<1>3. ASSUME NEW w \in Writers, WriteReturn(w) PROVE ErrorInv'
  BY <1>3 DEF WriteReturn, ErrorInv, TypeOK
<1>4. ASSUME NEW c \in Closers, BeginClose(c) \/ CloserStep(c) PROVE ErrorInv'
  BY <1>4 DEF BeginClose, CloserStep, Announce, CloseRequests, CloseReturn, ErrorInv
<1>5. CASE EncodeOk
  BY <1>5, AnswerOne DEF EncodeOk, ErrorInv
<1>6. CASE EncodeFailure \/ Refuse
  <2>1. writeErr' = TRUE
    BY <1>6 DEF EncodeFailure, EncodeFails, Refuse, TypeOK
  <2> QED
    BY <2>1 DEF ErrorInv
<1>7. CASE FlushOk \/ FlushFails \/ Finish
  BY <1>7 DEF FlushOk, FlushFails, Finish, ErrorInv
<1>8. CASE UNCHANGED vars
  BY <1>8 DEF ErrorInv
<1> QED
  BY <1>1, <1>2, <1>3, <1>4, <1>5, <1>6, <1>7, <1>8 DEF Next, WriterStep, RunStep

LEMMA FinishStep == TypeOK /\ LockInv /\ FinishInv /\ [Next]_vars => FinishInv'
<1> SUFFICES ASSUME TypeOK, LockInv, FinishInv, [Next]_vars PROVE FinishInv'
  OBVIOUS
<1> USE DEF vars, writerVars, closerVars, runVars, fileVars
<1>1. ASSUME NEW w \in Writers, BeginWrite(w) \/ WriterStep(w) PROVE FinishInv'
  BY <1>1 DEF BeginWrite, WriterStep, RLock, CheckClosed, Send, WriteReturn, FinishInv
<1>2. ASSUME NEW c \in Closers, BeginClose(c) \/ Announce(c) \/ CloseRequests(c) PROVE FinishInv'
  BY <1>2 DEF BeginClose, Announce, CloseRequests, LockInv, FinishInv
<1>3. ASSUME NEW c \in Closers, CloseReturn(c) PROVE FinishInv'
  BY <1>3 DEF CloseReturn, FinishInv, TypeOK
<1>4. CASE EncodeOk \/ EncodeFailure \/ Refuse
  BY <1>4 DEF EncodeOk, EncodeFailure, EncodeFails, Refuse, FinishInv
<1>5. CASE FlushOk \/ FlushFails
  BY <1>5 DEF FlushOk, FlushFails, FinishInv
<1>6. CASE Finish
  BY <1>6 DEF Finish, FinishInv
<1>7. CASE UNCHANGED vars
  BY <1>7 DEF FinishInv
<1> QED
  BY <1>1, <1>2, <1>3, <1>4, <1>5, <1>6, <1>7 DEF Next, CloserStep, RunStep

LEMMA InvInit == Init => IInv
<1> SUFFICES ASSUME Init PROVE IInv
  OBVIOUS
<1>1. TypeOK /\ CallsInv
  BY TypeInit
<1>2. LockInv /\ ErrorInv /\ FinishInv /\ OutcomeInv
  BY WriterAssumption DEF Init, LockInv, ErrorInv, FinishInv, OutcomeInv, Entries
<1>3. Len(requests) = 0 /\ Len(lines) = 0
  BY EmptySeq DEF Init
<1>4. QueueInv
  BY <1>3 DEF Init, QueueInv
<1>5. EncodedInv
  BY <1>3 DEF Init, EncodedInv, Encoded, Accepted, Answered
<1> QED
  BY <1>1, <1>2, <1>4, <1>5 DEF IInv

LEMMA InvStep == IInv /\ [Next]_vars => IInv'
  BY TypeStep, LockStep, QueueStep, OutcomeStep, EncodedStep, ErrorStep, FinishStep DEF IInv

LEMMA Inductive == Spec => []IInv
  BY InvInit, InvStep, PTL DEF Spec
-----------------------------------------------------------------------------
\* Write never sends on the channel that Close closed: the read lock it holds
\* until it is answered keeps Close from closing it.
THEOREM NeverSendsOnClosed == Spec => []NoSendOnClosedChannel
<1>1. IInv => NoSendOnClosedChannel
  BY DEF IInv, LockInv, NoSendOnClosedChannel
<1> QED
  BY <1>1, Inductive, PTL

\* A Close that returns nil leaves exactly the confirmed entries in the file.
THEOREM SealedIsComplete == Spec => []SealedFileIsComplete
<1>1. IInv => SealedFileIsComplete
  <2> SUFFICES ASSUME IInv, NEW c \in Closers, verdict[c] = "ok"
               PROVE  flushed = Len(lines) /\ ~torn /\ Encoded = Accepted
    BY DEF SealedFileIsComplete
  <2>1. pcR = "done" /\ ~err
    BY DEF IInv, FinishInv
  <2>2. requestsClosed
    BY <2>1 DEF IInv, FinishInv
  <2>3. Answered("ok") = {}
    BY <2>2 DEF IInv, LockInv, Answered
  <2> QED
    BY <2>1, <2>3 DEF IInv, FinishInv, EncodedInv
<1> QED
  BY <1>1, Inductive, PTL

\* No Close returns nil when some Write reported an error.
THEOREM NoHiddenError == Spec => []ErrorNeverHidden
<1>1. IInv => ErrorNeverHidden
  BY DEF IInv, ErrorInv, FinishInv, ErrorNeverHidden
<1> QED
  BY <1>1, Inductive, PTL
-----------------------------------------------------------------------------
(***************************************************************************)
(* Refinement.  Under the mapping of JSONLWriter!Abstract, EncodeOk is     *)
(* Take, an encoding failure Break, a successful WriteReturn Confirm, the  *)
(* first CloseRequests Seal, flushing Persist, Finish Settle; every other  *)
(* step changes nothing the log shows.                                     *)
(***************************************************************************)
\* The steps that change neither what the log shows nor its phase.
Silent ==
    /\ UNCHANGED <<lines, flushed, closed, pcR, writeErr, err>>
    /\ Accepted' = Accepted

LEMMA SilentStutters == Silent => UNCHANGED Abstract!avars
  BY DEF Silent, Abstract!avars

\* While a request is queued, or answered and not yet returned, nobody closed.
LEMMA BusyIsOpen ==
  ASSUME IInv, NEW w \in Writers, pcW[w] \in {"sending", "waiting"}
  PROVE  ~closed
  BY DEF IInv, LockInv

LEMMA AbstractStep == IInv /\ [Next]_vars => [Abstract!Next]_Abstract!avars
<1> SUFFICES ASSUME IInv, [Next]_vars PROVE Abstract!Next \/ UNCHANGED Abstract!avars
  OBVIOUS
<1> USE DEF vars, writerVars, closerVars, runVars, fileVars
<1>0. /\ TypeOK /\ CallsInv /\ QueueInv /\ OutcomeInv /\ Abstract!Taken = Encoded
      /\ Len(lines) \in Nat /\ flushed \in Nat /\ flushed \in 0..Len(lines)
  BY LenSeq DEF IInv, Abstract!Taken, Encoded, TypeOK
<1>1. ASSUME NEW w \in Writers, BeginWrite(w) \/ RLock(w) \/ CheckClosed(w) \/ Send(w)
      PROVE  Silent
  <2>1. CASE CheckClosed(w)
    BY <1>0, <2>1, CheckClosedAccepts DEF CheckClosed, Silent
  <2>2. CASE BeginWrite(w) \/ RLock(w) \/ Send(w)
    BY <2>2 DEF BeginWrite, RLock, Send, Silent, Accepted
  <2> QED
    BY <1>1, <2>1, <2>2
<1>2. ASSUME NEW w \in Writers, WriteReturn(w)
      PROVE  Silent \/ (Abstract!Confirm(EntryOf(w)) /\ EntryOf(w) \in Entries)
  <2>1. /\ UNCHANGED <<lines, flushed, closed, pcR, writeErr, err>>
        /\ pcW[w] = "waiting"
    BY <1>2 DEF WriteReturn
  <2>2. CASE reply[w] # "ok"
    BY <1>0, <1>2, <2>1, <2>2, WriteReturnAccepts DEF Silent
  <2>3. CASE reply[w] = "ok"
    <3>1. Accepted' = Accepted \cup {EntryOf(w)} /\ EntryOf(w) \in Answered("ok")
      BY <1>0, <1>2, <2>3, WriteReturnAccepts
    <3>2. EntryOf(w) \in Encoded /\ ~closed
      BY <2>1, <3>1, BusyIsOpen DEF IInv, EncodedInv
    <3>3. EntryOf(w) \in Entries
      BY <1>0, <2>1, EntryInEntries
    <3> QED
      BY <1>0, <2>1, <3>1, <3>2, <3>3 DEF Abstract!Confirm
  <2> QED
    BY <2>2, <2>3
<1>3. ASSUME NEW c \in Closers, BeginClose(c) \/ Announce(c) \/ CloseReturn(c) PROVE Silent
  BY <1>3 DEF BeginClose, Announce, CloseReturn, Silent, Accepted
<1>4. ASSUME NEW c \in Closers, CloseRequests(c) PROVE Silent \/ Abstract!Seal
  <2>1. /\ UNCHANGED <<lines, flushed, pcR, writeErr, err, outcome>>
        /\ closed' = TRUE /\ Readers = {}
    BY <1>4 DEF CloseRequests
  <2>2. Accepted' = Accepted
    BY <2>1 DEF Accepted
  <2>3. CASE closed
    BY <2>1, <2>2, <2>3 DEF Silent
  <2>4. CASE ~closed
    <3>1. Encoded = Accepted
      BY <2>1 DEF IInv, EncodedInv, Answered, Readers
    <3>2. pcR = "loop"
      BY <2>4 DEF IInv, FinishInv, LockInv
    <3> QED
      BY <1>0, <2>1, <2>2, <2>4, <3>1, <3>2 DEF Abstract!Seal
  <2> QED
    BY <2>3, <2>4 DEF IInv, TypeOK
<1>5. CASE EncodeOk
  <2> DEFINE w == Head(requests)[1]
  <2>1. /\ w \in Writers /\ Head(requests) = EntryOf(w) /\ EntryOf(w) \in Entries
        /\ pcW[w] = "waiting" /\ reply[w] = "none"
    BY <1>0, <1>5, AnswerOne DEF EncodeOk
  <2>2. EntryOf(w) \notin Encoded
    <3>1. EntryOf(w) \notin Accepted
      BY <1>0, <2>1, CurrentNotAccepted
    <3>2. EntryOf(w) \notin Answered("ok")
      BY <2>1 DEF Answered, EntryOf
    <3> QED
      BY <3>1, <3>2 DEF IInv, EncodedInv
  <2>3. ~closed
    BY <2>1, BusyIsOpen
  <2>4. /\ lines' = Append(lines, EntryOf(w)) /\ flushed' \in flushed..Len(lines')
        /\ Accepted' = Accepted /\ ~writeErr
        /\ UNCHANGED <<closed, pcR, writeErr, err>>
    BY <1>5, <2>1 DEF EncodeOk, Spill, Accepted
  <2>5. Abstract!Take(EntryOf(w))
    BY <1>0, <2>2, <2>3, <2>4 DEF Abstract!Take
  <2> QED
    BY <2>1, <2>5 DEF Abstract!Next
<1>6. CASE EncodeFailure
  <2>1. PICK io \in BOOLEAN : EncodeFails(io)
    BY <1>6 DEF EncodeFailure
  <2>2. ~closed
    BY <1>0, <2>1, AnswerOne, BusyIsOpen DEF EncodeFails
  <2>3. flushed' \in flushed..Len(lines)
    BY <1>0, <2>1 DEF EncodeFails
  <2>4. Abstract!Break
    BY <2>1, <2>2, <2>3 DEF EncodeFails, Abstract!Break, Accepted
  <2> QED
    BY <2>4 DEF Abstract!Next
<1>7. CASE Refuse
  BY <1>7, SilentStutters DEF Refuse, Silent, Accepted
<1>8. CASE FlushOk \/ FlushFails
  <2>1. flushed' \in flushed..Len(lines)
    BY <1>0, <1>8 DEF FlushOk, FlushFails
  <2>2. closed /\ pcR = "loop" /\ pcR' = "finish"
    BY <1>8 DEF FlushOk, FlushFails, IInv, LockInv
  <2>3. UNCHANGED <<lines, closed, writeErr>> /\ Accepted' = Accepted
    BY <1>8 DEF FlushOk, FlushFails, Accepted
  <2>4. Abstract!Persist
    BY <2>1, <2>2, <2>3 DEF Abstract!Persist
  <2> QED
    BY <2>4 DEF Abstract!Next
<1>9. CASE Finish
  <2>1. closed /\ pcR = "finish" /\ pcR' = "done" /\ (~err => flushed = Len(lines))
    BY <1>9 DEF Finish, IInv, LockInv, FinishInv
  <2>2. UNCHANGED <<lines, flushed, closed, writeErr>> /\ Accepted' = Accepted
    BY <1>9 DEF Finish, Accepted
  <2>3. ~err' => ~err /\ ~writeErr
    BY <1>9 DEF Finish
  <2>4. ~err' => flushed = Len(lines) /\ ~writeErr
    BY <2>1, <2>3
  <2>5. Abstract!Settle
    <3>1. CASE err'
      BY <2>1, <2>2, <3>1 DEF Abstract!Settle
    <3>2. CASE ~err'
      BY <2>1, <2>2, <2>4, <3>2 DEF Abstract!Settle
    <3> QED
      BY <3>1, <3>2
  <2> QED
    BY <2>5 DEF Abstract!Next
<1>10. CASE UNCHANGED vars
  BY <1>10, SilentStutters DEF Silent, Accepted
<1> QED
  BY <1>1, <1>2, <1>3, <1>4, <1>5, <1>6, <1>7, <1>8, <1>9, <1>10, SilentStutters
  DEF Next, WriterStep, CloserStep, RunStep, Abstract!Next

\* The writer implements the append-only log its users rely on: what Write
\* confirmed is taken in order, and nil from Close means it is all in the file.
THEOREM Implementation == Spec => ImplementsAppendLog
<1>1. Init => Abstract!Init
  BY DEF Init, Abstract!Init, Accepted
<1>2. IInv /\ [Next]_vars => [Abstract!Next]_Abstract!avars
  BY AbstractStep
<1> QED
  BY <1>1, <1>2, Inductive, PTL DEF Spec, ImplementsAppendLog, Abstract!Spec
-----------------------------------------------------------------------------
(***************************************************************************)
(* The order of the lines.  A line is the current call of its writer when  *)
(* it is encoded, and the calls of a writer come one after the other.      *)
(***************************************************************************)
\* The lines of a writer are in the order of its calls, none of them twice.
LinesInCallOrder ==
    \A j, k \in 1..Len(lines) :
        j < k /\ lines[j][1] = lines[k][1] => lines[j][2] < lines[k][2]

\* No line is of a call that is yet to come.
LinesCalled == \A k \in 1..Len(lines) : lines[k][2] <= calls[lines[k][1]]

OrderInv == LinesInCallOrder /\ LinesCalled

LEMMA LineTypes ==
  ASSUME TypeOK, NEW k \in 1..Len(lines)
  PROVE  /\ lines[k] \in Entries /\ lines[k][1] \in Writers
         /\ lines[k][2] \in Nat /\ calls[lines[k][1]] \in Nat
<1>1. lines[k] \in Entries
  BY LenSeq DEF TypeOK
<1> QED
  BY <1>1 DEF Entries, TypeOK

LEMMA EncodeKeepsOrder == IInv /\ OrderInv /\ EncodeOk => OrderInv'
<1> SUFFICES ASSUME IInv, OrderInv, EncodeOk PROVE OrderInv'
  OBVIOUS
<1> DEFINE w == Head(requests)[1]
           n == Len(lines)
<1>1. TypeOK /\ CallsInv /\ QueueInv /\ OutcomeInv /\ EncodedInv
  BY DEF IInv
<1>2. /\ w \in Writers /\ Head(requests) = EntryOf(w) /\ EntryOf(w) \in Entries
      /\ pcW[w] = "waiting" /\ reply[w] = "none"
  BY <1>1, AnswerOne DEF EncodeOk
<1>3. /\ n \in Nat /\ Len(lines') = n + 1
      /\ \A k \in 1..n : lines'[k] = lines[k]
      /\ lines'[n + 1] = <<w, calls[w]>>
  BY <1>1, <1>2, AppendSeq, LenSeq DEF EncodeOk, TypeOK, EntryOf
<1>4. calls' = calls /\ calls[w] \in Nat
  BY <1>1, <1>2 DEF EncodeOk, TypeOK
<1>5. EntryOf(w) \notin Encoded
  <2>1. EntryOf(w) \notin Accepted
    BY <1>1, <1>2, CurrentNotAccepted
  <2>2. EntryOf(w) \notin Answered("ok")
    BY <1>2 DEF Answered, EntryOf
  <2> QED
    BY <1>1, <2>1, <2>2 DEF EncodedInv
<1>6. ASSUME NEW k \in 1..n, lines[k][1] = w
      PROVE  lines[k][2] < calls[w]
  <2>1. lines[k][2] <= calls[w] /\ lines[k][2] \in Nat
    BY <1>1, <1>6, LineTypes DEF OrderInv, LinesCalled
  <2>2. lines[k] \in Encoded /\ lines[k] = <<lines[k][1], lines[k][2]>>
    <3>1. lines[k] \in Entries
      BY <1>1, LineTypes
    <3> QED
      BY <3>1 DEF Encoded, Entries
  <2>3. lines[k][2] # calls[w]
    BY <1>5, <1>6, <2>2 DEF EntryOf
  <2> QED
    BY <1>4, <2>1, <2>3
<1>7. \A k \in 1..n + 1 : k \in 1..n \/ k = n + 1
  BY <1>3
<1>8. ASSUME NEW j \in 1..n + 1, NEW k \in 1..n + 1, j < k, lines'[j][1] = lines'[k][1]
      PROVE  lines'[j][2] < lines'[k][2]
  <2>1. j \in 1..n
    BY <1>3, <1>8
  <2>2. CASE k \in 1..n
    BY <1>3, <1>8, <2>1, <2>2 DEF OrderInv, LinesInCallOrder
  <2>3. CASE k = n + 1
    BY <1>3, <1>6, <1>8, <2>1, <2>3
  <2> QED
    BY <1>7, <2>2, <2>3
<1>9. ASSUME NEW k \in 1..n + 1
      PROVE  lines'[k][2] <= calls'[lines'[k][1]]
  <2>1. CASE k \in 1..n
    BY <1>3, <1>4, <2>1 DEF OrderInv, LinesCalled
  <2>2. CASE k = n + 1
    BY <1>3, <1>4, <2>2
  <2> QED
    BY <1>7, <2>1, <2>2
<1> QED
  BY <1>3, <1>8, <1>9 DEF OrderInv, LinesInCallOrder, LinesCalled

LEMMA OrderStep == IInv /\ OrderInv /\ [Next]_vars => OrderInv'
<1> SUFFICES ASSUME IInv, OrderInv, [Next]_vars PROVE OrderInv'
  OBVIOUS
<1> USE DEF vars, writerVars, closerVars, runVars, fileVars
<1>1. ASSUME NEW w \in Writers, BeginWrite(w) PROVE OrderInv'
  <2>1. lines' = lines /\ \A v \in Writers : calls[v] \in Nat /\ calls'[v] >= calls[v]
    BY <1>1 DEF BeginWrite, IInv, TypeOK
  <2>2. ASSUME NEW k \in 1..Len(lines) PROVE lines[k][2] <= calls'[lines[k][1]]
    <3>1. /\ lines[k][1] \in Writers /\ lines[k][2] \in Nat
          /\ lines[k][2] <= calls[lines[k][1]]
      BY LineTypes DEF IInv, OrderInv, LinesCalled
    <3>2. calls'[lines[k][1]] \in Nat
      BY <1>1, <3>1 DEF BeginWrite, IInv, TypeOK
    <3> QED
      BY <2>1, <3>1, <3>2
  <2> QED
    BY <2>1, <2>2 DEF OrderInv, LinesInCallOrder, LinesCalled
<1>2. CASE EncodeOk
  BY <1>2, EncodeKeepsOrder
<1>3. CASE UNCHANGED <<lines, calls>>
  BY <1>3 DEF OrderInv, LinesInCallOrder, LinesCalled
<1>4. \/ \E w \in Writers : BeginWrite(w)
      \/ EncodeOk
      \/ UNCHANGED <<lines, calls>>
  BY DEF Next, WriterStep, RLock, CheckClosed, Send, WriteReturn, BeginClose, CloserStep,
         Announce, CloseRequests, CloseReturn, RunStep, EncodeFailure, EncodeFails, Refuse,
         FlushOk, FlushFails, Finish
<1> QED
  BY <1>1, <1>2, <1>3, <1>4

\* Whatever interleaves and fails, a writer's lines are in the file in the
\* order of its calls of Write, and no entry is there twice.
THEOREM LinesKeepCallOrder == Spec => []LinesInCallOrder
<1>1. Init => OrderInv
  BY EmptySeq DEF Init, OrderInv, LinesInCallOrder, LinesCalled
<1>2. OrderInv => LinesInCallOrder
  BY DEF OrderInv
<1> QED
  BY <1>1, <1>2, OrderStep, Inductive, PTL DEF Spec
-----------------------------------------------------------------------------
(***************************************************************************)
(* Nobody waits on everybody.  A waiting writer's request is in the        *)
(* channel as long as run() has not answered it, and run() stays in its    *)
(* loop meanwhile: it can go on whenever somebody waits for it.            *)
(***************************************************************************)
AwaitInv ==
    \A w \in Writers : pcW[w] = "waiting" /\ reply[w] = "none" =>
        \E k \in 1..Len(requests) : requests[k] = EntryOf(w)

\* A request is not lost: until it is answered it is queued, and run() has not
\* left the loop that answers it.
NoLostRequest ==
    \A w \in Writers : pcW[w] = "waiting" /\ reply[w] = "none" =>
        /\ pcR = "loop"
        /\ \E k \in 1..Len(requests) : requests[k] = EntryOf(w)

LEMMA AnswerKeepsAwait ==
  ASSUME TypeOK, CallsInv, QueueInv, AwaitInv, NEW r \in {"ok", "error"}, requests # <<>>,
         Answer(Head(requests)[1], r), UNCHANGED <<pcW, calls>>
  PROVE  AwaitInv'
<1> DEFINE h == Head(requests)[1]
<1>1. /\ h \in Writers /\ Head(requests) = EntryOf(h) /\ reply'[h] = r
      /\ \A v \in Writers : v # h => reply'[v] = reply[v]
  BY AnswerOne
<1>2. /\ Head(requests) = requests[1] /\ Len(requests) \in Nat
      /\ Len(requests') = Len(requests) - 1
      /\ \A k \in 1..Len(requests') : requests'[k] = requests[k + 1]
  BY TailSeq, LenSeq DEF Answer, TypeOK
<1>3. ASSUME NEW w \in Writers, pcW[w] = "waiting", reply'[w] = "none"
      PROVE  \E k \in 1..Len(requests') : requests'[k] = EntryOf(w)
  <2>1. w # h /\ reply[w] = "none"
    BY <1>1, <1>3
  <2>2. PICK k \in 1..Len(requests) : requests[k] = EntryOf(w)
    BY <1>3, <2>1 DEF AwaitInv
  <2>3. k # 1
    BY <1>1, <1>2, <2>1, <2>2 DEF EntryOf
  <2>4. k - 1 \in 1..Len(requests') /\ (k - 1) + 1 = k
    BY <1>2, <2>2, <2>3
  <2>5. requests'[k - 1] = EntryOf(w)
    BY <1>2, <2>2, <2>4
  <2> QED
    BY <2>4, <2>5
<1> QED
  BY <1>3 DEF AwaitInv, EntryOf

LEMMA AwaitStep == IInv /\ AwaitInv /\ [Next]_vars => AwaitInv'
<1> SUFFICES ASSUME IInv, AwaitInv, [Next]_vars PROVE AwaitInv'
  OBVIOUS
<1> USE DEF vars, writerVars, closerVars, runVars, fileVars
<1>0. TypeOK /\ CallsInv /\ QueueInv
  BY DEF IInv
<1>1. ASSUME NEW w \in Writers, BeginWrite(w) \/ RLock(w) \/ CheckClosed(w) \/ WriteReturn(w)
      PROVE  AwaitInv'
  <2>1. /\ requests' = requests /\ pcW'[w] # "waiting"
        /\ \A v \in Writers : v # w => /\ pcW'[v] = pcW[v] /\ reply'[v] = reply[v]
                                       /\ calls'[v] = calls[v]
    BY <1>0, <1>1 DEF BeginWrite, RLock, CheckClosed, WriteReturn, TypeOK
  <2> QED
    BY <2>1 DEF AwaitInv, EntryOf
<1>2. ASSUME NEW w \in Writers, Send(w) PROVE AwaitInv'
  <2>1. EntryOf(w) \in Entries
    BY <1>0, <1>2, EntryInEntries DEF Send
  <2>2. /\ Len(requests) \in Nat /\ Len(requests') = Len(requests) + 1
        /\ \A k \in 1..Len(requests) : requests'[k] = requests[k]
        /\ requests'[Len(requests) + 1] = EntryOf(w)
    BY <1>0, <1>2, <2>1, AppendSeq, LenSeq DEF Send, TypeOK
  <2>3. UNCHANGED <<calls, reply>> /\ \A v \in Writers : v # w => pcW'[v] = pcW[v]
    BY <1>0, <1>2 DEF Send, TypeOK
  <2>4. ASSUME NEW v \in Writers, pcW'[v] = "waiting", reply'[v] = "none"
        PROVE  \E k \in 1..Len(requests') : requests'[k] = EntryOf(v)
    <3>1. CASE v = w
      <4>1. Len(requests) + 1 \in 1..Len(requests')
        BY <2>2
      <4> QED
        BY <2>2, <3>1, <4>1
    <3>2. CASE v # w
      <4>1. PICK k \in 1..Len(requests) : requests[k] = EntryOf(v)
        BY <2>3, <2>4, <3>2 DEF AwaitInv
      <4>2. k \in 1..Len(requests')
        BY <2>2
      <4> QED
        BY <2>2, <4>1, <4>2
    <3> QED
      BY <3>1, <3>2
  <2> QED
    BY <2>3, <2>4 DEF AwaitInv, EntryOf
<1>3. ASSUME NEW c \in Closers, BeginClose(c) \/ CloserStep(c) PROVE AwaitInv'
  BY <1>3 DEF BeginClose, CloserStep, Announce, CloseRequests, CloseReturn, AwaitInv, EntryOf
<1>4. CASE EncodeOk
  BY <1>0, <1>4, AnswerKeepsAwait DEF EncodeOk
<1>5. CASE EncodeFailure
  BY <1>0, <1>5, AnswerKeepsAwait DEF EncodeFailure, EncodeFails
<1>6. CASE Refuse
  BY <1>0, <1>6, AnswerKeepsAwait DEF Refuse
<1>7. CASE FlushOk \/ FlushFails \/ Finish
  BY <1>7 DEF FlushOk, FlushFails, Finish, AwaitInv, EntryOf
<1>8. CASE UNCHANGED vars
  BY <1>8 DEF AwaitInv, EntryOf
<1> QED
  BY <1>1, <1>2, <1>3, <1>4, <1>5, <1>6, <1>7, <1>8 DEF Next, WriterStep, RunStep

LEMMA AwaitInductive == Spec => [](IInv /\ AwaitInv)
<1>1. Init => AwaitInv
  BY DEF Init, AwaitInv
<1> QED
  BY <1>1, AwaitStep, Inductive, PTL DEF Spec

LEMMA WaitingIsServed == IInv /\ AwaitInv => NoLostRequest
<1> SUFFICES ASSUME IInv, AwaitInv, NEW w \in Writers, pcW[w] = "waiting", reply[w] = "none"
             PROVE  /\ pcR = "loop"
                    /\ \E k \in 1..Len(requests) : requests[k] = EntryOf(w)
  BY DEF NoLostRequest
<1>1. ~requestsClosed
  BY DEF IInv, LockInv
<1>2. pcR = "loop"
  BY <1>1 DEF IInv, FinishInv
<1> QED
  BY <1>2 DEF AwaitInv

\* A Write that waits for an answer has its request in the channel, and run()
\* is in the loop that will answer it: neither a failure nor Close drops it.
THEOREM RequestsAreNotLost == Spec => []NoLostRequest
  BY AwaitInductive, WaitingIsServed, PTL

\* When a goroutine inside Write, inside Close or run() is not blocked: by the
\* lock, the channel, an answer, or done.
WriterCanGoOn(w) ==
    \/ pcW[w] = "called" /\ Announced = {}
    \/ pcW[w] = "locked"
    \/ pcW[w] = "sending" /\ Len(requests) < Capacity
    \/ pcW[w] = "waiting" /\ reply[w] # "none"

CloserCanGoOn(c) ==
    \/ pcC[c] = "called" /\ Announced = {}
    \/ pcC[c] = "announced" /\ Readers = {}
    \/ pcC[c] = "draining" /\ pcR = "done"

RunCanGoOn ==
    \/ pcR = "loop" /\ (requests # <<>> \/ requestsClosed)
    \/ pcR = "finish"

SomebodyInside ==
    \/ \E w \in Writers : pcW[w] # "idle"
    \/ \E c \in Closers : pcC[c] \in {"called", "announced", "draining"}

\* Somebody inside Write or Close: then somebody can go on.
NoStandstill ==
    SomebodyInside =>
        \/ \E w \in Writers : WriterCanGoOn(w)
        \/ \E c \in Closers : CloserCanGoOn(c)
        \/ RunCanGoOn

\* A reader that holds the lock goes on, or run() does.
LEMMA ReadersGoOn ==
  ASSUME IInv, AwaitInv, NEW w \in Readers
  PROVE  WriterCanGoOn(w) \/ RunCanGoOn
<1>1. w \in Writers /\ pcW[w] \in {"locked", "sending", "waiting"}
  BY DEF Readers
<1>2. CASE pcW[w] = "locked"
  BY <1>2 DEF WriterCanGoOn
<1>3. CASE pcW[w] = "sending"
  <2>1. pcR = "loop"
    BY <1>1, <1>3 DEF IInv, LockInv, FinishInv
  <2>2. Len(requests) \in Nat /\ Capacity \in Nat \ {0} /\ (requests = <<>> => Len(requests) = 0)
    BY LenSeq, EmptySeq, WriterAssumption DEF IInv, TypeOK
  <2>3. Len(requests) < Capacity \/ requests # <<>>
    BY <2>2
  <2> QED
    BY <1>3, <2>1, <2>3 DEF WriterCanGoOn, RunCanGoOn
<1>4. CASE pcW[w] = "waiting"
  <2>1. CASE reply[w] # "none"
    BY <1>4, <2>1 DEF WriterCanGoOn
  <2>2. CASE reply[w] = "none"
    <3>1. pcR = "loop" /\ \E k \in 1..Len(requests) : requests[k] = EntryOf(w)
      BY <1>1, <1>4, <2>2, WaitingIsServed DEF NoLostRequest
    <3>2. requests # <<>>
      BY <3>1, EmptySeq
    <3> QED
      BY <3>1, <3>2 DEF RunCanGoOn
  <2> QED
    BY <2>1, <2>2
<1> QED
  BY <1>1, <1>2, <1>3, <1>4

\* A closer that has announced itself, or waits for run(), is waited for too.
LEMMA ClosersGoOn ==
  ASSUME IInv, AwaitInv, NEW c \in Closers, pcC[c] \in {"announced", "draining"}
  PROVE  \/ \E w \in Writers : WriterCanGoOn(w)
         \/ CloserCanGoOn(c)
         \/ RunCanGoOn
<1>1. CASE pcC[c] = "announced"
  <2>1. CASE Readers = {}
    BY <1>1, <2>1 DEF CloserCanGoOn
  <2>2. CASE Readers # {}
    <3>1. PICK w \in Readers : TRUE
      BY <2>2
    <3>2. w \in Writers
      BY DEF Readers
    <3> QED
      BY <3>2, ReadersGoOn
  <2> QED
    BY <2>1, <2>2
<1>2. CASE pcC[c] = "draining"
  <2>1. requestsClosed /\ pcR \in {"loop", "finish", "done"}
    BY <1>2 DEF IInv, LockInv, TypeOK
  <2> QED
    BY <1>2, <2>1 DEF CloserCanGoOn, RunCanGoOn
<1> QED
  BY <1>1, <1>2

\* The lock, the channel and the answers never leave every goroutine waiting,
\* for any number of writers and closers and any capacity of the channel.
THEOREM NeverStandsStill == Spec => []NoStandstill
<1>1. IInv /\ AwaitInv => NoStandstill
  <2> SUFFICES ASSUME IInv, AwaitInv, SomebodyInside
               PROVE  \/ \E w \in Writers : WriterCanGoOn(w)
                      \/ \E c \in Closers : CloserCanGoOn(c)
                      \/ RunCanGoOn
    BY DEF NoStandstill
  <2>1. CASE Announced # {}
    <3>1. PICK c \in Announced : TRUE
      BY <2>1
    <3>2. c \in Closers /\ pcC[c] \in {"announced", "draining"}
      BY DEF Announced
    <3> QED
      BY <3>2, ClosersGoOn
  <2>2. CASE Announced = {} /\ \E w \in Writers : pcW[w] # "idle"
    <3>1. PICK w \in Writers : pcW[w] # "idle"
      BY <2>2
    <3>2. CASE pcW[w] = "called"
      BY <2>2, <3>2 DEF WriterCanGoOn
    <3>3. CASE w \in Readers
      BY <3>3, ReadersGoOn
    <3> QED
      BY <3>1, <3>2, <3>3 DEF IInv, TypeOK, Readers
  <2>3. CASE Announced = {} /\ \E c \in Closers : pcC[c] \in {"called", "announced", "draining"}
    <3>1. PICK c \in Closers : pcC[c] \in {"called", "announced", "draining"}
      BY <2>3
    <3>2. CASE pcC[c] = "called"
      BY <2>3, <3>2 DEF CloserCanGoOn
    <3>3. CASE pcC[c] \in {"announced", "draining"}
      BY <3>3, ClosersGoOn
    <3> QED
      BY <3>1, <3>2, <3>3
  <2> QED
    BY <2>1, <2>2, <2>3 DEF SomebodyInside
<1> QED
  BY <1>1, AwaitInductive, PTL
=============================================================================
