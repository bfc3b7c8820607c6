-------------------------- MODULE IntegrityTracker --------------------------
(***************************************************************************)
(* internal/integrity/tracker.go: what the consumer learns from a record   *)
(* of one topic.  A tracker is the set of message ids seen and, for each   *)
(* partition, the offset and sequence of the last record that counts: the  *)
(* first delivery of a message at the highest offset so far.               *)
(***************************************************************************)
EXTENDS Naturals, Integers

NoPosition == [offset |-> -1, sequence |-> 0]

NewTracker(partitions) ==
    [seen |-> {}, last |-> [p \in partitions |-> NoPosition]]

\* Mutants: the offset of the record is not compared with the last one's, or
\* the last record is replaced by duplicates too.
AdvancesAlways(t, p, offset, id) == id \notin t.seen
AdvancesOnDuplicates(t, p, offset, id) == TRUE

\* The record is a first delivery beyond everything counted so far.
Advances(t, p, offset, id) ==
    /\ id \notin t.seen
    /\ offset > t.last[p].offset

\* The flags Observe returns; OutOfOrder is SequenceRegression.
Observe(t, p, offset, id, sequence) ==
    LET compared == t.last[p] # NoPosition /\ Advances(t, p, offset, id)
    IN  [duplicate  |-> id \in t.seen,
         regression |-> compared /\ sequence <= t.last[p].sequence,
         gap        |-> compared /\ sequence > t.last[p].sequence + 1]

\* The tracker Observe leaves behind.
Observed(t, p, offset, id, sequence) ==
    [seen |-> t.seen \cup {id},
     last |-> IF Advances(t, p, offset, id)
              THEN [t.last EXCEPT ![p] = [offset |-> offset, sequence |-> sequence]]
              ELSE t.last]
=============================================================================
