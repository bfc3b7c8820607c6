------------------------------ MODULE AppendLog ------------------------------
(***************************************************************************)
(* What the experiment needs from an output file (producer.jsonl,          *)
(* consumer.jsonl): an append-only log shared by concurrent writers.  The  *)
(* log takes entries one at a time until it breaks or is sealed, confirms  *)
(* only what it took, and is settled at most once, with the verdict "ok"   *)
(* only when every entry it took is in the file and nothing was refused.   *)
(* JSONLWriter is shown to implement this specification.                   *)
(***************************************************************************)
EXTENDS Naturals, Sequences

CONSTANT Entries    \* what the writers may append, each at most once

VARIABLES
    log,        \* the entries taken, in order
    confirmed,  \* the entries whose writer was told they were taken
    persisted,  \* how many entries of log are completely in the file
    phase,      \* "open", "sealed" (takes no more entries) or "settled"
    broken,     \* an entry was refused by a failure: none is taken after it
    verdict     \* what settling reported: "none", "ok" or "error"

avars == <<log, confirmed, persisted, phase, broken, verdict>>

Taken == {log[k] : k \in 1..Len(log)}

Init ==
    /\ log = <<>>
    /\ confirmed = {}
    /\ persisted = 0
    /\ phase = "open"
    /\ broken = FALSE
    /\ verdict = "none"

\* Taking an entry may spill earlier entries to the file.
Take(e) ==
    /\ phase = "open"
    /\ ~broken
    /\ e \notin Taken
    /\ log' = Append(log, e)
    /\ persisted' \in persisted..Len(log')
    /\ UNCHANGED <<confirmed, phase, broken, verdict>>

Break ==
    /\ phase = "open"
    /\ broken' = TRUE
    /\ persisted' \in persisted..Len(log)
    /\ UNCHANGED <<log, confirmed, phase, verdict>>

Confirm(e) ==
    /\ phase = "open"
    /\ e \in Taken
    /\ confirmed' = confirmed \cup {e}
    /\ UNCHANGED <<log, persisted, phase, broken, verdict>>

Seal ==
    /\ phase = "open"
    /\ confirmed = Taken
    /\ phase' = "sealed"
    /\ UNCHANGED <<log, confirmed, persisted, broken, verdict>>

Persist ==
    /\ phase = "sealed"
    /\ persisted' \in persisted..Len(log)
    /\ UNCHANGED <<log, confirmed, phase, broken, verdict>>

Settle ==
    /\ phase = "sealed"
    /\ phase' = "settled"
    /\ verdict' \in IF persisted = Len(log) /\ ~broken
                    THEN {"ok", "error"}
                    ELSE {"error"}
    /\ UNCHANGED <<log, confirmed, persisted, broken>>

Next ==
    \/ \E e \in Entries : Take(e) \/ Confirm(e)
    \/ Break
    \/ Seal
    \/ Persist
    \/ Settle

Spec == Init /\ [][Next]_avars
=============================================================================
