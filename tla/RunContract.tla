------------------------------ MODULE RunContract ------------------------------
(***************************************************************************)
(* What one start of the experiment runner promises to those who wait for  *)
(* it and read its directory: the contract between the runner              *)
(* (RunLifecycle) and the matrix (Matrix).  It reports through             *)
(* metadata.json while it is active, ends once, and ends well only when    *)
(* its last report was a good one; after its end nothing changes.          *)
(***************************************************************************)

VARIABLES
    status,   \* metadata.json as this start left it; "torn": not a JSON document
    outcome   \* "idle", "active", "succeeded" (exit 0) or "failed"

vars == <<status, outcome>>

GoodReports == {"passed", "dry_run"}
Reports == GoodReports \cup {"running", "failed", "torn"}

Init ==
    /\ status = "none"
    /\ outcome = "idle"

Begin ==
    /\ outcome = "idle"
    /\ outcome' = "active"
    /\ status' \in {status, "running"}

Report ==
    /\ outcome = "active"
    /\ status' \in Reports
    /\ UNCHANGED outcome

Succeed ==
    /\ outcome = "active"
    /\ status \in GoodReports
    /\ outcome' = "succeeded"
    /\ UNCHANGED status

Fail ==
    /\ outcome = "active"
    /\ outcome' = "failed"
    /\ UNCHANGED status

Next == Begin \/ Report \/ Succeed \/ Fail

Spec == Init /\ [][Next]_vars
=============================================================================
