--------------------------- MODULE MCFaultInjection ---------------------------
(***************************************************************************)
(* Two runners, each a real or a dry run, on two brokers whose pods        *)
(* restart a bounded number of times.                                      *)
(***************************************************************************)
EXTENDS FaultInjection, TLC

CONSTANTS r1, r2, b1, b2

TwoRunners == {r1, r2}
TwoBrokers == {b1, b2}

\* The runners are interchangeable and so are the brokers.
Symmetry == Permutations(TwoRunners) \cup Permutations(TwoBrokers)
=============================================================================
