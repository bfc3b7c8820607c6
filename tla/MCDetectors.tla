------------------------------ MODULE MCDetectors ------------------------------
(***************************************************************************)
(* Three brokers, two of whose IDs end in the same digit, and IDs in       *)
(* decimal.                                                                *)
(***************************************************************************)
EXTENDS Detectors

Figures == <<"0", "1", "2", "3", "4", "5", "6", "7", "8", "9">>

Decimal[n \in Nat] ==
    (IF n < 10 THEN <<>> ELSE Decimal[n \div 10]) \o <<Figures[1 + (n % 10)]>>

ThreeBrokers == {1, 2, 11}
DigitsOfThree == [b \in ThreeBrokers |-> Decimal[b]]
=============================================================================
