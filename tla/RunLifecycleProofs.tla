-------------------------- MODULE RunLifecycleProofs --------------------------
(***************************************************************************)
(* Theorems about RunLifecycle, for any set of starts and any number of    *)
(* failures: its types, that traffic runs for one start at most, that the  *)
(* files the analysis was made from do not change after it, that every     *)
(* start keeps RunContract, that none stands still, that its deferred      *)
(* calls close and stop what it opened and launched, and that "passed"     *)
(* stands for complete evidence.                                           *)
(***************************************************************************)
EXTENDS RunLifecycle, TLAPS
-----------------------------------------------------------------------------
(***************************************************************************)
(* The scripts: what each step of each kind of run is, and which steps an  *)
(* action can stand at                                                     *)
(***************************************************************************)
Measured == {"baseline", "fault", "rehearsal"}
GoodReports == {"passed", "dry_run"}
Stages == {"phases", "drain", "verdict", "empty files"}

Steps ==
    ({"write"} \X {"running", "passed", "dry_run"}) \cup ({"open", "close"} \X Streams)
    \cup ({"stop", "await"} \X Components) \cup ({"collect"} \X Evidence)
    \cup ({"pass"} \X Stages)
    \cup {<<"create", "topic">>, <<"launch", "components">>, <<"refuse", "start">>}

\* Where the closing of a measured run begins, and its last step.
Base(k) == IF k = "baseline" THEN 7 ELSE IF k = "fault" THEN 9 ELSE 8
Final(k) == IF k = "baseline" THEN 17 ELSE IF k = "fault" THEN 20 ELSE 19

\* What step i of a run of kind k is.
Is(x, verb, object) == x[1] = verb /\ x[2] = object

OpeningShape(i, x) ==
    \/ i = 1 /\ Is(x, "write", "running")
    \/ i = 2 /\ Is(x, "open", "timeline")
    \/ i = 3 /\ Is(x, "create", "topic")
    \/ i = 4 /\ Is(x, "open", "producer")
    \/ i = 5 /\ Is(x, "open", "consumer")
    \/ i = 6 /\ Is(x, "launch", "components")
    \/ i = 7 /\ Is(x, "pass", "phases")

ClosingShape(i, x) ==
    \/ i = 1 /\ Is(x, "stop", "producer")
    \/ i = 2 /\ Is(x, "await", "producer")
    \/ i = 3 /\ Is(x, "pass", "drain")
    \/ i = 4 /\ Is(x, "stop", "consumer")
    \/ i = 5 /\ Is(x, "await", "consumer")
    \/ i = 6 /\ Is(x, "close", "producer")
    \/ i = 7 /\ Is(x, "close", "consumer")
    \/ i = 8 /\ Is(x, "collect", "analysis")
    \/ i = 9 /\ Is(x, "pass", "verdict")

Shape(k, i, x) ==
    \/ k \in Measured /\ OpeningShape(i, x)
    \/ k \in Measured /\ ClosingShape(i - Base(k), x)
    \/ k \in {"fault", "rehearsal"} /\ i = 8 /\ Is(x, "collect", "plan")
    \/ k = "fault" /\ i = 9 /\ Is(x, "collect", "recovery")
    \/ k = "fault" /\ i = 19 /\ Is(x, "collect", "after")
    \/ k = "rehearsal" /\ i = 18 /\ Is(x, "collect", "placeholders")
    \/ k \in {"baseline", "fault"} /\ i = Final(k) /\ Is(x, "write", "passed")
    \/ k = "rehearsal" /\ i = Final(k) /\ Is(x, "write", "dry_run")
    \/ k = "plan" /\ i = 1 /\ Is(x, "write", "dry_run")
    \/ k = "plan" /\ i = 2 /\ Is(x, "open", "timeline")
    \/ k = "plan" /\ i = 3 /\ Is(x, "close", "timeline")
    \/ k = "plan" /\ i = 4 /\ Is(x, "pass", "empty files")
    \/ k = "refused" /\ i = 1 /\ Is(x, "refuse", "start")
-----------------------------------------------------------------------------
(***************************************************************************)
(* The scripts                                                             *)
(***************************************************************************)
\* The options lead to five kinds of start.
LEMMA KindsAre == Kinds = Measured \cup {"plan", "refused"}
<1>1. Kinds \subseteq Measured \cup {"plan", "refused"}
  BY DEF Kinds, KindOf, Options, Measured
<1>2. \A b, d, c, v : [scenario |-> b, dryRun |-> d, confirmDelete |-> c, sound |-> v] \in Options
                      <=> b \in {"baseline", "fault"} /\ d \in BOOLEAN /\ c \in BOOLEAN /\ v \in BOOLEAN
  BY DEF Options
<1> DEFINE O(b, d, v) == [scenario |-> b, dryRun |-> d, confirmDelete |-> TRUE, sound |-> v]
<1>3. /\ KindOf(O("baseline", FALSE, TRUE)) = "baseline"
      /\ KindOf(O("fault", FALSE, TRUE)) = "fault"
      /\ KindOf(O("fault", TRUE, TRUE)) = "rehearsal"
      /\ KindOf(O("baseline", TRUE, TRUE)) = "plan"
      /\ KindOf(O("fault", TRUE, FALSE)) = "refused"
  BY DEF KindOf
<1>4. \A b \in {"baseline", "fault"}, d \in BOOLEAN, v \in BOOLEAN : KindOf(O(b, d, v)) \in Kinds
  BY <1>2 DEF Kinds
<1> QED
  BY <1>1, <1>3, <1>4 DEF Measured

\* Z is X and then Y.
Joins(Z, X, Y) ==
    /\ Z \in Seq(Steps)
    /\ Len(Z) = Len(X) + Len(Y)
    /\ \A i \in 1 .. Len(X) : Z[i] = X[i]
    /\ \A i \in 1 .. Len(Y) : Z[Len(X) + i] = Y[i]

LEMMA Concat == \A X, Y \in Seq(Steps) : Joins(X \o Y, X, Y)
BY DEF Joins

\* The opening, step by step.
LEMMA OpeningSteps ==
  /\ Opening \in Seq(Steps)
  /\ Len(Opening) = 7
  /\ \A i \in 1 .. 7 : OpeningShape(i, Opening[i])
<1>1. /\ <<"write", "running">> \in Steps
      /\ <<"open", "timeline">> \in Steps
      /\ <<"create", "topic">> \in Steps
      /\ <<"open", "producer">> \in Steps
      /\ <<"open", "consumer">> \in Steps
      /\ <<"launch", "components">> \in Steps
      /\ <<"pass", "phases">> \in Steps
  BY DEF Steps, Streams, Components, Stages
<1>2. Opening \in Seq(Steps)
  BY <1>1 DEF Opening
<1>3. /\ Opening[1] = <<"write", "running">>
      /\ Opening[2] = <<"open", "timeline">>
      /\ Opening[3] = <<"create", "topic">>
      /\ Opening[4] = <<"open", "producer">>
      /\ Opening[5] = <<"open", "consumer">>
      /\ Opening[6] = <<"launch", "components">>
      /\ Opening[7] = <<"pass", "phases">>
      /\ Len(Opening) = 7
  BY DEF Opening
<1>4. \A i \in 1 .. 7 : i = 1 \/ i = 2 \/ i = 3 \/ i = 4 \/ i = 5 \/ i = 6 \/ i = 7
  OBVIOUS
<1> QED
  BY <1>2, <1>3, <1>4 DEF OpeningShape, Is

\* The closing, step by step.
LEMMA ClosingSteps ==
  /\ Closing \in Seq(Steps)
  /\ Len(Closing) = 9
  /\ \A i \in 1 .. 9 : ClosingShape(i, Closing[i])
<1>1. /\ <<"stop", "producer">> \in Steps
      /\ <<"await", "producer">> \in Steps
      /\ <<"pass", "drain">> \in Steps
      /\ <<"stop", "consumer">> \in Steps
      /\ <<"await", "consumer">> \in Steps
      /\ <<"close", "producer">> \in Steps
      /\ <<"close", "consumer">> \in Steps
      /\ <<"collect", "analysis">> \in Steps
      /\ <<"pass", "verdict">> \in Steps
  BY DEF Steps, Streams, Components, Stages, Evidence
<1>2. Closing \in Seq(Steps)
  BY <1>1 DEF Closing
<1>3. /\ Closing[1] = <<"stop", "producer">>
      /\ Closing[2] = <<"await", "producer">>
      /\ Closing[3] = <<"pass", "drain">>
      /\ Closing[4] = <<"stop", "consumer">>
      /\ Closing[5] = <<"await", "consumer">>
      /\ Closing[6] = <<"close", "producer">>
      /\ Closing[7] = <<"close", "consumer">>
      /\ Closing[8] = <<"collect", "analysis">>
      /\ Closing[9] = <<"pass", "verdict">>
      /\ Len(Closing) = 9
  BY DEF Closing
<1>4. \A i \in 1 .. 9 : \/ i = 1 \/ i = 2 \/ i = 3 \/ i = 4 \/ i = 5
                        \/ i = 6 \/ i = 7 \/ i = 8 \/ i = 9
  OBVIOUS
<1> QED
  BY <1>2, <1>3, <1>4 DEF ClosingShape, Is

\* A script made of the opening, A, the closing and B.
Assembles(Z, A, B) ==
    \E F, G : Joins(F, Opening, A) /\ Joins(G, F, Closing) /\ Joins(Z, G, B)

Whole(Z, A, B) ==
    /\ Len(Z) = 16 + Len(A) + Len(B)
    /\ \A i \in 1 .. 7 : Z[i] = Opening[i]
    /\ \A i \in 1 .. Len(A) : Z[7 + i] = A[i]
    /\ \A i \in 1 .. 9 : Z[7 + Len(A) + i] = Closing[i]
    /\ \A i \in 1 .. Len(B) : Z[16 + Len(A) + i] = B[i]

LEMMA Assembled ==
  ASSUME NEW A \in Seq(Steps), NEW B \in Seq(Steps), NEW Z, Assembles(Z, A, B)
  PROVE  Whole(Z, A, B)
<1> PICK F, G : Joins(F, Opening, A) /\ Joins(G, F, Closing) /\ Joins(Z, G, B)
  BY DEF Assembles
<1>1. Len(Opening) = 7 /\ Len(Closing) = 9
  BY OpeningSteps, ClosingSteps
<1>2. Len(A) \in Nat /\ Len(B) \in Nat
  OBVIOUS
<1>3. Len(F) = 7 + Len(A) /\ Len(G) = 16 + Len(A) /\ Len(Z) = 16 + Len(A) + Len(B)
  BY <1>1, <1>2 DEF Joins
<1>4. \A i \in 1 .. 7 : Z[i] = Opening[i]
  <2> TAKE i \in 1 .. 7
  <2>1. F[i] = Opening[i]
    BY <1>1 DEF Joins
  <2>2. i \in 1 .. Len(F) /\ i \in 1 .. Len(G)
    BY <1>2, <1>3
  <2> QED
    BY <2>1, <2>2 DEF Joins
<1>5. \A i \in 1 .. Len(A) : Z[7 + i] = A[i]
  <2> TAKE i \in 1 .. Len(A)
  <2>1. F[7 + i] = A[i]
    BY <1>1 DEF Joins
  <2>2. 7 + i \in 1 .. Len(F) /\ 7 + i \in 1 .. Len(G)
    BY <1>2, <1>3
  <2> QED
    BY <2>1, <2>2 DEF Joins
<1>6. \A i \in 1 .. 9 : Z[7 + Len(A) + i] = Closing[i]
  <2> TAKE i \in 1 .. 9
  <2>1. G[7 + Len(A) + i] = Closing[i]
    BY <1>1, <1>3 DEF Joins
  <2>2. 7 + Len(A) + i \in 1 .. Len(G)
    BY <1>2, <1>3
  <2> QED
    BY <2>1, <2>2 DEF Joins
<1>7. \A i \in 1 .. Len(B) : Z[16 + Len(A) + i] = B[i]
  BY <1>3 DEF Joins
<1> QED
  BY <1>3, <1>4, <1>5, <1>6, <1>7 DEF Whole

\* Every step of a baseline is what its position says.
LEMMA BaselineSteps ==
  /\ Len(BaselineScript) = 17
  /\ \A i \in 1 .. 17 : Shape("baseline", i, BaselineScript[i])
<1> DEFINE A == <<>>
           B == << <<"write", "passed">> >>
           G == Opening \o Closing
           Z == G \o B
<1>1. A \in Seq(Steps) /\ Len(A) = 0
  OBVIOUS
<1>2. B \in Seq(Steps) /\ Len(B) = 1 /\ B[1] = <<"write", "passed">>
  BY DEF Steps
<1>3. Z = BaselineScript
  BY DEF BaselineScript
<1>4. Joins(Opening, Opening, A)
  BY <1>1, OpeningSteps DEF Joins
<1> HIDE DEF A, B
<1>5. Joins(G, Opening, Closing)
  BY OpeningSteps, ClosingSteps, Concat, Zenon
<1>6. G \in Seq(Steps)
  BY <1>5 DEF Joins
<1> HIDE DEF G
<1>7. Joins(Z, G, B)
  BY <1>2, <1>6, Concat, Zenon
<1> HIDE DEF Z
<1>8. /\ Len(Z) = 17
      /\ \A i \in 1 .. 7 : Z[i] = Opening[i]
      /\ \A i \in 1 .. 9 : Z[7 + i] = Closing[i]
      /\ Z[17] = <<"write", "passed">>
  <2>1. Assembles(Z, A, B)
    BY <1>4, <1>5, <1>7 DEF Assembles
  <2>2. Whole(Z, A, B)
    BY <1>1, <1>2, <2>1, Assembled
  <2> QED
    BY <1>1, <1>2, <2>2 DEF Whole
<1>9. ASSUME NEW i \in 1 .. 17
      PROVE  Shape("baseline", i, Z[i])
  <2>1. CASE i \in 1 .. 7
    BY <2>1, <1>8, OpeningSteps DEF Shape, Measured
  <2>2. CASE i \in 8 .. 16
    <3>1. i - 7 \in 1 .. 9 /\ i = 7 + (i - 7)
      BY <2>2
    <3>2. Z[i] = Closing[i - 7]
      BY <3>1, <1>8
    <3> QED
      BY <3>1, <3>2, ClosingSteps DEF Shape, Measured, Base
  <2>3. CASE i = 17
    BY <2>3, <1>8 DEF Shape, Is, Final
  <2> QED
    BY <2>1, <2>2, <2>3
<1> QED
  BY <1>3, <1>8, <1>9

\* Every step of a fault run is what its position says.
LEMMA FaultSteps ==
  /\ Len(FaultScript) = 20
  /\ \A i \in 1 .. 20 : Shape("fault", i, FaultScript[i])
<1> DEFINE A == << <<"collect", "plan">>, <<"collect", "recovery">> >>
           B == << <<"collect", "after">>, <<"write", "passed">> >>
           F == Opening \o A
           G == F \o Closing
           Z == G \o B
<1>1. A \in Seq(Steps) /\ Len(A) = 2 /\ A[1] = <<"collect", "plan">> /\ A[2] = <<"collect", "recovery">>
  <2>1. <<"collect", "plan">> \in Steps /\ <<"collect", "recovery">> \in Steps
    BY DEF Steps, Evidence
  <2> QED
    BY <2>1
<1>2. B \in Seq(Steps) /\ Len(B) = 2 /\ B[1] = <<"collect", "after">> /\ B[2] = <<"write", "passed">>
  <2>1. <<"collect", "after">> \in Steps /\ <<"write", "passed">> \in Steps
    BY DEF Steps, Evidence
  <2> QED
    BY <2>1
<1>3. Z = FaultScript
  BY DEF FaultScript
<1> HIDE DEF A, B
<1>4. Joins(F, Opening, A)
  BY <1>1, OpeningSteps, Concat, Zenon
<1>5. F \in Seq(Steps)
  BY <1>4 DEF Joins
<1> HIDE DEF F
<1>6. Joins(G, F, Closing)
  BY <1>5, ClosingSteps, Concat, Zenon
<1>7. G \in Seq(Steps)
  BY <1>6 DEF Joins
<1> HIDE DEF G
<1>8. Joins(Z, G, B)
  BY <1>2, <1>7, Concat, Zenon
<1> HIDE DEF Z
<1>9. /\ Len(Z) = 20
      /\ \A i \in 1 .. 7 : Z[i] = Opening[i]
      /\ \A i \in 1 .. 9 : Z[9 + i] = Closing[i]
      /\ Z[8] = <<"collect", "plan">>
      /\ Z[9] = <<"collect", "recovery">>
      /\ Z[19] = <<"collect", "after">>
      /\ Z[20] = <<"write", "passed">>
  <2>1. Assembles(Z, A, B)
    BY <1>4, <1>6, <1>8 DEF Assembles
  <2>2. Whole(Z, A, B)
    BY <1>1, <1>2, <2>1, Assembled
  <2> QED
    BY <1>1, <1>2, <2>2, SMTT(60) DEF Whole
<1>10. ASSUME NEW i \in 1 .. 20
       PROVE  Shape("fault", i, Z[i])
  <2>1. CASE i \in 1 .. 7
    BY <2>1, <1>9, OpeningSteps DEF Shape, Measured
  <2>2. CASE i \in 10 .. 18
    <3>1. i - 9 \in 1 .. 9 /\ i = 9 + (i - 9)
      BY <2>2
    <3>2. Z[i] = Closing[i - 9]
      BY <3>1, <1>9
    <3> QED
      BY <3>1, <3>2, ClosingSteps DEF Shape, Measured, Base
  <2>3. CASE i \in 8 .. 9
    BY <2>3, <1>9 DEF Shape, Is
  <2>4. CASE i \in 19 .. 20
    BY <2>4, <1>9 DEF Shape, Is, Final
  <2> QED
    BY <2>1, <2>2, <2>3, <2>4
<1> QED
  BY <1>3, <1>9, <1>10

\* Every step of a fault's dry run is what its position says.
LEMMA RehearsalSteps ==
  /\ Len(RehearsalScript) = 19
  /\ \A i \in 1 .. 19 : Shape("rehearsal", i, RehearsalScript[i])
<1> DEFINE A == << <<"collect", "plan">> >>
           B == << <<"collect", "placeholders">>, <<"write", "dry_run">> >>
           F == Opening \o A
           G == F \o Closing
           Z == G \o B
<1>1. A \in Seq(Steps) /\ Len(A) = 1 /\ A[1] = <<"collect", "plan">>
  <2>1. <<"collect", "plan">> \in Steps
    BY DEF Steps, Evidence
  <2> QED
    BY <2>1
<1>2. B \in Seq(Steps) /\ Len(B) = 2 /\ B[1] = <<"collect", "placeholders">> /\ B[2] = <<"write", "dry_run">>
  <2>1. <<"collect", "placeholders">> \in Steps /\ <<"write", "dry_run">> \in Steps
    BY DEF Steps, Evidence
  <2> QED
    BY <2>1
<1>3. Z = RehearsalScript
  BY DEF RehearsalScript
<1> HIDE DEF A, B
<1>4. Joins(F, Opening, A)
  BY <1>1, OpeningSteps, Concat, Zenon
<1>5. F \in Seq(Steps)
  BY <1>4 DEF Joins
<1> HIDE DEF F
<1>6. Joins(G, F, Closing)
  BY <1>5, ClosingSteps, Concat, Zenon
<1>7. G \in Seq(Steps)
  BY <1>6 DEF Joins
<1> HIDE DEF G
<1>8. Joins(Z, G, B)
  BY <1>2, <1>7, Concat, Zenon
<1> HIDE DEF Z
<1>9. /\ Len(Z) = 19
      /\ \A i \in 1 .. 7 : Z[i] = Opening[i]
      /\ \A i \in 1 .. 9 : Z[8 + i] = Closing[i]
      /\ Z[8] = <<"collect", "plan">>
      /\ Z[18] = <<"collect", "placeholders">>
      /\ Z[19] = <<"write", "dry_run">>
  <2>1. Assembles(Z, A, B)
    BY <1>4, <1>6, <1>8 DEF Assembles
  <2>2. Whole(Z, A, B)
    BY <1>1, <1>2, <2>1, Assembled
  <2> QED
    BY <1>1, <1>2, <2>2, SMTT(60) DEF Whole
<1>10. ASSUME NEW i \in 1 .. 19
       PROVE  Shape("rehearsal", i, Z[i])
  <2>1. CASE i \in 1 .. 7
    BY <2>1, <1>9, OpeningSteps DEF Shape, Measured
  <2>2. CASE i \in 9 .. 17
    <3>1. i - 8 \in 1 .. 9 /\ i = 8 + (i - 8)
      BY <2>2
    <3>2. Z[i] = Closing[i - 8]
      BY <3>1, <1>9
    <3> QED
      BY <3>1, <3>2, ClosingSteps DEF Shape, Measured, Base
  <2>3. CASE i \in 8 .. 8
    BY <2>3, <1>9 DEF Shape, Is
  <2>4. CASE i \in 18 .. 19
    BY <2>4, <1>9 DEF Shape, Is, Final
  <2> QED
    BY <2>1, <2>2, <2>3, <2>4
<1> QED
  BY <1>3, <1>9, <1>10

LEMMA IsPair == \A v, o : Is(<<v, o>>, v, o)
BY DEF Is

\* So does every step of the two short scripts.
LEMMA ShortSteps ==
  /\ Len(PlanScript) = 4
  /\ \A i \in 1 .. 4 : Shape("plan", i, PlanScript[i])
  /\ Len(Script["refused"]) = 1
  /\ \A i \in 1 .. 1 : Shape("refused", i, Script["refused"][i])
<1>1. /\ Len(PlanScript) = 4
      /\ PlanScript[1] = <<"write", "dry_run">>
      /\ PlanScript[2] = <<"open", "timeline">>
      /\ PlanScript[3] = <<"close", "timeline">>
      /\ PlanScript[4] = <<"pass", "empty files">>
  BY DEF PlanScript
<1>2. /\ Shape("plan", 1, PlanScript[1])
      /\ Shape("plan", 2, PlanScript[2])
      /\ Shape("plan", 3, PlanScript[3])
      /\ Shape("plan", 4, PlanScript[4])
  <2>1. /\ Is(PlanScript[1], "write", "dry_run")
        /\ Is(PlanScript[2], "open", "timeline")
        /\ Is(PlanScript[3], "close", "timeline")
        /\ Is(PlanScript[4], "pass", "empty files")
    BY <1>1, IsPair, Zenon
  <2> QED
    BY <2>1 DEF Shape
<1>3. \A i \in 1 .. 4 : i = 1 \/ i = 2 \/ i = 3 \/ i = 4
  OBVIOUS
<1>4. \A i \in 1 .. 4 : Shape("plan", i, PlanScript[i])
  BY <1>2, <1>3, Zenon
<1>5. Script["refused"] = << <<"refuse", "start">> >>
  BY DEF Script
<1>6. Len(Script["refused"]) = 1 /\ Script["refused"][1] = <<"refuse", "start">>
  BY <1>5
<1>7. Shape("refused", 1, Script["refused"][1])
  BY <1>6 DEF Shape, Is
<1>8. \A i \in 1 .. 1 : i = 1
  OBVIOUS
<1> QED
  BY <1>1, <1>4, <1>6, <1>7, <1>8, Zenon

\* The length of each script.
Length(k) == IF k \in Measured THEN Final(k) ELSE IF k = "plan" THEN 4 ELSE 1

\* Every step of every script.
LEMMA ScriptShape ==
  ASSUME NEW k \in Kinds
  PROVE  /\ Len(Script[k]) = Length(k)
         /\ \A i \in 1 .. Length(k) : Shape(k, i, Script[k][i])
<1>1. k \in {"baseline", "fault", "rehearsal", "plan", "refused"}
  BY KindsAre DEF Measured
<1>2. /\ Script["baseline"] = BaselineScript
      /\ Script["fault"] = FaultScript
      /\ Script["rehearsal"] = RehearsalScript
      /\ Script["plan"] = PlanScript
  BY DEF Script
<1>3. /\ Length("baseline") = 17
      /\ Length("fault") = 20
      /\ Length("rehearsal") = 19
      /\ Length("plan") = 4
      /\ Length("refused") = 1
  BY DEF Length, Final, Measured
<1> QED
  BY <1>1, <1>2, <1>3, BaselineSteps, FaultSteps, RehearsalSteps, ShortSteps, Zenon

\* The next step of a start is what its kind and position say.
LEMMA StepShape ==
  ASSUME NEW s \in Starts, kind[s] \in Kinds, pc[s] \in Nat \ {0}
  PROVE  /\ Ended(s) <=> pc[s] > Length(kind[s])
         /\ ~Ended(s) => Shape(kind[s], pc[s], Step(s))
<1>1. Len(Script[kind[s]]) = Length(kind[s])
  BY ScriptShape
<1>2. Length(kind[s]) \in Nat
  BY DEF Length, Final
<1>3. ~Ended(s) => pc[s] \in 1 .. Length(kind[s])
  BY <1>1, <1>2 DEF Ended
<1>4. ~Ended(s) => Shape(kind[s], pc[s], Script[kind[s]][pc[s]])
  BY <1>3, ScriptShape, Zenon
<1> QED
  BY <1>1, <1>4, Zenon DEF Ended, Step
-----------------------------------------------------------------------------
(***************************************************************************)
(* Where the steps of a script stand                                       *)
(***************************************************************************)
\* What start s is about to do, if it is still in its script.
LEMMA AtShape ==
  ASSUME NEW s \in Starts, kind[s] \in Kinds, pc[s] \in Nat \ {0}, NEW v, At(s, v)
  PROVE  /\ where[s] = "script"
         /\ pc[s] \in 1 .. Length(kind[s])
         /\ Step(s)[1] = v
         /\ Shape(kind[s], pc[s], Step(s))
BY StepShape DEF At, Length, Final

LEMMA BaseAndFinal ==
  ASSUME NEW k
  PROVE  /\ Base(k) \in {7, 8, 9}
         /\ Final(k) \in {17, 19, 20}
         /\ Base(k) + 10 <= Final(k)
         /\ k = "fault" => Base(k) = 9 /\ Final(k) = 20
BY DEF Base, Final

WriteAt(k, i, o) ==
    \/ k \in Measured /\ i = 1 /\ o = "running"
    \/ k \in {"baseline", "fault"} /\ i = Final(k) /\ o = "passed"
    \/ k = "rehearsal" /\ i = Final(k) /\ o = "dry_run"
    \/ k = "plan" /\ i = 1 /\ o = "dry_run"

OpenAt(k, i, o) ==
    \/ k \in Measured \cup {"plan"} /\ i = 2 /\ o = "timeline"
    \/ k \in Measured /\ i = 4 /\ o = "producer"
    \/ k \in Measured /\ i = 5 /\ o = "consumer"

CreateAt(k, i, o) ==
    k \in Measured /\ i = 3

LaunchAt(k, i, o) ==
    k \in Measured /\ i = 6

StopAt(k, i, o) ==
    /\ k \in Measured
    /\ \/ i = Base(k) + 1 /\ o = "producer"
       \/ i = Base(k) + 4 /\ o = "consumer"

AwaitAt(k, i, o) ==
    /\ k \in Measured
    /\ \/ i = Base(k) + 2 /\ o = "producer"
       \/ i = Base(k) + 5 /\ o = "consumer"

CloseAt(k, i, o) ==
    \/ k \in Measured /\ i = Base(k) + 6 /\ o = "producer"
    \/ k \in Measured /\ i = Base(k) + 7 /\ o = "consumer"
    \/ k = "plan" /\ i = 3 /\ o = "timeline"

CollectAt(k, i, o) ==
    /\ k \in Measured
    /\ \/ i = Base(k) + 8 /\ o = "analysis"
       \/ k \in {"fault", "rehearsal"} /\ i = 8 /\ o = "plan"
       \/ k = "fault" /\ i = 9 /\ o = "recovery"
       \/ k = "fault" /\ i = 19 /\ o = "after"
       \/ k = "rehearsal" /\ i = 18 /\ o = "placeholders"

PassAt(k, i, o) ==
    \/ k \in Measured /\ i = 7 /\ o = "phases"
    \/ k \in Measured /\ i = Base(k) + 3 /\ o # "phases"
    \/ k \in Measured /\ i = Base(k) + 9 /\ o # "phases"
    \/ k = "plan" /\ i = 4 /\ o # "phases"

RefuseAt(k, i, o) ==
    k = "refused"

LEMMA StepsAt ==
  ASSUME NEW k, NEW i \in Nat, NEW x, Shape(k, i, x)
  PROVE  /\ x[1] = "write" => WriteAt(k, i, x[2])
         /\ x[1] = "open" => OpenAt(k, i, x[2])
         /\ x[1] = "create" => CreateAt(k, i, x[2])
         /\ x[1] = "launch" => LaunchAt(k, i, x[2])
         /\ x[1] = "stop" => StopAt(k, i, x[2])
         /\ x[1] = "await" => AwaitAt(k, i, x[2])
         /\ x[1] = "close" => CloseAt(k, i, x[2])
         /\ x[1] = "collect" => CollectAt(k, i, x[2])
         /\ x[1] = "pass" => PassAt(k, i, x[2])
         /\ x[1] = "refuse" => RefuseAt(k, i, x[2])
<1>1. Base(k) \in Nat /\ Final(k) \in Nat
  BY DEF Base, Final
<1>2. x[1] = "write" => WriteAt(k, i, x[2])
  BY <1>1 DEF WriteAt, Shape, OpeningShape, ClosingShape, Is, Measured
<1>3. x[1] = "open" => OpenAt(k, i, x[2])
  BY <1>1 DEF OpenAt, Shape, OpeningShape, ClosingShape, Is, Measured
<1>4. x[1] = "create" => CreateAt(k, i, x[2])
  BY <1>1 DEF CreateAt, Shape, OpeningShape, ClosingShape, Is, Measured
<1>5. x[1] = "launch" => LaunchAt(k, i, x[2])
  BY <1>1 DEF LaunchAt, Shape, OpeningShape, ClosingShape, Is, Measured
<1>6. x[1] = "stop" => StopAt(k, i, x[2])
  BY <1>1 DEF StopAt, Shape, OpeningShape, ClosingShape, Is, Measured
<1>7. x[1] = "await" => AwaitAt(k, i, x[2])
  BY <1>1 DEF AwaitAt, Shape, OpeningShape, ClosingShape, Is, Measured
<1>8. x[1] = "close" => CloseAt(k, i, x[2])
  BY <1>1 DEF CloseAt, Shape, OpeningShape, ClosingShape, Is, Measured
<1>9. x[1] = "collect" => CollectAt(k, i, x[2])
  BY <1>1 DEF CollectAt, Shape, OpeningShape, ClosingShape, Is, Measured
<1>10. x[1] = "pass" => PassAt(k, i, x[2])
  <2>1. Is(x, "pass", "phases") => x[2] = "phases"
    BY DEF Is
  <2>2. Is(x, "pass", "drain") \/ Is(x, "pass", "verdict") \/ Is(x, "pass", "empty files")
          => x[2] # "phases"
    BY DEF Is
  <2>3. ASSUME x[1] = "pass"
        PROVE  \/ k \in Measured /\ i = 7 /\ Is(x, "pass", "phases")
               \/ k \in Measured /\ i - Base(k) = 3 /\ Is(x, "pass", "drain")
               \/ k \in Measured /\ i - Base(k) = 9 /\ Is(x, "pass", "verdict")
               \/ k = "plan" /\ i = 4 /\ Is(x, "pass", "empty files")
    <3>1. /\ ~Is(x, "write", "running") /\ ~Is(x, "write", "passed") /\ ~Is(x, "write", "dry_run")
          /\ ~Is(x, "open", "timeline") /\ ~Is(x, "open", "producer") /\ ~Is(x, "open", "consumer")
          /\ ~Is(x, "create", "topic") /\ ~Is(x, "launch", "components") /\ ~Is(x, "refuse", "start")
          /\ ~Is(x, "stop", "producer") /\ ~Is(x, "stop", "consumer")
          /\ ~Is(x, "await", "producer") /\ ~Is(x, "await", "consumer")
          /\ ~Is(x, "close", "producer") /\ ~Is(x, "close", "consumer") /\ ~Is(x, "close", "timeline")
      BY <2>3 DEF Is
    <3>2. /\ ~Is(x, "collect", "analysis") /\ ~Is(x, "collect", "plan")
          /\ ~Is(x, "collect", "recovery") /\ ~Is(x, "collect", "after")
          /\ ~Is(x, "collect", "placeholders")
      BY <2>3 DEF Is
    <3> QED
      BY <3>1, <3>2 DEF Shape, OpeningShape, ClosingShape
  <2>4. (i - Base(k) = 3 => i = Base(k) + 3) /\ (i - Base(k) = 9 => i = Base(k) + 9)
    BY <1>1
  <2> QED
    BY <2>1, <2>2, <2>3, <2>4, Zenon DEF PassAt
<1>11. x[1] = "refuse" => RefuseAt(k, i, x[2])
  BY <1>1 DEF RefuseAt, Shape, OpeningShape, ClosingShape, Is, Measured
<1> QED
  BY <1>2, <1>3, <1>4, <1>5, <1>6, <1>7, <1>8, <1>9, <1>10, <1>11

\* What start s is about to do says where it is.
LEMMA AtWhere ==
  ASSUME NEW s \in Starts, kind[s] \in Kinds, pc[s] \in Nat \ {0}
  PROVE  /\ At(s, "write") => WriteAt(kind[s], pc[s], Object(s))
         /\ At(s, "open") => OpenAt(kind[s], pc[s], Object(s))
         /\ At(s, "create") => CreateAt(kind[s], pc[s], Object(s))
         /\ At(s, "launch") => LaunchAt(kind[s], pc[s], Object(s))
         /\ At(s, "stop") => StopAt(kind[s], pc[s], Object(s))
         /\ At(s, "await") => AwaitAt(kind[s], pc[s], Object(s))
         /\ At(s, "close") => CloseAt(kind[s], pc[s], Object(s))
         /\ At(s, "collect") => CollectAt(kind[s], pc[s], Object(s))
         /\ At(s, "pass") => PassAt(kind[s], pc[s], Object(s))
         /\ At(s, "refuse") => RefuseAt(kind[s], pc[s], Object(s))
<1>1. CASE Ended(s)
  BY <1>1 DEF At
<1>2. CASE ~Ended(s)
  <2>1. Shape(kind[s], pc[s], Step(s)) /\ pc[s] \in Nat
    BY <1>2, StepShape
  <2>2. /\ Step(s)[1] = "write" => WriteAt(kind[s], pc[s], Step(s)[2])
        /\ Step(s)[1] = "open" => OpenAt(kind[s], pc[s], Step(s)[2])
        /\ Step(s)[1] = "create" => CreateAt(kind[s], pc[s], Step(s)[2])
        /\ Step(s)[1] = "launch" => LaunchAt(kind[s], pc[s], Step(s)[2])
        /\ Step(s)[1] = "stop" => StopAt(kind[s], pc[s], Step(s)[2])
        /\ Step(s)[1] = "await" => AwaitAt(kind[s], pc[s], Step(s)[2])
        /\ Step(s)[1] = "close" => CloseAt(kind[s], pc[s], Step(s)[2])
        /\ Step(s)[1] = "collect" => CollectAt(kind[s], pc[s], Step(s)[2])
        /\ Step(s)[1] = "pass" => PassAt(kind[s], pc[s], Step(s)[2])
        /\ Step(s)[1] = "refuse" => RefuseAt(kind[s], pc[s], Step(s)[2])
    BY <2>1, StepsAt, Zenon
  <2> QED
    BY <2>2, Zenon DEF At, Object
<1> QED
  BY <1>1, <1>2

\* The steps the invariants rest on, by position.
LEMMA PositionOf ==
  ASSUME NEW k, NEW i \in Nat, NEW x, Shape(k, i, x)
  PROVE  /\ k \in Measured =>
              /\ i = 2 => Is(x, "open", "timeline")
              /\ i = 3 => Is(x, "create", "topic")
              /\ k # "baseline" /\ i = 7 => Is(x, "pass", "phases")
              /\ i = Base(k) + 1 => Is(x, "stop", "producer")
              /\ i = Base(k) + 2 => Is(x, "await", "producer")
              /\ i = Base(k) + 4 => Is(x, "stop", "consumer")
              /\ i = Base(k) + 5 => Is(x, "await", "consumer")
              /\ i = Base(k) + 6 => Is(x, "close", "producer")
              /\ i = Base(k) + 7 => Is(x, "close", "consumer")
              /\ i = Base(k) + 8 => Is(x, "collect", "analysis")
              /\ i = Final(k) => \E o \in {"passed", "dry_run"} : Is(x, "write", o)
         /\ k = "fault" =>
              /\ i = 8 => Is(x, "collect", "plan")
              /\ i = 9 => Is(x, "collect", "recovery")
              /\ i = 19 => Is(x, "collect", "after")
         /\ k = "plan" /\ i = 1 => Is(x, "write", "dry_run")
<1>1. CASE k = "baseline"
  BY <1>1 DEF Shape, OpeningShape, ClosingShape, Measured, Base, Final
<1>2. CASE k = "fault"
  BY <1>2 DEF Shape, OpeningShape, ClosingShape, Measured, Base, Final
<1>3. CASE k = "rehearsal"
  BY <1>3 DEF Shape, OpeningShape, ClosingShape, Measured, Base, Final
<1>4. CASE k = "plan"
  <2>1. k \notin Measured /\ k # "fault" /\ k # "rehearsal" /\ k # "baseline" /\ k # "refused"
    BY <1>4 DEF Measured
  <2>2. i = 1 => Is(x, "write", "dry_run")
    BY <1>4, <2>1 DEF Shape
  <2> QED
    BY <2>1, <2>2
<1>5. CASE k \notin Measured \cup {"plan"}
  BY <1>5 DEF Measured
<1> QED
  BY <1>1, <1>2, <1>3, <1>4, <1>5 DEF Measured
-----------------------------------------------------------------------------

Calls == Streams \cup {"cancel", "failed"}
-----------------------------------------------------------------------------
(***************************************************************************)
(* Types                                                                   *)
(***************************************************************************)
\* What a write of metadata.json leaves is a status.
LEMMA PutBytesType ==
  ASSUME TypeOK, NEW s \in Starts, PutBytes(s), At(s, "write") \/ where[s] = "deferred"
  PROVE  /\ metadata' \in StatusOf
         /\ wrote' \in [Starts -> StatusOf]
         /\ truncated' \subseteq Starts
<1>1. kind[s] \in Kinds /\ pc[s] \in Nat \ {0}
  BY DEF TypeOK
<1>2. At(s, "write") => Object(s) \in StatusOf
  BY <1>1, AtWhere DEF WriteAt, StatusOf
<1>3. Target(s) \in StatusOf
  BY <1>2 DEF Target, StatusOf
<1> QED
  BY <1>3 DEF TypeOK, PutBytes, StatusOf

\* So does a write that fails.
LEMMA PutFailsType ==
  ASSUME TypeOK, NEW s \in Starts, PutFails(s)
  PROVE  /\ metadata' \in StatusOf
         /\ wrote' \in [Starts -> StatusOf]
         /\ truncated' \subseteq Starts
BY DEF TypeOK, PutFails, StatusOf

\* A deferred call is one of Calls, and so is what is deferred after the phases.
LEMMA DeferType ==
  ASSUME TypeOK, NEW s \in Starts, NEW c \in Seq(Calls), Defer(s, c)
  PROVE  defers' \in [Starts -> Seq(Calls)]
<1>1. c \o defers[s] \in Seq(Calls)
  BY DEF TypeOK, Calls
<1> QED
  BY <1>1 DEF Defer, TypeOK, Calls

LEMMA HandedOver ==
  /\ <<"cancel", "timeline", "failed">> \in Seq(Calls)
  /\ <<"cancel">> \in Seq(Calls)
  /\ <<"failed">> \in Seq(Calls)
  /\ \A f \in Streams : <<f>> \in Seq(Calls)
BY DEF Calls, Streams, Components

LEMMA PopType ==
  ASSUME TypeOK, NEW s \in Starts, defers[s] # <<>>, Pop(s)
  PROVE  defers' \in [Starts -> Seq(Calls)]
BY DEF Pop, TypeOK, Calls

StreamStates == {"none", "open", "sealed", "broken"}

LEMMA StreamType ==
  ASSUME TypeOK, NEW s \in Starts, NEW f \in Streams, NEW v \in StreamStates
  PROVE  [stream EXCEPT ![s][f] = v] \in [Starts -> [Streams -> StreamStates]]
BY DEF TypeOK, StreamStates

LEMMA TypeInit == Init => TypeOK
<1> SUFFICES ASSUME Init PROVE TypeOK
  OBVIOUS
<1>1. <<>> \in Seq(Streams \cup {"cancel", "failed"})
  OBVIOUS
<1>2. defers \in [Starts -> Seq(Streams \cup {"cancel", "failed"})]
  BY <1>1 DEF Init
<1>3. failures \in 0 .. MaxFailures
  BY LifecycleAssumption DEF Init, LifecycleAssumption
<1>4. stream \in [Starts -> [Streams -> {"none", "open", "sealed", "broken"}]]
  BY DEF Init
<1>5. /\ running \in [Starts -> SUBSET Components]
      /\ cancelled \in [Starts -> SUBSET Components]
      /\ refused \in [Starts -> SUBSET Components]
      /\ \A s \in Starts : running[s] = {}
  BY DEF Init
<1>6. /\ kind \in [Starts -> Kinds]
      /\ where \in [Starts -> {"idle", "script", "deferred", "returned", "killed"}]
      /\ pc \in [Starts -> Nat \ {0}]
      /\ error \in [Starts -> BOOLEAN]
  BY DEF Init
<1>7. /\ metadata \in StatusOf
      /\ wrote \in [Starts -> StatusOf]
      /\ truncated \subseteq Starts
      /\ topic \in BOOLEAN
      /\ artifacts \subseteq Evidence
  BY DEF Init, StatusOf
<1> QED
  BY <1>2, <1>3, <1>4, <1>5, <1>6, <1>7 DEF TypeOK

\* Steps of the script that go on.
LEMMA TypeAdvance ==
  ASSUME TypeOK, NEW s \in Starts,
         WriteMetadata(s) \/ OpenStream(s) \/ CreateTopic(s) \/ Launch(s) \/ Pass(s)
         \/ StopComponent(s) \/ AwaitComponent(s) \/ CloseStream(s) \/ CollectEvidence(s)
  PROVE  TypeOK'
<1>1. kind[s] \in Kinds /\ pc[s] \in Nat \ {0} /\ where[s] \in {"script"}
  BY DEF TypeOK, WriteMetadata, OpenStream, CreateTopic, Launch, Pass, StopComponent,
     AwaitComponent, CloseStream, CollectEvidence, At
<1>2. Advance(s) => pc' \in [Starts -> Nat \ {0}]
  BY <1>1 DEF Advance, TypeOK
<1>3. CASE WriteMetadata(s)
  BY <1>2, <1>3, PutBytesType DEF WriteMetadata, TypeOK, componentVars
<1>4. CASE OpenStream(s)
  <2>1. Object(s) \in Streams
    BY <1>1, <1>4, AtWhere DEF OpenStream, OpenAt, Streams, Components
  <2>2. defers' \in [Starts -> Seq(Calls)]
    BY <1>4, <2>1, DeferType, HandedOver DEF OpenStream, TypeOK, Calls
  <2> QED
    BY <1>2, <1>4, <2>1, <2>2 DEF OpenStream, TypeOK, Calls, componentVars, metadataVars
<1>5. CASE CreateTopic(s)
  BY <1>2, <1>5 DEF CreateTopic, TypeOK, componentVars, metadataVars
<1>6. CASE Launch(s)
  <2>1. defers' \in [Starts -> Seq(Calls)]
    BY <1>6, DeferType, HandedOver DEF Launch, TypeOK, Calls
  <2> QED
    BY <1>1, <1>2, <1>6, <2>1 DEF Launch, TypeOK, Calls, metadataVars
<1>7. CASE Pass(s)
  <2>1. defers' \in [Starts -> Seq(Calls)]
    BY <1>7, DeferType, HandedOver DEF Pass, TypeOK, Calls
  <2> QED
    BY <1>2, <1>7, <2>1 DEF Pass, TypeOK, Calls, metadataVars, componentVars
<1>8. CASE StopComponent(s)
  <2>1. Object(s) \in Components
    BY <1>1, <1>8, AtWhere DEF StopComponent, StopAt, Components
  <2> QED
    BY <1>2, <1>8, <2>1 DEF StopComponent, TypeOK, metadataVars
<1>9. CASE AwaitComponent(s)
  BY <1>2, <1>9 DEF AwaitComponent, TypeOK, metadataVars, componentVars
<1>10. CASE CloseStream(s)
  <2>1. Object(s) \in Streams
    BY <1>1, <1>10, AtWhere DEF CloseStream, CloseAt, Streams, Components
  <2> QED
    BY <1>2, <1>10, <2>1 DEF CloseStream, TypeOK, metadataVars, componentVars
<1>11. CASE CollectEvidence(s)
  <2>1. Object(s) \in Evidence
    BY <1>1, <1>11, AtWhere DEF CollectEvidence, CollectAt, Evidence
  <2> QED
    BY <1>2, <1>11, <2>1 DEF CollectEvidence, TypeOK, metadataVars, componentVars
<1> QED
  BY <1>3, <1>4, <1>5, <1>6, <1>7, <1>8, <1>9, <1>10, <1>11

\* Steps that leave the script.
LEMMA TypeLeave ==
  ASSUME TypeOK, NEW s \in Starts,
         InvalidBaseline(s) \/ Refuse(s) \/ TopicExists(s) \/ StepFails(s) \/ ReturnNormally(s)
  PROVE  TypeOK'
<1>1. \A b \in BOOLEAN : ReturnFrom(s, b) =>
          /\ where' \in [Starts -> {"idle", "script", "deferred", "returned", "killed"}]
          /\ where'[s] = "deferred" /\ \A t \in Starts : t # s => where'[t] = where[t]
          /\ error' \in [Starts -> BOOLEAN]
          /\ pc' = pc
  BY DEF ReturnFrom, TypeOK
<1>2. CASE InvalidBaseline(s)
  <2>1. defers' \in [Starts -> Seq(Calls)]
    BY <1>2, DeferType, HandedOver DEF InvalidBaseline
  <2> QED
    BY <1>1, <1>2, <2>1 DEF InvalidBaseline, TypeOK, Calls, metadataVars, componentVars
<1>3. CASE Refuse(s)
  BY <1>1, <1>3 DEF Refuse, TypeOK, metadataVars, componentVars
<1>4. CASE TopicExists(s)
  BY <1>1, <1>4 DEF TopicExists, TypeOK, metadataVars, componentVars
<1>5. CASE StepFails(s)
  <2>1. /\ metadata' \in StatusOf
        /\ wrote' \in [Starts -> StatusOf]
        /\ truncated' \subseteq Starts
    BY <1>5, PutBytesType, PutFailsType DEF StepFails
  <2>2. failures' \in 0 .. MaxFailures
    BY <1>5, LifecycleAssumption DEF StepFails, Failure, TypeOK, LifecycleAssumption
  <2>3. kind[s] \in Kinds /\ pc[s] \in Nat \ {0}
    BY DEF TypeOK
  <2>4. At(s, "close") => Object(s) \in Streams
    BY <2>3, AtWhere DEF CloseAt, Streams, Components
  <2>5. stream' \in [Starts -> [Streams -> {"none", "open", "sealed", "broken"}]]
    <3>1. CASE At(s, "close")
      <4>1. stream' = [stream EXCEPT ![s][Object(s)] = "broken"]
        BY <1>5, <3>1 DEF StepFails
      <4>2. "broken" \in StreamStates
        BY DEF StreamStates
      <4> QED
        BY <2>4, <3>1, <4>1, <4>2, StreamType DEF StreamStates
    <3>2. CASE ~At(s, "close")
      BY <1>5, <3>2 DEF StepFails, TypeOK
    <3> QED
      BY <3>1, <3>2
  <2> QED
    BY <1>1, <1>5, <2>1, <2>2, <2>5 DEF StepFails, TypeOK, componentVars
<1>6. CASE ReturnNormally(s)
  BY <1>1, <1>6 DEF ReturnNormally, TypeOK, metadataVars, componentVars
<1> QED
  BY <1>2, <1>3, <1>4, <1>5, <1>6

\* What an exit leaves.
LEMMA ExitType ==
  ASSUME TypeOK, NEW s \in Starts, NEW how \in {"returned", "killed"}, Exit(s, how),
         failures' \in 0 .. MaxFailures
  PROVE  TypeOK'
<1>1. where' \in [Starts -> {"idle", "script", "deferred", "returned", "killed"}]
  BY DEF Exit, TypeOK
<1>2. running' \in [Starts -> SUBSET Components] /\ running'[s] = {}
  BY DEF Exit, TypeOK
<1>3. \A t \in Starts : t # s => running'[t] = running[t] /\ where'[t] = where[t]
  BY DEF Exit, TypeOK
<1>4. stream' \in [Starts -> [Streams -> {"none", "open", "sealed", "broken"}]]
  BY DEF Exit, TypeOK
<1> QED
  BY <1>1, <1>2, <1>3, <1>4 DEF Exit, TypeOK

\* Steps of the deferred calls.
LEMMA TypeUnwind ==
  ASSUME TypeOK, NEW s \in Starts,
         CancelDeferred(s) \/ CloseDeferred(s) \/ ReportFailure(s) \/ Return(s) \/ Kill(s)
  PROVE  TypeOK'
<1>1. Failure => failures' \in 0 .. MaxFailures
  BY LifecycleAssumption DEF Failure, TypeOK, LifecycleAssumption
<1>2. CASE CancelDeferred(s)
  <2>1. defers' \in [Starts -> Seq(Calls)]
    BY <1>2, PopType DEF CancelDeferred, Deferred
  <2> QED
    BY <1>2, <2>1 DEF CancelDeferred, TypeOK, Calls, metadataVars
<1>3. CASE CloseDeferred(s)
  <2>1. defers' \in [Starts -> Seq(Calls)]
    BY <1>3, PopType DEF CloseDeferred, Deferred
  <2>2. stream' \in [Starts -> [Streams -> {"none", "open", "sealed", "broken"}]]
    <3>1. PICK f \in Streams :
            \/ stream' = [stream EXCEPT ![s][f] = IF @ = "open" THEN "sealed" ELSE @]
            \/ stream' = [stream EXCEPT ![s][f] = "broken"]
      BY <1>3 DEF CloseDeferred
    <3>2. [stream EXCEPT ![s][f] = IF @ = "open" THEN "sealed" ELSE @]
              \in [Starts -> [Streams -> StreamStates]]
      <4>1. stream \in [Starts -> [Streams -> StreamStates]]
        BY DEF TypeOK, StreamStates
      <4>2. \A v \in StreamStates : (IF v = "open" THEN "sealed" ELSE v) \in StreamStates
        BY DEF StreamStates
      <4> QED
        BY <4>1, <4>2
    <3>3. [stream EXCEPT ![s][f] = "broken"] \in [Starts -> [Streams -> StreamStates]]
      BY StreamType DEF StreamStates
    <3> QED
      BY <3>1, <3>2, <3>3 DEF StreamStates
  <2>3. failures' \in 0 .. MaxFailures
    BY <1>1, <1>3 DEF CloseDeferred, TypeOK
  <2> QED
    BY <1>3, <2>1, <2>2, <2>3 DEF CloseDeferred, TypeOK, Calls, metadataVars, componentVars
<1>4. CASE ReportFailure(s)
  <2>1. defers' \in [Starts -> Seq(Calls)]
    BY <1>4, PopType DEF ReportFailure, Deferred
  <2>2. /\ metadata' \in StatusOf
        /\ wrote' \in [Starts -> StatusOf]
        /\ truncated' \subseteq Starts
    BY <1>4, PutBytesType, PutFailsType DEF ReportFailure, Deferred, TypeOK, metadataVars
  <2>3. failures' \in 0 .. MaxFailures
    BY <1>1, <1>4 DEF ReportFailure, TypeOK
  <2> QED
    BY <1>4, <2>1, <2>2, <2>3 DEF ReportFailure, TypeOK, Calls, componentVars
<1>5. CASE Return(s)
  BY <1>5, ExitType DEF Return, TypeOK
<1>6. CASE Kill(s)
  BY <1>1, <1>6, ExitType DEF Kill
<1> QED
  BY <1>2, <1>3, <1>4, <1>5, <1>6

\* Every step keeps the types.
LEMMA TypeStep == TypeOK /\ [Next]_vars => TypeOK'
<1> SUFFICES ASSUME TypeOK, [Next]_vars PROVE TypeOK'
  OBVIOUS
<1>1. ASSUME NEW s \in Starts, Begin(s) PROVE TypeOK'
  BY <1>1 DEF Begin, TypeOK, metadataVars, componentVars
<1>2. ASSUME NEW s \in Starts, Truncate(s) PROVE TypeOK'
  BY <1>2 DEF Truncate, TypeOK, StatusOf, flowVars, componentVars
<1>3. ASSUME NEW s \in Starts, NEW c \in Components, ComponentReturns(s, c) \/ EntryRefused(s, c)
      PROVE  TypeOK'
  <2>1. CASE ComponentReturns(s, c)
    <3>1. /\ running' \in [Starts -> SUBSET Components]
          /\ \A t \in Starts : running'[t] # {} => running[t] # {}
      BY <2>1 DEF ComponentReturns, TypeOK
    <3> QED
      BY <2>1, <3>1 DEF ComponentReturns, TypeOK, flowVars, metadataVars
  <2>2. CASE EntryRefused(s, c)
    BY <2>2 DEF EntryRefused, TypeOK, flowVars, metadataVars
  <2> QED
    BY <1>3, <2>1, <2>2
<1>4. CASE UNCHANGED vars
  BY <1>4 DEF vars, TypeOK, flowVars, metadataVars, componentVars
<1> QED
  BY <1>1, <1>2, <1>3, <1>4, TypeAdvance, TypeLeave, TypeUnwind DEF Next, Proceed

\* Every variable has its type, whatever fails, dies or is started again.
THEOREM TypeCorrect == Spec => []TypeOK
BY TypeInit, TypeStep, PTL DEF Spec
-----------------------------------------------------------------------------
(***************************************************************************)
(* What a step changes                                                     *)
(***************************************************************************)
StepOf(s) ==
    \/ Begin(s) \/ Proceed(s) \/ Kill(s)
    \/ \E c \in Components : ComponentReturns(s, c) \/ EntryRefused(s, c)

\* What a start owns.
SameStart(t) ==
    /\ where'[t] = where[t] /\ pc'[t] = pc[t] /\ error'[t] = error[t]
    /\ wrote'[t] = wrote[t] /\ stream'[t] = stream[t]
    /\ running'[t] = running[t] /\ refused'[t] = refused[t]

\* A step of one start leaves the others alone.
LEMMA Frame ==
  ASSUME TypeOK, NEW s \in Starts, StepOf(s), NEW t \in Starts, t # s
  PROVE  SameStart(t)
<1>1. CASE Begin(s)
  BY <1>1 DEF Begin, SameStart, metadataVars, componentVars
<1>2. CASE Truncate(s) \/ WriteMetadata(s)
  BY <1>2 DEF Truncate, WriteMetadata, PutBytes, Advance, SameStart, flowVars, componentVars, TypeOK
<1>3. CASE OpenStream(s) \/ CreateTopic(s) \/ Launch(s) \/ Pass(s)
  BY <1>3 DEF OpenStream, CreateTopic, Launch, Pass, Advance, SameStart, metadataVars,
     componentVars, TypeOK
<1>4. CASE StopComponent(s) \/ AwaitComponent(s) \/ CloseStream(s) \/ CollectEvidence(s)
  BY <1>4 DEF StopComponent, AwaitComponent, CloseStream, CollectEvidence, Advance, SameStart,
     metadataVars, componentVars, TypeOK
<1>5. CASE InvalidBaseline(s) \/ Refuse(s) \/ TopicExists(s) \/ ReturnNormally(s)
  BY <1>5 DEF InvalidBaseline, Refuse, TopicExists, ReturnNormally, ReturnFrom, SameStart,
     metadataVars, componentVars, TypeOK
<1>6. CASE StepFails(s)
  BY <1>6 DEF StepFails, ReturnFrom, PutBytes, PutFails, SameStart, componentVars, TypeOK
<1>7. CASE CancelDeferred(s) \/ ReportFailure(s)
  BY <1>7 DEF CancelDeferred, ReportFailure, PutBytes, PutFails, SameStart, metadataVars,
     componentVars, TypeOK
<1>8. CASE CloseDeferred(s)
  BY <1>8 DEF CloseDeferred, SameStart, metadataVars, componentVars, TypeOK
<1>9. CASE Return(s) \/ Kill(s)
  BY <1>9 DEF Return, Kill, Exit, SameStart, TypeOK
<1>10. CASE \E c \in Components : ComponentReturns(s, c) \/ EntryRefused(s, c)
  BY <1>10 DEF ComponentReturns, EntryRefused, SameStart, flowVars, metadataVars, TypeOK
<1> QED
  BY <1>1, <1>2, <1>3, <1>4, <1>5, <1>6, <1>7, <1>8, <1>9, <1>10 DEF StepOf, Proceed

\* Kinds never change, positions only grow, and so do the artifacts.
LEMMA Growth ==
  ASSUME TypeOK, NEW s \in Starts, StepOf(s)
  PROVE  /\ kind' = kind
         /\ \A t \in Starts : pc'[t] = pc[t] \/ pc'[t] = pc[t] + 1
         /\ artifacts \subseteq artifacts'
         /\ topic => topic'
<1>1. CASE Begin(s)
  BY <1>1 DEF Begin
<1>2. CASE Truncate(s) \/ WriteMetadata(s)
  BY <1>2 DEF Truncate, WriteMetadata, Advance, flowVars, componentVars, TypeOK
<1>3. CASE OpenStream(s) \/ CreateTopic(s) \/ Launch(s) \/ Pass(s)
  BY <1>3 DEF OpenStream, CreateTopic, Launch, Pass, Advance, TypeOK
<1>4. CASE StopComponent(s) \/ AwaitComponent(s) \/ CloseStream(s) \/ CollectEvidence(s)
  BY <1>4 DEF StopComponent, AwaitComponent, CloseStream, CollectEvidence, Advance, TypeOK
<1>5. CASE InvalidBaseline(s) \/ Refuse(s) \/ TopicExists(s) \/ ReturnNormally(s) \/ StepFails(s)
  BY <1>5 DEF InvalidBaseline, Refuse, TopicExists, ReturnNormally, StepFails, ReturnFrom
<1>6. CASE CancelDeferred(s) \/ ReportFailure(s) \/ CloseDeferred(s)
  BY <1>6 DEF CancelDeferred, ReportFailure, CloseDeferred
<1>7. CASE Return(s) \/ Kill(s)
  BY <1>7 DEF Return, Kill, Exit
<1>8. CASE \E c \in Components : ComponentReturns(s, c) \/ EntryRefused(s, c)
  BY <1>8 DEF ComponentReturns, EntryRefused, flowVars
<1> QED
  BY <1>1, <1>2, <1>3, <1>4, <1>5, <1>6, <1>7, <1>8 DEF StepOf, Proceed
-----------------------------------------------------------------------------
(***************************************************************************)
(* The files of the components                                             *)
(***************************************************************************)
\* Where a component's file is opened and closed, and its end awaited.
OpenPos(c) == IF c = "producer" THEN 4 ELSE 5
AwaitPos(k, c) == IF c = "producer" THEN Base(k) + 2 ELSE Base(k) + 5
ClosePos(k, c) == IF c = "producer" THEN Base(k) + 6 ELSE Base(k) + 7

Opens(s, c) ==
    /\ where[s] = "script" /\ where'[s] = "script"
    /\ kind[s] \in Measured /\ pc[s] = OpenPos(c) /\ pc'[s] = pc[s] + 1
    /\ stream'[s][c] = "open"

Closes(s, c) ==
    /\ where[s] = "script"
    /\ kind[s] \in Measured /\ pc[s] = ClosePos(kind[s], c)
    /\ \/ stream'[s][c] = "sealed" /\ where'[s] = "script" /\ pc'[s] = pc[s] + 1
       \/ stream'[s][c] = "broken" /\ where'[s] = "deferred" /\ pc'[s] = pc[s]

Drops(s, c) ==
    /\ where'[s] \in {"deferred", "returned", "killed"} /\ pc'[s] = pc[s]
    /\ stream[s][c] = "open" /\ stream'[s][c] \in {"sealed", "broken"}

\* How the file of a component can change.
LEMMA StreamChange ==
  ASSUME TypeOK, NEW s \in Starts, StepOf(s), NEW c \in Components
  PROVE  stream'[s][c] = stream[s][c] \/ Opens(s, c) \/ Closes(s, c) \/ Drops(s, c)
<1>1. kind[s] \in Kinds /\ pc[s] \in Nat \ {0} /\ c \in Streams
  BY DEF TypeOK, Streams
<1>2. CASE OpenStream(s)
  <2>1. OpenAt(kind[s], pc[s], Object(s)) /\ where[s] = "script"
    BY <1>1, <1>2, AtWhere DEF OpenStream, At
  <2>2. CASE Object(s) = c
    <3>1. kind[s] \in Measured /\ pc[s] = OpenPos(c)
      BY <2>1, <2>2 DEF OpenAt, OpenPos, Components
    <3> QED
      BY <1>1, <1>2, <2>1, <2>2, <3>1 DEF OpenStream, Advance, TypeOK, Opens
  <2>3. CASE Object(s) # c
    BY <1>1, <1>2, <2>3 DEF OpenStream, TypeOK
  <2> QED
    BY <2>2, <2>3
<1>3. CASE At(s, "close") /\ (CloseStream(s) \/ StepFails(s))
  <2>1. CloseAt(kind[s], pc[s], Object(s)) /\ where[s] = "script"
    BY <1>1, <1>3, AtWhere DEF At
  <2>2. CASE Object(s) = c
    <3>1. kind[s] \in Measured /\ pc[s] = ClosePos(kind[s], c)
      BY <2>1, <2>2 DEF CloseAt, ClosePos, Components
    <3>2. CASE CloseStream(s)
      BY <1>1, <2>1, <2>2, <3>1, <3>2 DEF CloseStream, Advance, TypeOK, Closes
    <3>3. CASE StepFails(s)
      BY <1>1, <1>3, <2>1, <2>2, <3>1, <3>3 DEF StepFails, ReturnFrom, TypeOK, Closes
    <3> QED
      BY <1>3, <3>2, <3>3
  <2>3. CASE Object(s) # c
    <3>1. \E v : stream' = [stream EXCEPT ![s][Object(s)] = v]
      BY <1>3 DEF CloseStream, StepFails
    <3> QED
      BY <1>1, <2>3, <3>1 DEF TypeOK
  <2> QED
    BY <2>2, <2>3
<1>4. CASE CloseDeferred(s)
  <2>1. pc' = pc /\ where'[s] = "deferred"
    BY <1>4 DEF CloseDeferred, Deferred
  <2>2. \/ stream'[s][c] = stream[s][c]
        \/ stream[s][c] = "open" /\ stream'[s][c] \in {"sealed", "broken"}
    BY <1>1, <1>4 DEF CloseDeferred, TypeOK
  <2> QED
    BY <2>1, <2>2 DEF Drops
<1>5. CASE Return(s) \/ Kill(s)
  <2>1. pc' = pc /\ where'[s] \in {"returned", "killed"}
    BY <1>5 DEF Return, Kill, Exit, TypeOK
  <2>2. \/ stream'[s][c] = stream[s][c]
        \/ stream[s][c] = "open" /\ stream'[s][c] \in {"sealed", "broken"}
    BY <1>1, <1>5 DEF Return, Kill, Exit, TypeOK
  <2> QED
    BY <2>1, <2>2 DEF Drops
<1>6. CASE StepFails(s) /\ ~At(s, "close")
  BY <1>6 DEF StepFails
<1>7. CASE Begin(s) \/ Truncate(s) \/ WriteMetadata(s) \/ CreateTopic(s) \/ Launch(s) \/ Pass(s)
           \/ StopComponent(s) \/ AwaitComponent(s) \/ CollectEvidence(s)
  BY <1>7 DEF Begin, Truncate, WriteMetadata, CreateTopic, Launch, Pass, StopComponent,
     AwaitComponent, CollectEvidence
<1>8. CASE InvalidBaseline(s) \/ Refuse(s) \/ TopicExists(s) \/ ReturnNormally(s)
           \/ CancelDeferred(s) \/ ReportFailure(s)
           \/ \E d \in Components : ComponentReturns(s, d) \/ EntryRefused(s, d)
  BY <1>8 DEF InvalidBaseline, Refuse, TopicExists, ReturnNormally, CancelDeferred, ReportFailure,
     ComponentReturns, EntryRefused
<1>9. CloseStream(s) => At(s, "close")
  BY DEF CloseStream
<1> QED
  BY <1>2, <1>3, <1>4, <1>5, <1>6, <1>7, <1>8, <1>9 DEF StepOf, Proceed

\* The start that created the topic, past its creation.
Created(s) == kind[s] \in Measured /\ pc[s] > 3

TrafficInv ==
    /\ \A s \in Starts : Created(s) => topic
    /\ \A s, t \in Starts : Created(s) /\ Created(t) => s = t
    /\ \A s \in Starts, c \in Components : stream[s][c] # "none" => Created(s)

\* How a start can create the topic.
LEMMA CreationStep ==
  ASSUME TypeOK, NEW s \in Starts, StepOf(s), ~Created(s), Created(s)'
  PROVE  ~topic /\ topic'
<1>1. kind[s] \in Measured /\ pc[s] = 3 /\ pc'[s] = 4
  <2>1. pc[s] \in Nat /\ kind' = kind /\ (pc'[s] = pc[s] \/ pc'[s] = pc[s] + 1)
    BY Growth DEF TypeOK
  <2> QED
    BY <2>1 DEF Created
<1>2. kind[s] \in Kinds /\ pc[s] \in Nat \ {0}
  BY DEF TypeOK
<1>3. kind[s] # "plan" /\ Base(kind[s]) \in 7 .. 9 /\ Final(kind[s]) \in 17 .. 20
  BY <1>1 DEF Measured, Base, Final
<1>4. /\ ~At(s, "write") /\ ~At(s, "open") /\ ~At(s, "launch")
      /\ ~At(s, "stop") /\ ~At(s, "await") /\ ~At(s, "close") /\ ~At(s, "collect")
      /\ ~At(s, "pass")
  BY <1>1, <1>2, <1>3, AtWhere DEF WriteAt, OpenAt, LaunchAt, StopAt, AwaitAt, CloseAt, CollectAt,
     PassAt
<1>5. ~CreateTopic(s) => pc'[s] = pc[s]
  BY <1>4 DEF StepOf, Proceed, Begin, Truncate, WriteMetadata, OpenStream, Launch, Pass,
     StopComponent, AwaitComponent, CloseStream, CollectEvidence, InvalidBaseline, Refuse,
     TopicExists, StepFails, ReturnNormally, ReturnFrom, CancelDeferred, CloseDeferred,
     ReportFailure, Return, Kill, Exit, ComponentReturns, EntryRefused, flowVars
<1> QED
  BY <1>1, <1>5 DEF CreateTopic

LEMMA TrafficStep ==
  ASSUME TypeOK, TrafficInv, NEW s \in Starts, StepOf(s)
  PROVE  TrafficInv'
<1>1. \A t \in Starts : t # s => (Created(t)' <=> Created(t)) /\ stream'[t] = stream[t]
  BY Frame, Growth DEF SameStart, Created
<1>2. Created(s) => Created(s)'
  <2>1. pc[s] \in Nat /\ kind' = kind /\ (pc'[s] = pc[s] \/ pc'[s] = pc[s] + 1)
    BY Growth DEF TypeOK
  <2> QED
    BY <2>1 DEF Created
<1>3. topic => topic'
  BY Growth
<1>4. ~Created(s) /\ Created(s)' => ~topic /\ topic'
  BY CreationStep
<1>5. ASSUME NEW c \in Components, stream'[s][c] # "none"
      PROVE  Created(s)'
  <2>1. CASE stream'[s][c] = stream[s][c] \/ Drops(s, c)
    BY <1>2, <1>5, <2>1 DEF TrafficInv, Drops
  <2>2. CASE Opens(s, c)
    BY <2>2, Growth DEF Opens, Created, OpenPos
  <2>3. CASE Closes(s, c)
    <3>1. ClosePos(kind[s], c) > 3 /\ pc[s] \in Nat
      BY DEF ClosePos, Base, TypeOK
    <3> QED
      BY <1>2, <2>3, <3>1 DEF Closes, Created
  <2> QED
    BY <2>1, <2>2, <2>3, StreamChange
<1>6. (\A t \in Starts : Created(t) => topic)'
  BY <1>1, <1>3, <1>4 DEF TrafficInv
<1>7. (\A t, u \in Starts : Created(t) /\ Created(u) => t = u)'
  BY <1>1, <1>4 DEF TrafficInv
<1>8. (\A t \in Starts, c \in Components : stream[t][c] # "none" => Created(t))'
  BY <1>1, <1>5 DEF TrafficInv
<1> QED
  BY <1>6, <1>7, <1>8 DEF TrafficInv

LEMMA TrafficInit == Init => TrafficInv
BY DEF Init, TrafficInv, Created, Components, Streams

\* [Next]_vars is a step of a start, or none.
LEMMA NextIsAStep == [Next]_vars => UNCHANGED vars \/ \E s \in Starts : StepOf(s)
BY DEF Next, StepOf

LEMMA TrafficKept == TypeOK /\ TrafficInv /\ [Next]_vars => TrafficInv'
<1>1. ASSUME UNCHANGED vars, TrafficInv PROVE TrafficInv'
  BY <1>1 DEF vars, flowVars, TrafficInv, Created
<1> QED
  BY <1>1, NextIsAStep, TrafficStep

LEMMA TrafficAlways == Spec => []TrafficInv
BY TrafficInit, TrafficKept, TypeCorrect, PTL DEF Spec

\* However often a run ID is started, the producer's file belongs to one start.
THEOREM OneTrafficOnly == Spec => []OneTraffic
<1>1. TrafficInv => OneTraffic
  BY DEF TrafficInv, OneTraffic, Components
<1> QED
  BY <1>1, TrafficAlways, PTL
-----------------------------------------------------------------------------
(***************************************************************************)
(* What a start has done by its position                                   *)
(***************************************************************************)
\* A position that grows did the step of the script that stands there.
LEMMA AdvanceStep ==
  ASSUME TypeOK, NEW s \in Starts, StepOf(s), pc'[s] # pc[s]
  PROVE  /\ where[s] = "script" /\ where' = where /\ pc'[s] = pc[s] + 1
         /\ ~Ended(s)
         /\ Shape(kind[s], pc[s], Step(s))
         /\ Step(s)[1] = "open" => OpenStream(s)
         /\ Step(s)[1] = "create" => CreateTopic(s)
         /\ Step(s)[1] = "pass" => Pass(s)
         /\ Step(s)[1] = "stop" => StopComponent(s)
         /\ Step(s)[1] = "await" => AwaitComponent(s)
         /\ Step(s)[1] = "close" => CloseStream(s)
         /\ Step(s)[1] = "collect" => CollectEvidence(s)
         /\ Step(s)[1] = "write" => WriteMetadata(s)
         /\ Step(s)[1] # "refuse"
<1>1. \/ WriteMetadata(s) \/ OpenStream(s) \/ CreateTopic(s) \/ Launch(s) \/ Pass(s)
      \/ StopComponent(s) \/ AwaitComponent(s) \/ CloseStream(s) \/ CollectEvidence(s)
  BY DEF StepOf, Proceed, Begin, Truncate, InvalidBaseline, Refuse, TopicExists, StepFails,
     ReturnNormally, ReturnFrom, CancelDeferred, CloseDeferred, ReportFailure, Return, Kill, Exit,
     ComponentReturns, EntryRefused, flowVars
<1>2. \E v : At(s, v)
  BY <1>1 DEF WriteMetadata, OpenStream, CreateTopic, Launch, Pass, StopComponent, AwaitComponent,
     CloseStream, CollectEvidence
<1>3. where[s] = "script" /\ ~Ended(s)
  BY <1>2 DEF At
<1>4. kind[s] \in Kinds /\ pc[s] \in Nat \ {0}
  BY DEF TypeOK
<1>5. Shape(kind[s], pc[s], Step(s))
  BY <1>3, <1>4, StepShape
<1>6. where' = where /\ Advance(s)
  BY <1>1 DEF WriteMetadata, OpenStream, CreateTopic, Launch, Pass, StopComponent, AwaitComponent,
     CloseStream, CollectEvidence
<1>7. pc'[s] = pc[s] + 1
  BY <1>6 DEF Advance, TypeOK
<1>8. /\ WriteMetadata(s) => Step(s)[1] = "write"
      /\ OpenStream(s) => Step(s)[1] = "open"
      /\ CreateTopic(s) => Step(s)[1] = "create"
      /\ Launch(s) => Step(s)[1] = "launch"
      /\ Pass(s) => Step(s)[1] = "pass"
      /\ StopComponent(s) => Step(s)[1] = "stop"
      /\ AwaitComponent(s) => Step(s)[1] = "await"
      /\ CloseStream(s) => Step(s)[1] = "close"
      /\ CollectEvidence(s) => Step(s)[1] = "collect"
  BY DEF WriteMetadata, OpenStream, CreateTopic, Launch, Pass, StopComponent, AwaitComponent,
     CloseStream, CollectEvidence, At
<1> QED
  BY <1>1, <1>3, <1>5, <1>6, <1>7, <1>8

StreamInv(s) ==
    \A c \in Components :
        /\ stream[s][c] # "none" => kind[s] \in Measured /\ pc[s] > OpenPos(c)
        /\ kind[s] \in Measured /\ pc[s] > ClosePos(kind[s], c) => stream[s][c] = "sealed"
        /\ where[s] \in {"idle", "script"} /\ pc[s] <= ClosePos(kind[s], c)
              => stream[s][c] \in {"none", "open"}

LEMMA StreamStep ==
  ASSUME TypeOK, NEW s \in Starts, StepOf(s), StreamInv(s)
  PROVE  StreamInv(s)'
<1> SUFFICES ASSUME NEW c \in Components
             PROVE  /\ stream'[s][c] # "none" => kind'[s] \in Measured /\ pc'[s] > OpenPos(c)
                    /\ kind'[s] \in Measured /\ pc'[s] > ClosePos(kind'[s], c)
                          => stream'[s][c] = "sealed"
                    /\ where'[s] \in {"idle", "script"} /\ pc'[s] <= ClosePos(kind'[s], c)
                          => stream'[s][c] \in {"none", "open"}
  BY DEF StreamInv
<1>1. kind' = kind /\ pc[s] \in Nat /\ (pc'[s] = pc[s] \/ pc'[s] = pc[s] + 1)
  BY Growth DEF TypeOK
<1>2. /\ OpenPos(c) \in Nat
      /\ ClosePos(kind[s], c) \in Nat
      /\ OpenPos(c) < ClosePos(kind[s], c)
  BY DEF OpenPos, ClosePos, Base
<1>3. where'[s] \in {"idle", "script"} => where[s] \in {"idle", "script"}
  BY DEF StepOf, Proceed, Begin, Truncate, WriteMetadata, OpenStream, CreateTopic, Launch, Pass,
     StopComponent, AwaitComponent, CloseStream, CollectEvidence, InvalidBaseline, Refuse,
     TopicExists, StepFails, ReturnNormally, ReturnFrom, CancelDeferred, CloseDeferred,
     ReportFailure, Deferred, Return, Kill, Exit, ComponentReturns, EntryRefused, flowVars, TypeOK
<1>4. /\ stream[s][c] # "none" => kind[s] \in Measured /\ pc[s] > OpenPos(c)
      /\ kind[s] \in Measured /\ pc[s] > ClosePos(kind[s], c) => stream[s][c] = "sealed"
      /\ where[s] \in {"idle", "script"} /\ pc[s] <= ClosePos(kind[s], c)
            => stream[s][c] \in {"none", "open"}
  BY DEF StreamInv
<1>5. CASE Opens(s, c)
  BY <1>1, <1>2, <1>4, <1>5 DEF Opens
<1>6. CASE Closes(s, c)
  BY <1>1, <1>2, <1>4, <1>6 DEF Closes
<1>7. CASE Drops(s, c)
  BY <1>1, <1>2, <1>4, <1>7 DEF Drops
<1>8. CASE stream'[s][c] = stream[s][c]
  <2>1. CASE pc'[s] = pc[s]
    BY <1>1, <1>3, <1>4, <1>8, <2>1
  <2>2. CASE pc'[s] # pc[s] /\ (kind[s] \in Measured => pc[s] # ClosePos(kind[s], c))
    BY <1>1, <1>2, <1>3, <1>4, <1>8, <2>2
  <2>3. CASE pc'[s] # pc[s] /\ kind[s] \in Measured /\ pc[s] = ClosePos(kind[s], c)
    <3>1. Shape(kind[s], pc[s], Step(s))
      BY <2>3, AdvanceStep
    <3>2. Is(Step(s), "close", c)
      BY <1>1, <2>3, <3>1, PositionOf DEF ClosePos, Components
    <3>3. CloseStream(s) /\ Object(s) = c
      BY <2>3, <3>2, AdvanceStep DEF Is, Object
    <3>4. stream'[s][c] = "sealed"
      BY <3>3 DEF CloseStream, TypeOK, Streams
    <3> QED
      BY <1>1, <1>2, <2>3, <3>4, AdvanceStep
  <2> QED
    BY <2>1, <2>2, <2>3
<1> QED
  BY <1>5, <1>6, <1>7, <1>8, StreamChange

RunInv(s) ==
    \A c \in Components :
        /\ c \in running[s] => kind[s] \in Measured /\ pc[s] > 6
        /\ kind[s] \in Measured /\ pc[s] > AwaitPos(kind[s], c) => c \notin running[s]

\* A component starts with the launch only.
LEMMA RunningChange ==
  ASSUME TypeOK, NEW s \in Starts, StepOf(s)
  PROVE  running'[s] \subseteq running[s] \/ Launch(s)
<1>1. CASE Begin(s) \/ Truncate(s) \/ WriteMetadata(s) \/ OpenStream(s) \/ CreateTopic(s) \/ Pass(s)
           \/ StopComponent(s) \/ AwaitComponent(s) \/ CloseStream(s) \/ CollectEvidence(s)
  BY <1>1 DEF Begin, Truncate, WriteMetadata, OpenStream, CreateTopic, Pass, StopComponent,
     AwaitComponent, CloseStream, CollectEvidence, componentVars
<1>2. CASE InvalidBaseline(s) \/ Refuse(s) \/ TopicExists(s) \/ StepFails(s) \/ ReturnNormally(s)
           \/ CancelDeferred(s) \/ CloseDeferred(s) \/ ReportFailure(s)
  BY <1>2 DEF InvalidBaseline, Refuse, TopicExists, StepFails, ReturnNormally, CancelDeferred,
     CloseDeferred, ReportFailure, componentVars
<1>3. CASE Return(s) \/ Kill(s)
  BY <1>3 DEF Return, Kill, Exit, TypeOK
<1>4. CASE \E c \in Components : ComponentReturns(s, c) \/ EntryRefused(s, c)
  BY <1>4 DEF ComponentReturns, EntryRefused, TypeOK
<1> QED
  BY <1>1, <1>2, <1>3, <1>4 DEF StepOf, Proceed

LEMMA RunStep ==
  ASSUME TypeOK, NEW s \in Starts, StepOf(s), RunInv(s)
  PROVE  RunInv(s)'
<1> SUFFICES ASSUME NEW c \in Components
             PROVE  /\ c \in running'[s] => kind'[s] \in Measured /\ pc'[s] > 6
                    /\ kind'[s] \in Measured /\ pc'[s] > AwaitPos(kind'[s], c)
                          => c \notin running'[s]
  BY DEF RunInv
<1>1. kind' = kind /\ pc[s] \in Nat /\ (pc'[s] = pc[s] \/ pc'[s] = pc[s] + 1)
  BY Growth DEF TypeOK
<1>2. AwaitPos(kind[s], c) \in Nat /\ AwaitPos(kind[s], c) > 7
  BY DEF AwaitPos, Base
<1>3. /\ c \in running[s] => kind[s] \in Measured /\ pc[s] > 6
      /\ kind[s] \in Measured /\ pc[s] > AwaitPos(kind[s], c) => c \notin running[s]
  BY DEF RunInv
<1>4. CASE Launch(s)
  <2>1. At(s, "launch") /\ kind[s] \in Kinds /\ pc[s] \in Nat \ {0}
    BY <1>4 DEF Launch, TypeOK
  <2>2. LaunchAt(kind[s], pc[s], Object(s))
    BY <2>1, AtWhere
  <2>3. kind[s] \in Measured /\ pc[s] = 6
    BY <2>2 DEF LaunchAt
  <2>4. pc'[s] = 7
    BY <1>4, <2>3 DEF Launch, Advance, TypeOK
  <2> QED
    BY <1>1, <1>2, <2>3, <2>4
<1>5. CASE running'[s] \subseteq running[s]
  <2>1. CASE pc'[s] = pc[s]
    BY <1>1, <1>3, <1>5, <2>1
  <2>2. CASE pc'[s] # pc[s] /\ (kind[s] \in Measured => pc[s] # AwaitPos(kind[s], c))
    BY <1>1, <1>2, <1>3, <1>5, <2>2
  <2>3. CASE pc'[s] # pc[s] /\ kind[s] \in Measured /\ pc[s] = AwaitPos(kind[s], c)
    <3>1. Shape(kind[s], pc[s], Step(s))
      BY <2>3, AdvanceStep
    <3>2. Is(Step(s), "await", c)
      BY <1>1, <2>3, <3>1, PositionOf DEF AwaitPos, Components
    <3>3. AwaitComponent(s) /\ Object(s) = c
      BY <2>3, <3>2, AdvanceStep DEF Is, Object
    <3>4. c \notin running[s]
      BY <3>3 DEF AwaitComponent
    <3> QED
      BY <1>1, <1>2, <1>5, <2>3, <3>4
  <2> QED
    BY <2>1, <2>2, <2>3
<1> QED
  BY <1>4, <1>5, RunningChange

\* No entry was lost to a closed file as long as the script runs.
RefusedInv(s) == where[s] \in {"idle", "script"} => refused[s] = {}

LEMMA RefusedChange ==
  ASSUME TypeOK, NEW s \in Starts, StepOf(s)
  PROVE  refused'[s] = refused[s] \/ \E c \in Components : EntryRefused(s, c)
BY DEF StepOf, Proceed, Begin, Truncate, WriteMetadata, OpenStream, CreateTopic, Launch, Pass,
   StopComponent, AwaitComponent, CloseStream, CollectEvidence, InvalidBaseline, Refuse,
   TopicExists, StepFails, ReturnNormally, CancelDeferred, CloseDeferred,
   ReportFailure, Return, Kill, Exit, ComponentReturns, componentVars

\* The script is not entered twice.
LEMMA WhereChange ==
  ASSUME TypeOK, NEW s \in Starts, StepOf(s)
  PROVE  where'[s] \in {"idle", "script"} => where[s] \in {"idle", "script"}
BY DEF StepOf, Proceed, Begin, Truncate, WriteMetadata, OpenStream, CreateTopic, Launch, Pass,
   StopComponent, AwaitComponent, CloseStream, CollectEvidence, InvalidBaseline, Refuse,
   TopicExists, StepFails, ReturnNormally, ReturnFrom, CancelDeferred, CloseDeferred,
   ReportFailure, Deferred, Return, Kill, Exit, ComponentReturns, EntryRefused, flowVars, TypeOK

LEMMA RefusedStep ==
  ASSUME TypeOK, NEW s \in Starts, StepOf(s), StreamInv(s), RunInv(s), RefusedInv(s)
  PROVE  RefusedInv(s)'
<1>1. CASE refused'[s] = refused[s]
  BY <1>1, WhereChange DEF RefusedInv
<1>2. ASSUME NEW c \in Components, EntryRefused(s, c), where'[s] \in {"idle", "script"}
      PROVE  FALSE
  <2>1. c \in running[s] /\ stream[s][c] \in {"sealed", "broken"}
    BY <1>2 DEF EntryRefused
  <2>2. kind[s] \in Measured /\ pc[s] \in Nat
    BY <2>1 DEF RunInv, TypeOK
  <2>3. ~(pc[s] > AwaitPos(kind[s], c))
    BY <2>1, <2>2 DEF RunInv
  <2>4. ~(pc[s] <= ClosePos(kind[s], c))
    BY <1>2, <2>1, WhereChange DEF StreamInv
  <2>5. Base(kind[s]) \in Nat
    BY DEF Base
  <2> QED
    BY <2>2, <2>3, <2>4, <2>5 DEF AwaitPos, ClosePos
<1> QED
  BY <1>1, <1>2, RefusedChange DEF RefusedInv

\* What the directory holds by the position of the start.
EvidenceInv(s) ==
    /\ kind[s] \in Measured /\ pc[s] > Base(kind[s]) + 8 => "analysis" \in artifacts
    /\ kind[s] = "fault" /\ pc[s] > 8 => "plan" \in artifacts
    /\ kind[s] = "fault" /\ pc[s] > 9 => "recovery" \in artifacts
    /\ kind[s] = "fault" /\ pc[s] > 19 => "after" \in artifacts

LEMMA EvidenceStep ==
  ASSUME TypeOK, NEW s \in Starts, StepOf(s), EvidenceInv(s)
  PROVE  EvidenceInv(s)'
<1>1. /\ kind' = kind /\ pc[s] \in Nat /\ (pc'[s] = pc[s] \/ pc'[s] = pc[s] + 1)
      /\ artifacts \subseteq artifacts'
  BY Growth DEF TypeOK
<1>2. Base(kind[s]) \in Nat
  BY DEF Base
<1>3. CASE pc'[s] = pc[s]
  BY <1>1, <1>3 DEF EvidenceInv
<1>4. CASE pc'[s] # pc[s]
  <2>1. Shape(kind[s], pc[s], Step(s)) /\ pc'[s] = pc[s] + 1
    BY <1>4, AdvanceStep
  <2>2. \A o : Is(Step(s), "collect", o) => o \in artifacts'
    <3> SUFFICES ASSUME NEW o, Is(Step(s), "collect", o)
                 PROVE  o \in artifacts'
      OBVIOUS
    <3>1. CollectEvidence(s) /\ Object(s) = o
      BY <1>4, AdvanceStep DEF Is, Object
    <3> QED
      BY <3>1 DEF CollectEvidence
  <2>3. kind[s] \in Measured /\ pc[s] = Base(kind[s]) + 8 => "analysis" \in artifacts'
    BY <1>1, <2>1, <2>2, PositionOf
  <2>4. /\ kind[s] = "fault" /\ pc[s] = 8 => "plan" \in artifacts'
        /\ kind[s] = "fault" /\ pc[s] = 9 => "recovery" \in artifacts'
        /\ kind[s] = "fault" /\ pc[s] = 19 => "after" \in artifacts'
    BY <1>1, <2>1, <2>2, PositionOf
  <2>5. kind[s] \in Measured /\ pc'[s] > Base(kind[s]) + 8 => "analysis" \in artifacts'
    BY <1>1, <1>2, <2>1, <2>3 DEF EvidenceInv
  <2>6. /\ kind[s] = "fault" /\ pc'[s] > 8 => "plan" \in artifacts'
        /\ kind[s] = "fault" /\ pc'[s] > 9 => "recovery" \in artifacts'
        /\ kind[s] = "fault" /\ pc'[s] > 19 => "after" \in artifacts'
    BY <1>1, <2>1, <2>4 DEF EvidenceInv
  <2> QED
    BY <1>1, <2>5, <2>6 DEF EvidenceInv
<1> QED
  BY <1>3, <1>4
-----------------------------------------------------------------------------
(***************************************************************************)
(* What "passed" stands for                                                *)
(***************************************************************************)
Truncates(s) == wrote'[s] = "torn" /\ metadata' = "empty" /\ Truncate(s)

ReportsFailure(s) ==
    /\ where[s] = "deferred" /\ error[s]
    /\ wrote'[s] = "failed" /\ metadata' \in {"failed", "torn"}

Reports(s) ==
    /\ At(s, "write")
    /\ wrote'[s] = Object(s) /\ metadata' \in {Object(s), "torn"}
    /\ \/ WriteMetadata(s)
       \/ where'[s] = "deferred" /\ error'[s] = TRUE

\* How metadata.json can change.
LEMMA MetadataChange ==
  ASSUME TypeOK, NEW s \in Starts, StepOf(s)
  PROVE  \/ wrote' = wrote /\ metadata' \in {metadata, "torn"}
         \/ Truncates(s)
         \/ ReportsFailure(s)
         \/ Reports(s)
<1>1. CASE Truncate(s)
  BY <1>1 DEF Truncate, Truncates, TypeOK
<1>2. CASE WriteMetadata(s)
  BY <1>2 DEF WriteMetadata, PutBytes, Target, Reports, At, TypeOK
<1>3. CASE StepFails(s)
  BY <1>3 DEF StepFails, PutBytes, PutFails, Target, ReturnFrom, Reports, At, TypeOK
<1>4. CASE ReportFailure(s)
  BY <1>4 DEF ReportFailure, Deferred, PutBytes, PutFails, Target, ReportsFailure, metadataVars,
     TypeOK
<1>5. CASE Begin(s) \/ OpenStream(s) \/ CreateTopic(s) \/ Launch(s) \/ Pass(s) \/ StopComponent(s)
           \/ AwaitComponent(s) \/ CloseStream(s) \/ CollectEvidence(s)
  BY <1>5 DEF Begin, OpenStream, CreateTopic, Launch, Pass, StopComponent, AwaitComponent,
     CloseStream, CollectEvidence, metadataVars
<1>6. CASE InvalidBaseline(s) \/ Refuse(s) \/ TopicExists(s) \/ ReturnNormally(s)
           \/ CancelDeferred(s) \/ CloseDeferred(s) \/ Return(s) \/ Kill(s)
           \/ \E c \in Components : ComponentReturns(s, c) \/ EntryRefused(s, c)
  BY <1>6 DEF InvalidBaseline, Refuse, TopicExists, ReturnNormally, CancelDeferred, CloseDeferred,
     Return, Kill, Exit, ComponentReturns, EntryRefused, metadataVars
<1> QED
  BY <1>1, <1>2, <1>3, <1>4, <1>5, <1>6 DEF StepOf, Proceed

\* A start that reported "passed" had come to the end of its script, and had
\* lost no entry.
PassInv(s) ==
    wrote[s] = "passed" =>
        kind[s] \in {"baseline", "fault"} /\ pc[s] >= Final(kind[s]) /\ refused[s] = {}

LEMMA PassStep ==
  ASSUME TypeOK, NEW s \in Starts, StepOf(s), RunInv(s), RefusedInv(s), PassInv(s)
  PROVE  PassInv(s)'
<1> SUFFICES ASSUME wrote'[s] = "passed"
             PROVE  kind'[s] \in {"baseline", "fault"} /\ pc'[s] >= Final(kind'[s]) /\ refused'[s] = {}
  BY DEF PassInv
<1>1. /\ kind' = kind /\ pc[s] \in Nat /\ (pc'[s] = pc[s] \/ pc'[s] = pc[s] + 1)
      /\ kind[s] \in Kinds /\ pc[s] \in Nat \ {0}
  BY Growth DEF TypeOK
<1>2. Final(kind[s]) \in Nat
  BY DEF Final
<1>3. CASE wrote' = wrote
  <2>1. kind[s] \in {"baseline", "fault"} /\ pc[s] >= Final(kind[s]) /\ refused[s] = {}
    BY <1>3 DEF PassInv
  <2>2. \A c \in Components : kind[s] \in Measured /\ pc[s] > AwaitPos(kind[s], c)
    BY <1>1, <2>1 DEF Measured, AwaitPos, Base, Final
  <2>3. ~ \E c \in Components : EntryRefused(s, c)
    BY <2>2 DEF RunInv, EntryRefused
  <2> QED
    BY <1>1, <1>2, <2>1, <2>3, RefusedChange
<1>4. CASE Reports(s)
  <2>1. WriteAt(kind[s], pc[s], Object(s)) /\ Object(s) = "passed" /\ where[s] = "script"
    BY <1>1, <1>4, AtWhere DEF Reports, At
  <2>2. kind[s] \in {"baseline", "fault"} /\ pc[s] = Final(kind[s])
    BY <2>1 DEF WriteAt
  <2>3. refused[s] = {}
    BY <2>1 DEF RefusedInv
  <2>4. ~ \E c \in Components : EntryRefused(s, c)
    <3>1. \A c \in Components : kind[s] \in Measured /\ pc[s] > AwaitPos(kind[s], c)
      BY <1>1, <2>2 DEF Measured, AwaitPos, Base, Final
    <3> QED
      BY <3>1 DEF RunInv, EntryRefused
  <2> QED
    BY <1>1, <1>2, <2>2, <2>3, <2>4, RefusedChange
<1> QED
  BY <1>3, <1>4, MetadataChange DEF Truncates, ReportsFailure

\* A good word in metadata.json is the last word of some start.
WordInv == metadata = "passed" => \E s \in Starts : wrote[s] = "passed"

LEMMA WordStep ==
  ASSUME TypeOK, NEW s \in Starts, StepOf(s), WordInv
  PROVE  WordInv'
<1>1. CASE wrote' = wrote /\ metadata' \in {metadata, "torn"}
  BY <1>1 DEF WordInv
<1>2. CASE Reports(s)
  BY <1>2 DEF Reports, WordInv
<1> QED
  BY <1>1, <1>2, MetadataChange DEF Truncates, ReportsFailure, WordInv

\* All of it, for every start.
RunsInv == \A s \in Starts : StreamInv(s) /\ RunInv(s) /\ RefusedInv(s) /\ EvidenceInv(s) /\ PassInv(s)

LEMMA RunsInit == Init => RunsInv /\ WordInv
<1> SUFFICES ASSUME Init PROVE RunsInv /\ WordInv
  OBVIOUS
<1>1. WordInv
  BY DEF Init, WordInv
<1>2. ASSUME NEW s \in Starts
      PROVE  StreamInv(s) /\ RunInv(s) /\ RefusedInv(s) /\ EvidenceInv(s) /\ PassInv(s)
  <2>1. pc[s] = 1 /\ running[s] = {} /\ refused[s] = {} /\ wrote[s] = "none"
    BY DEF Init
  <2>2. \A c \in Components : stream[s][c] = "none"
    BY DEF Init, Streams
  <2>3. Base(kind[s]) \in 7 .. 9
    BY DEF Base
  <2>4. StreamInv(s)
    BY <2>1, <2>2, <2>3 DEF StreamInv, ClosePos
  <2> QED
    BY <2>1, <2>3, <2>4 DEF RunInv, RefusedInv, EvidenceInv, PassInv, AwaitPos
<1> QED
  BY <1>1, <1>2 DEF RunsInv

LEMMA RunsStep ==
  ASSUME TypeOK, NEW s \in Starts, StepOf(s), RunsInv, WordInv
  PROVE  RunsInv' /\ WordInv'
<1>1. WordInv'
  BY WordStep
<1>2. /\ StreamInv(s)' /\ RunInv(s)' /\ RefusedInv(s)' /\ EvidenceInv(s)' /\ PassInv(s)'
  BY StreamStep, RunStep, RefusedStep, EvidenceStep, PassStep DEF RunsInv
<1>3. ASSUME NEW t \in Starts, t # s
      PROVE  StreamInv(t)' /\ RunInv(t)' /\ RefusedInv(t)' /\ EvidenceInv(t)' /\ PassInv(t)'
  <2>1. SameStart(t) /\ kind' = kind /\ artifacts \subseteq artifacts'
    BY <1>3, Frame, Growth
  <2>2. StreamInv(t) /\ RunInv(t) /\ RefusedInv(t) /\ EvidenceInv(t) /\ PassInv(t)
    BY DEF RunsInv
  <2>3. StreamInv(t)' /\ RunInv(t)' /\ RefusedInv(t)'
    BY <2>1, <2>2 DEF SameStart, StreamInv, RunInv, RefusedInv
  <2>4. EvidenceInv(t)' /\ PassInv(t)'
    BY <2>1, <2>2 DEF SameStart, EvidenceInv, PassInv
  <2> QED
    BY <2>3, <2>4
<1> QED
  BY <1>1, <1>2, <1>3 DEF RunsInv

LEMMA RunsKept == TypeOK /\ RunsInv /\ WordInv /\ [Next]_vars => RunsInv' /\ WordInv'
<1>1. ASSUME UNCHANGED vars, RunsInv, WordInv PROVE RunsInv' /\ WordInv'
  BY <1>1 DEF vars, flowVars, metadataVars, componentVars, RunsInv, WordInv, StreamInv, RunInv,
     RefusedInv, EvidenceInv, PassInv
<1> QED
  BY <1>1, NextIsAStep, RunsStep

LEMMA RunsAlways == Spec => [](RunsInv /\ WordInv)
BY RunsInit, RunsKept, TypeCorrect, PTL DEF Spec

-----------------------------------------------------------------------------
(***************************************************************************)
(* Nobody touches the files that were analysed                             *)
(***************************************************************************)
\* Who wrote the analysis is past it.
AuthorInv ==
    "analysis" \in artifacts =>
        \E s \in Starts : kind[s] \in Measured /\ pc[s] > Base(kind[s]) + 8

\* How the evidence can change.
LEMMA ArtifactsChange ==
  ASSUME TypeOK, NEW s \in Starts, StepOf(s)
  PROVE  \/ artifacts' = artifacts
         \/ /\ CollectAt(kind[s], pc[s], Object(s))
            /\ artifacts' = artifacts \cup {Object(s)}
            /\ pc'[s] = pc[s] + 1
<1>1. CASE CollectEvidence(s)
  <2>1. kind[s] \in Kinds /\ pc[s] \in Nat \ {0}
    BY DEF TypeOK
  <2>2. CollectAt(kind[s], pc[s], Object(s))
    BY <1>1, <2>1, AtWhere DEF CollectEvidence
  <2> QED
    BY <1>1, <2>2 DEF CollectEvidence, Advance, TypeOK
<1>2. CASE ~CollectEvidence(s)
  BY <1>2 DEF StepOf, Proceed, Begin, Truncate, WriteMetadata, OpenStream, CreateTopic, Launch,
     Pass, StopComponent, AwaitComponent, CloseStream, InvalidBaseline, Refuse, TopicExists,
     StepFails, ReturnNormally, CancelDeferred, CloseDeferred, ReportFailure, Return, Kill, Exit,
     ComponentReturns, EntryRefused
<1> QED
  BY <1>1, <1>2

LEMMA AuthorStep ==
  ASSUME TypeOK, NEW s \in Starts, StepOf(s), AuthorInv
  PROVE  AuthorInv'
<1>1. kind' = kind
  BY Growth
<1>2. \A t \in Starts : kind[t] \in Measured /\ pc[t] > Base(kind[t]) + 8
                            => pc'[t] > Base(kind[t]) + 8
  <2> SUFFICES ASSUME NEW t \in Starts, pc[t] > Base(kind[t]) + 8
               PROVE  pc'[t] > Base(kind[t]) + 8
    OBVIOUS
  <2>1. pc[t] \in Nat /\ (pc'[t] = pc[t] \/ pc'[t] = pc[t] + 1)
    BY Growth DEF TypeOK
  <2>2. Base(kind[t]) \in Nat
    BY DEF Base
  <2> QED
    BY <2>1, <2>2
<1>3. CASE "analysis" \in artifacts
  BY <1>1, <1>2, <1>3 DEF AuthorInv
<1>4. CASE "analysis" \notin artifacts /\ "analysis" \in artifacts'
  <2>1. CollectAt(kind[s], pc[s], "analysis") /\ pc'[s] = pc[s] + 1
    BY <1>4, ArtifactsChange
  <2>2. kind[s] \in Measured /\ pc[s] = Base(kind[s]) + 8
    BY <2>1 DEF CollectAt
  <2>3. Base(kind[s]) \in Nat
    BY DEF Base
  <2>4. pc'[s] > Base(kind[s]) + 8
    BY <2>1, <2>2, <2>3
  <2> QED
    BY <1>1, <2>2, <2>4 DEF AuthorInv
<1> QED
  BY <1>3, <1>4 DEF AuthorInv

LEMMA AuthorKept == TypeOK /\ AuthorInv /\ [Next]_vars => AuthorInv'
<1>1. ASSUME UNCHANGED vars, AuthorInv PROVE AuthorInv'
  BY <1>1 DEF vars, flowVars, AuthorInv
<1> QED
  BY <1>1, NextIsAStep, AuthorStep

LEMMA AuthorAlways == Spec => []AuthorInv
<1>1. Init => AuthorInv
  BY DEF Init, AuthorInv
<1> QED
  BY <1>1, AuthorKept, TypeCorrect, PTL DEF Spec

\* Once analysed, the component's files stay: a step that changes one is a step
\* of the start whose topic it is, and that start is past their close.
LEMMA FilesAreFrozen ==
  ASSUME TypeOK, TrafficInv, RunsInv, AuthorInv, NEW s \in Starts, StepOf(s),
         "analysis" \in artifacts, NEW t \in Starts, NEW c \in Components
  PROVE  stream'[t][c] = stream[t][c]
<1>1. CASE t # s
  BY <1>1, Frame DEF SameStart
<1>2. CASE t = s
  <2>1. PICK a \in Starts : kind[a] \in Measured /\ pc[a] > Base(kind[a]) + 8
    BY DEF AuthorInv
  <2>2. pc[a] \in Nat /\ pc[s] \in Nat /\ Base(kind[a]) \in 7 .. 9 /\ Base(kind[s]) \in 7 .. 9
    BY DEF TypeOK, Base
  <2>3. Created(a)
    BY <2>1, <2>2 DEF Created
  <2>4. ClosePos(kind[a], c) < pc[a] /\ OpenPos(c) < pc[a]
    BY <2>1, <2>2 DEF ClosePos, OpenPos
  <2>5. stream[a][c] = "sealed"
    BY <2>1, <2>4 DEF RunsInv, StreamInv
  <2>6. Created(s) => s = a
    BY <2>3 DEF TrafficInv
  <2>7. ~Opens(s, c)
    <3> SUFFICES ASSUME Opens(s, c) PROVE FALSE
      OBVIOUS
    <3>1. kind[s] \in Measured /\ pc[s] = OpenPos(c)
      BY DEF Opens
    <3>2. Created(s)
      BY <3>1 DEF Created, OpenPos
    <3> QED
      BY <2>2, <2>4, <2>6, <3>1, <3>2 DEF OpenPos
  <2>8. ~Closes(s, c)
    <3> SUFFICES ASSUME Closes(s, c) PROVE FALSE
      OBVIOUS
    <3>1. kind[s] \in Measured /\ pc[s] = ClosePos(kind[s], c)
      BY DEF Closes
    <3>2. Created(s)
      BY <2>2, <3>1 DEF Created, ClosePos
    <3> QED
      BY <2>2, <2>4, <2>6, <3>1, <3>2
  <2>9. ~Drops(s, c)
    <3> SUFFICES ASSUME Drops(s, c) PROVE FALSE
      OBVIOUS
    <3>1. stream[s][c] = "open"
      BY DEF Drops
    <3>2. Created(s)
      BY <3>1 DEF TrafficInv
    <3> QED
      BY <2>5, <2>6, <3>1, <3>2
  <2> QED
    BY <1>2, <2>7, <2>8, <2>9, StreamChange
<1> QED
  BY <1>1, <1>2

\* Once the analysis was written no start touches producer.jsonl and
\* consumer.jsonl, which it was made from: nothing opens, flushes or closes them.
THEOREM EvidenceStaysFrozen == Spec => EvidenceIsFrozen
<1> DEFINE Frozen ==
             "analysis" \in artifacts =>
                 \A s \in Starts, c \in Components : stream'[s][c] = stream[s][c]
<1>1. ASSUME UNCHANGED vars PROVE Frozen
  BY <1>1 DEF vars
<1>2. ASSUME TypeOK, TrafficInv, RunsInv, AuthorInv, NEW s \in Starts, StepOf(s)
      PROVE  Frozen
  BY <1>2, FilesAreFrozen
<1>3. TypeOK /\ TrafficInv /\ RunsInv /\ AuthorInv /\ [Next]_vars => [Frozen]_vars
  BY <1>1, <1>2, NextIsAStep
<1> QED
  BY <1>3, TypeCorrect, TrafficAlways, RunsAlways, AuthorAlways, PTL DEF Spec, EvidenceIsFrozen
-----------------------------------------------------------------------------
(***************************************************************************)
(* The contract of a start                                                 *)
(***************************************************************************)
\* Who comes to the end without an error has reported something good.
EndInv(s) ==
    /\ where[s] = "idle" => pc[s] = 1
    /\ kind[s] = "refused" => pc[s] = 1
    /\ kind[s] = "plan" /\ where[s] = "script" /\ pc[s] > 1 => wrote[s] = "dry_run"
    /\ where[s] = "script" /\ pc[s] > Length(kind[s]) => wrote[s] \in GoodReports
    /\ where[s] \in {"deferred", "returned"} /\ ~error[s] => wrote[s] \in GoodReports

\* A start leaves its script without an error at its end only.
LEMMA LeaveChange ==
  ASSUME TypeOK, NEW s \in Starts, StepOf(s), where'[s] \in {"deferred", "returned"}, ~error'[s]
  PROVE  \/ where[s] \in {"deferred", "returned"} /\ ~error[s]
         \/ ReturnNormally(s)
<1>1. CASE InvalidBaseline(s) \/ Refuse(s) \/ TopicExists(s) \/ StepFails(s)
  BY <1>1 DEF InvalidBaseline, Refuse, TopicExists, StepFails, ReturnFrom, TypeOK
<1>2. CASE Return(s) \/ Kill(s)
  BY <1>2 DEF Return, Kill, Exit, TypeOK
<1>3. CASE Begin(s) \/ Truncate(s) \/ WriteMetadata(s) \/ OpenStream(s) \/ CreateTopic(s)
           \/ Launch(s) \/ Pass(s) \/ StopComponent(s) \/ AwaitComponent(s) \/ CloseStream(s)
           \/ CollectEvidence(s)
  BY <1>3 DEF Begin, Truncate, WriteMetadata, OpenStream, CreateTopic, Launch, Pass, StopComponent,
     AwaitComponent, CloseStream, CollectEvidence, flowVars, TypeOK
<1>4. CASE CancelDeferred(s) \/ CloseDeferred(s) \/ ReportFailure(s)
           \/ \E c \in Components : ComponentReturns(s, c) \/ EntryRefused(s, c)
  BY <1>4 DEF CancelDeferred, CloseDeferred, ReportFailure, ComponentReturns, EntryRefused, flowVars
<1> QED
  BY <1>1, <1>2, <1>3, <1>4 DEF StepOf, Proceed

LEMMA LengthType == \A k : Length(k) \in Nat /\ Length(k) >= 1
BY DEF Length, Final

\* In the script metadata.json is written at a "write" step only, and after it
\* by a start that failed.
LEMMA WordChange ==
  ASSUME TypeOK, NEW s \in Starts, StepOf(s), wrote'[s] # wrote[s]
  PROVE  \/ At(s, "write")
         \/ where[s] = "deferred" /\ error[s]
<1>1. Truncate(s) => At(s, "write") \/ (where[s] = "deferred" /\ error[s])
  BY DEF Truncate, Writing, Deferred
<1> QED
  BY <1>1, MetadataChange DEF Truncates, ReportsFailure, Reports

LEMMA EndStep ==
  ASSUME TypeOK, NEW s \in Starts, StepOf(s), EndInv(s)
  PROVE  EndInv(s)'
<1>1. /\ kind' = kind /\ pc[s] \in Nat /\ (pc'[s] = pc[s] \/ pc'[s] = pc[s] + 1)
      /\ kind[s] \in Kinds /\ pc[s] \in Nat \ {0} /\ Length(kind[s]) \in Nat /\ Length(kind[s]) >= 1
  BY Growth, LengthType DEF TypeOK
<1>2. Ended(s) <=> pc[s] > Length(kind[s])
  BY <1>1, StepShape
<1>3. At(s, "write") => where[s] = "script" /\ pc[s] <= Length(kind[s])
                        /\ (kind[s] = "plan" => pc[s] = 1)
  <2>1. At(s, "write") => WriteAt(kind[s], pc[s], Object(s))
    BY <1>1, AtWhere
  <2>2. At(s, "write") => where[s] = "script" /\ ~Ended(s)
    BY DEF At
  <2> QED
    BY <1>1, <1>2, <2>1, <2>2 DEF WriteAt, Measured
<1>4. where'[s] = "idle" => where[s] = "idle" /\ pc'[s] = pc[s]
  <2>1. pc'[s] # pc[s] => where'[s] = "script"
    BY AdvanceStep
  <2>2. where'[s] = "idle" => where[s] = "idle"
    BY DEF StepOf, Proceed, Begin, Truncate, WriteMetadata, OpenStream, CreateTopic, Launch, Pass,
       StopComponent, AwaitComponent, CloseStream, CollectEvidence, InvalidBaseline, Refuse,
       TopicExists, StepFails, ReturnNormally, ReturnFrom, CancelDeferred, CloseDeferred,
       ReportFailure, Return, Kill, Exit, ComponentReturns, EntryRefused, flowVars, TypeOK
  <2> QED
    BY <2>1, <2>2
<1>5. kind[s] = "refused" => pc'[s] = pc[s]
  <2> SUFFICES ASSUME kind[s] = "refused", pc'[s] # pc[s] PROVE FALSE
    OBVIOUS
  <2>1. Shape("refused", pc[s], Step(s)) /\ Step(s)[1] # "refuse"
    BY AdvanceStep
  <2> QED
    BY <2>1 DEF Shape, Is, Measured
<1>6. ASSUME pc'[s] # pc[s]
      PROVE  /\ kind[s] = "plan" => wrote'[s] = "dry_run"
             /\ pc[s] = Length(kind[s]) => wrote'[s] \in GoodReports
             /\ pc[s] <= Length(kind[s]) /\ where'[s] = "script"
  <2>1. Shape(kind[s], pc[s], Step(s)) /\ ~Ended(s) /\ where[s] = "script" /\ where' = where
    BY <1>6, AdvanceStep
  <2>2. \A o : Is(Step(s), "write", o) => wrote'[s] = o
    <3> SUFFICES ASSUME NEW o, Is(Step(s), "write", o)
                 PROVE  wrote'[s] = o
      OBVIOUS
    <3>1. WriteMetadata(s) /\ Object(s) = o
      BY <1>6, AdvanceStep DEF Is, Object
    <3> QED
      BY <2>1, <3>1 DEF WriteMetadata, PutBytes, Target, TypeOK
  <2>3. kind[s] = "plan" /\ pc[s] = 1 => wrote'[s] = "dry_run"
    BY <1>1, <2>1, <2>2, PositionOf
  <2>4. kind[s] = "plan" /\ pc[s] > 1 => wrote'[s] = "dry_run"
    BY <1>3, <2>1, WordChange DEF EndInv
  <2>5. kind[s] \in Measured /\ pc[s] = Final(kind[s]) => wrote'[s] \in GoodReports
    BY <1>1, <2>1, <2>2, PositionOf DEF GoodReports
  <2>6. kind[s] # "refused"
    BY <1>5, <1>6
  <2>7. kind[s] \in Measured \/ kind[s] = "plan"
    BY <1>1, <2>6, KindsAre
  <2> QED
    BY <1>1, <1>2, <2>1, <2>3, <2>4, <2>5, <2>7 DEF Length, GoodReports
<1>7. kind[s] = "plan" /\ where'[s] = "script" /\ pc'[s] > 1 => wrote'[s] = "dry_run"
  <2>1. CASE pc'[s] # pc[s]
    BY <1>6, <2>1
  <2>2. CASE pc'[s] = pc[s]
    BY <1>3, <2>2, WhereChange, WordChange DEF EndInv
  <2> QED
    BY <2>1, <2>2
<1>8. where'[s] = "script" /\ pc'[s] > Length(kind[s]) => wrote'[s] \in GoodReports
  <2>1. CASE pc'[s] # pc[s]
    BY <1>1, <1>6, <2>1
  <2>2. CASE pc'[s] = pc[s]
    BY <1>1, <1>3, <2>2, WhereChange, WordChange DEF EndInv
  <2> QED
    BY <2>1, <2>2
<1>9. where'[s] \in {"deferred", "returned"} /\ ~error'[s] => wrote'[s] \in GoodReports
  <2> SUFFICES ASSUME where'[s] \in {"deferred", "returned"}, ~error'[s]
               PROVE  wrote'[s] \in GoodReports
    OBVIOUS
  <2>1. CASE where[s] \in {"deferred", "returned"} /\ ~error[s]
    BY <1>3, <2>1, WordChange DEF EndInv
  <2>2. CASE ReturnNormally(s)
    BY <1>2, <2>2 DEF ReturnNormally, metadataVars, EndInv
  <2> QED
    BY <2>1, <2>2, LeaveChange
<1> QED
  BY <1>1, <1>4, <1>5, <1>7, <1>8, <1>9 DEF EndInv

EndsWell == \A s \in Starts : EndInv(s)

LEMMA EndKept == TypeOK /\ EndsWell /\ [Next]_vars => EndsWell'
<1>1. ASSUME UNCHANGED vars, EndsWell PROVE EndsWell'
  BY <1>1 DEF vars, flowVars, metadataVars, EndsWell, EndInv
<1>2. ASSUME TypeOK, EndsWell, NEW s \in Starts, StepOf(s), NEW t \in Starts
      PROVE  EndInv(t)'
  <2>1. CASE t = s
    BY <1>2, <2>1, EndStep DEF EndsWell
  <2>2. CASE t # s
    <3>1. SameStart(t) /\ kind' = kind /\ EndInv(t)
      BY <1>2, <2>2, Frame, Growth DEF EndsWell
    <3> QED
      BY <3>1 DEF SameStart, EndInv
  <2> QED
    BY <2>1, <2>2
<1> QED
  BY <1>1, <1>2, NextIsAStep DEF EndsWell

LEMMA EndAlways == Spec => []EndsWell
<1>1. Init => EndsWell
  <2> SUFFICES ASSUME Init, NEW s \in Starts PROVE EndInv(s)
    BY DEF EndsWell
  <2>1. pc[s] = 1 /\ where[s] = "idle"
    BY DEF Init
  <2> QED
    BY <2>1 DEF EndInv
<1> QED
  BY <1>1, EndKept, TypeCorrect, PTL DEF Spec

\* What the waiting side sees of a step.
LEMMA OutcomeChange ==
  ASSUME TypeOK, NEW s \in Starts, StepOf(s)
  PROVE  \/ Begin(s) \/ Return(s) \/ Kill(s)
         \/ where'[s] = where[s] /\ error'[s] = error[s]
         \/ where[s] \in {"script", "deferred"} /\ where'[s] \in {"script", "deferred"}
<1>1. CASE InvalidBaseline(s) \/ Refuse(s) \/ TopicExists(s) \/ StepFails(s) \/ ReturnNormally(s)
  BY <1>1 DEF InvalidBaseline, Refuse, TopicExists, StepFails, ReturnNormally, ReturnFrom, At, TypeOK
<1>2. CASE Truncate(s) \/ WriteMetadata(s) \/ OpenStream(s) \/ CreateTopic(s)
           \/ Launch(s) \/ Pass(s) \/ StopComponent(s) \/ AwaitComponent(s) \/ CloseStream(s)
           \/ CollectEvidence(s)
  BY <1>2 DEF Truncate, WriteMetadata, OpenStream, CreateTopic, Launch, Pass, StopComponent,
     AwaitComponent, CloseStream, CollectEvidence, flowVars
<1>3. CASE CancelDeferred(s) \/ CloseDeferred(s) \/ ReportFailure(s)
           \/ \E c \in Components : ComponentReturns(s, c) \/ EntryRefused(s, c)
  BY <1>3 DEF CancelDeferred, CloseDeferred, ReportFailure, ComponentReturns, EntryRefused, flowVars
<1> QED
  BY <1>1, <1>2, <1>3 DEF StepOf, Proceed

LEMMA ContractStep ==
  ASSUME TypeOK, EndsWell, NEW s \in Starts, StepOf(s)
  PROVE  Contract(s)!Next \/ UNCHANGED Contract(s)!vars
<1> USE DEF Contract!Next, Contract!vars
<1>1. where[s] \in {"idle", "script", "deferred", "returned", "killed"} /\ error[s] \in BOOLEAN
  BY DEF TypeOK
<1>2. CASE Begin(s)
  BY <1>2 DEF Begin, metadataVars, TypeOK, Outcome, Contract!Begin
<1>3. CASE Return(s)
  <2>1. /\ where[s] = "deferred" /\ where'[s] = "returned"
        /\ error' = error /\ wrote' = wrote
    BY <1>3 DEF Return, Exit, TypeOK
  <2>2. ~error[s] => wrote[s] \in GoodReports
    BY <2>1 DEF EndsWell, EndInv
  <2> QED
    BY <1>1, <2>1, <2>2 DEF Outcome, Contract!Succeed, Contract!Fail, Contract!GoodReports, GoodReports
<1>4. CASE Kill(s)
  <2>1. /\ where[s] \in {"script", "deferred"} /\ where'[s] = "killed" /\ wrote' = wrote
    BY <1>4 DEF Kill, Exit, TypeOK
  <2> QED
    BY <2>1 DEF Outcome, Contract!Fail
<1>5. CASE Outcome(s)' = Outcome(s)
  <2>1. CASE wrote'[s] = wrote[s]
    BY <1>5, <2>1
  <2>2. CASE wrote'[s] # wrote[s]
    <3>1. where[s] \in {"script", "deferred"}
      BY <2>2, WordChange DEF At
    <3>2. kind[s] \in Kinds /\ pc[s] \in Nat \ {0}
      BY DEF TypeOK
    <3>3. Reports(s) => Object(s) \in {"running", "passed", "dry_run"}
      BY <3>2, AtWhere DEF Reports, WriteAt
    <3>4. wrote'[s] \in {"running", "passed", "dry_run", "failed", "torn"}
      BY <2>2, <3>3, MetadataChange DEF Truncates, ReportsFailure, Reports
    <3> QED
      BY <1>5, <3>1, <3>4
      DEF Outcome, Contract!Report, Contract!Reports, Contract!GoodReports
  <2> QED
    BY <2>1, <2>2
<1>6. where'[s] = where[s] /\ error'[s] = error[s] => Outcome(s)' = Outcome(s)
  BY DEF Outcome
<1>7. where[s] \in {"script", "deferred"} /\ where'[s] \in {"script", "deferred"}
         => Outcome(s)' = Outcome(s)
  BY DEF Outcome
<1> QED
  BY <1>2, <1>3, <1>4, <1>5, <1>6, <1>7, OutcomeChange

\* Every start keeps RunContract: exit 0 only after a good report, and no report
\* after the end.
THEOREM StartsKeepContract == Spec => KeepsContract
<1>1. Init => \A s \in Starts : Contract(s)!Init
  BY DEF Init, Outcome, Contract!Init
<1>2. ASSUME UNCHANGED vars
      PROVE  \A s \in Starts : Contract(s)!Next \/ UNCHANGED Contract(s)!vars
  BY <1>2 DEF vars, flowVars, metadataVars, Outcome, Contract!vars
<1>3. ASSUME TypeOK, EndsWell, NEW s \in Starts, StepOf(s), NEW t \in Starts
      PROVE  Contract(t)!Next \/ UNCHANGED Contract(t)!vars
  <2>1. CASE t = s
    BY <1>3, <2>1, ContractStep
  <2>2. CASE t # s
    <3>1. SameStart(t)
      BY <1>3, <2>2, Frame
    <3> QED
      BY <3>1 DEF SameStart, Outcome, Contract!vars
  <2> QED
    BY <2>1, <2>2
<1>4. TypeOK /\ EndsWell /\ [Next]_vars
      => [\A s \in Starts : Contract(s)!Next \/ UNCHANGED Contract(s)!vars]_vars
  BY <1>2, <1>3, NextIsAStep
<1> QED
  BY <1>1, <1>4, TypeCorrect, EndAlways, PTL DEF Spec, KeepsContract
-----------------------------------------------------------------------------
(***************************************************************************)
(* No start stands still, and nothing is left open or running at its end   *)
(***************************************************************************)
LEMMA FrameCalls ==
  ASSUME TypeOK, NEW s \in Starts, StepOf(s), NEW t \in Starts, t # s
  PROVE  defers'[t] = defers[t] /\ cancelled'[t] = cancelled[t]
<1>1. CASE Begin(s) \/ Truncate(s) \/ WriteMetadata(s) \/ CreateTopic(s)
  BY <1>1 DEF Begin, Truncate, WriteMetadata, CreateTopic, flowVars, componentVars
<1>2. CASE OpenStream(s) \/ Launch(s) \/ Pass(s)
  BY <1>2 DEF OpenStream, Launch, Pass, Defer, componentVars, TypeOK
<1>3. CASE StopComponent(s) \/ AwaitComponent(s) \/ CloseStream(s) \/ CollectEvidence(s)
  BY <1>3 DEF StopComponent, AwaitComponent, CloseStream, CollectEvidence, componentVars, TypeOK
<1>4. CASE InvalidBaseline(s) \/ Refuse(s) \/ TopicExists(s) \/ ReturnNormally(s) \/ StepFails(s)
  BY <1>4 DEF InvalidBaseline, Refuse, TopicExists, ReturnNormally, StepFails, Defer, componentVars, TypeOK
<1>5. CASE CancelDeferred(s) \/ ReportFailure(s) \/ CloseDeferred(s)
  BY <1>5 DEF CancelDeferred, ReportFailure, CloseDeferred, Pop, componentVars, TypeOK
<1>6. CASE Return(s) \/ Kill(s)
  BY <1>6 DEF Return, Kill, Exit
<1>7. CASE \E c \in Components : ComponentReturns(s, c) \/ EntryRefused(s, c)
  BY <1>7 DEF ComponentReturns, EntryRefused, flowVars
<1> QED
  BY <1>1, <1>2, <1>3, <1>4, <1>5, <1>6, <1>7 DEF StepOf, Proceed

\* What a start cancelled stays cancelled.
LEMMA CancelledGrows ==
  ASSUME TypeOK, NEW s \in Starts, StepOf(s)
  PROVE  cancelled[s] \subseteq cancelled'[s]
<1>1. cancelled[s] \subseteq Components
  BY DEF TypeOK
<1>2. CASE StopComponent(s)
  BY <1>2 DEF StopComponent, TypeOK
<1>3. CASE CancelDeferred(s)
  BY <1>1, <1>3 DEF CancelDeferred, TypeOK
<1>4. CASE ~StopComponent(s) /\ ~CancelDeferred(s)
  BY <1>4 DEF StepOf, Proceed, Begin, Truncate, WriteMetadata, OpenStream, CreateTopic, Launch, Pass,
     AwaitComponent, CloseStream, CollectEvidence, InvalidBaseline, Refuse, TopicExists, StepFails,
     ReturnNormally, CloseDeferred, ReportFailure, Return, Kill, Exit, ComponentReturns, EntryRefused,
     componentVars
<1> QED
  BY <1>2, <1>3, <1>4

\* A component is cancelled before it is awaited.
StopPos(k, c) == IF c = "producer" THEN Base(k) + 1 ELSE Base(k) + 4

CancelInv(s) ==
    \A c \in Components :
        kind[s] \in Measured /\ pc[s] > StopPos(kind[s], c) => c \in cancelled[s]

LEMMA CancelStep ==
  ASSUME TypeOK, NEW s \in Starts, StepOf(s), CancelInv(s)
  PROVE  CancelInv(s)'
<1> SUFFICES ASSUME NEW c \in Components, kind'[s] \in Measured, pc'[s] > StopPos(kind'[s], c)
             PROVE  c \in cancelled'[s]
  BY DEF CancelInv
<1>1. kind' = kind /\ pc[s] \in Nat /\ (pc'[s] = pc[s] \/ pc'[s] = pc[s] + 1)
  BY Growth DEF TypeOK
<1>2. StopPos(kind[s], c) \in Nat
  BY DEF StopPos, Base
<1>3. CASE pc[s] > StopPos(kind[s], c)
  BY <1>1, <1>3, CancelledGrows DEF CancelInv
<1>4. CASE ~(pc[s] > StopPos(kind[s], c))
  <2>1. pc[s] = StopPos(kind[s], c) /\ pc'[s] # pc[s]
    BY <1>1, <1>2, <1>4
  <2>2. Shape(kind[s], pc[s], Step(s))
    BY <2>1, AdvanceStep
  <2>3. Is(Step(s), "stop", c)
    BY <1>1, <2>1, <2>2, PositionOf DEF StopPos, Components
  <2>4. StopComponent(s) /\ Object(s) = c
    BY <2>1, <2>3, AdvanceStep DEF Is, Object
  <2> QED
    BY <2>4 DEF StopComponent, TypeOK
<1> QED
  BY <1>3, <1>4

CancelsAll == \A s \in Starts : CancelInv(s)

LEMMA CancelAlways == Spec => []CancelsAll
<1>1. Init => CancelsAll
  <2> SUFFICES ASSUME Init, NEW s \in Starts PROVE CancelInv(s)
    BY DEF CancelsAll
  <2>1. pc[s] = 1
    BY DEF Init
  <2> QED
    BY <2>1 DEF CancelInv, StopPos, Base
<1>2. ASSUME UNCHANGED vars, CancelsAll PROVE CancelsAll'
  BY <1>2 DEF vars, flowVars, componentVars, CancelsAll, CancelInv
<1>3. ASSUME TypeOK, CancelsAll, NEW s \in Starts, StepOf(s), NEW t \in Starts
      PROVE  CancelInv(t)'
  <2>1. CASE t = s
    BY <1>3, <2>1, CancelStep DEF CancelsAll
  <2>2. CASE t # s
    <3>1. SameStart(t) /\ kind' = kind /\ CancelInv(t) /\ cancelled'[t] = cancelled[t]
      BY <1>3, <2>2, Frame, FrameCalls, Growth DEF CancelsAll
    <3> QED
      BY <3>1 DEF SameStart, CancelInv
  <2> QED
    BY <2>1, <2>2
<1>4. TypeOK /\ CancelsAll /\ [Next]_vars => CancelsAll'
  BY <1>2, <1>3, NextIsAStep DEF CancelsAll
<1> QED
  BY <1>1, <1>4, TypeCorrect, PTL DEF Spec

\* What a start does next, or the component it waits for: that one's context is
\* cancelled, so it may return.
CanProceed(s) ==
    \/ Writing(s)
    \/ \E verb \in {"open", "create", "launch", "pass", "stop", "close", "collect", "refuse"} :
          At(s, verb)
    \/ At(s, "await") /\ (Object(s) \in running[s] => Object(s) \in cancelled[s])
    \/ where[s] = "script" /\ Ended(s)
    \/ \E call \in Streams \cup {"cancel", "failed"} : Deferred(s, call)
    \/ where[s] = "deferred" /\ defers[s] = <<>>

NoStartStandsStill ==
    \A s \in Starts : where[s] \in {"script", "deferred"} => CanProceed(s)

Verbs == {"write", "open", "create", "launch", "pass", "stop", "await", "close", "collect", "refuse"}

LEMMA VerbOf ==
  ASSUME NEW k, NEW i \in Nat, NEW x, Shape(k, i, x)
  PROVE  x[1] \in Verbs
BY DEF Shape, OpeningShape, ClosingShape, Is, Verbs

\* The core of EveryStartEnds: whatever fails, dies or is started twice, a start
\* that has begun has a step to take, and when it waits for a component, it has
\* cancelled that one's context before (RunBaseline and runFault).
THEOREM StartsNeverStandStill == Spec => []NoStartStandsStill
<1>1. ASSUME TypeOK, CancelsAll, NEW s \in Starts, where[s] = "script", ~Ended(s)
      PROVE  CanProceed(s)
  <2>1. kind[s] \in Kinds /\ pc[s] \in Nat \ {0}
    BY <1>1 DEF TypeOK
  <2>2. Step(s)[1] \in Verbs
    BY <1>1, <2>1, StepShape, VerbOf
  <2>3. At(s, Step(s)[1])
    BY <1>1 DEF At
  <2>4. CASE Step(s)[1] = "await"
    <3>1. AwaitAt(kind[s], pc[s], Object(s))
      BY <2>1, <2>3, <2>4, AtWhere
    <3>2. /\ kind[s] \in Measured /\ Object(s) \in Components
          /\ pc[s] = StopPos(kind[s], Object(s)) + 1 /\ StopPos(kind[s], Object(s)) \in Nat
      BY <3>1 DEF AwaitAt, StopPos, Base, Components
    <3>3. Object(s) \in cancelled[s]
      BY <1>1, <3>2 DEF CancelsAll, CancelInv
    <3> QED
      BY <2>3, <2>4, <3>3 DEF CanProceed
  <2>5. CASE Step(s)[1] = "write"
    BY <2>3, <2>5 DEF CanProceed, Writing
  <2> QED
    BY <2>2, <2>3, <2>4, <2>5, Zenon DEF CanProceed, Verbs
<1>2. ASSUME TypeOK, NEW s \in Starts, where[s] = "deferred", defers[s] # <<>>
      PROVE  CanProceed(s)
  <2>1. defers[s] \in Seq(Streams \cup {"cancel", "failed"})
    BY <1>2 DEF TypeOK
  <2>2. Head(defers[s]) \in Streams \cup {"cancel", "failed"}
    BY <1>2, <2>1
  <2> QED
    BY <1>2, <2>2, Zenon DEF CanProceed, Deferred
<1>3. TypeOK /\ CancelsAll => NoStartStandsStill
  BY <1>1, <1>2 DEF NoStartStandsStill, CanProceed
<1> QED
  BY <1>3, TypeCorrect, CancelAlways, PTL

\* A call waits among the deferred calls q.
Queued(q, call) == \E i \in 1 .. Len(q) : q[i] = call

LEMMA QueuedCalls ==
  ASSUME NEW S, NEW c \in Seq(S), NEW q \in Seq(S)
  PROVE  /\ \A call : Queued(q, call) => Queued(c \o q, call)
         /\ \A i \in 1 .. Len(c) : Queued(c \o q, c[i])
<1> SUFFICES ASSUME NEW l, l = c \o q, NEW n, n = Len(c)
             PROVE  /\ \A call : Queued(q, call) => Queued(l, call)
                    /\ \A i \in 1 .. n : Queued(l, c[i])
  OBVIOUS
<1>1. /\ n \in Nat /\ Len(q) \in Nat /\ Len(l) = n + Len(q)
      /\ \A i \in 1 .. n : l[i] = c[i]
      /\ \A i \in 1 .. Len(q) : l[n + i] = q[i]
  OBVIOUS
<1>2. /\ \A i \in 1 .. Len(q) : n + i \in 1 .. Len(l)
      /\ \A i \in 1 .. n : i \in 1 .. Len(l)
  BY ONLY <1>1
<1> QED
  BY ONLY <1>1, <1>2 DEF Queued

LEMMA QueuedRest ==
  ASSUME NEW S, NEW q \in Seq(S), q # <<>>, NEW call, call # Head(q), Queued(q, call)
  PROVE  Queued(Tail(q), call)
<1>1. PICK i \in 1 .. Len(q) : q[i] = call
  BY DEF Queued
<1>2. i - 1 \in 1 .. Len(Tail(q)) /\ Tail(q)[i - 1] = call
  BY <1>1
<1> QED
  BY <1>2 DEF Queued

\* What a start has handed over to its deferred calls: RunBaseline defers the
\* close of each file as it opens it, and the cancellation with the launch;
\* runFault gets the timeline and the cancellation after the phases.
HandsOver(s) == kind[s] = "baseline" \/ (kind[s] \in Measured /\ pc[s] > 7)
Owned(s) == IF kind[s] = "baseline" THEN Streams ELSE {"timeline"}

HandoverInv(s) ==
    HandsOver(s) =>
        /\ \A f \in Owned(s) : stream[s][f] = "open" => Queued(defers[s], f)
        /\ running[s] \subseteq cancelled[s] \/ Queued(defers[s], "cancel")

\* When the last deferred call has run, no file handed over is left open, and no
\* component is left running that was not told to stop.
NothingLeftBehind ==
    \A s \in Starts : where[s] = "deferred" /\ defers[s] = <<>> /\ HandsOver(s) =>
        /\ \A f \in Owned(s) : stream[s][f] # "open"
        /\ running[s] \subseteq cancelled[s]

LEMMA HandoverStep ==
  ASSUME TypeOK, NEW s \in Starts, StepOf(s), HandoverInv(s)
  PROVE  HandoverInv(s)'
<1> SUFFICES ASSUME HandsOver(s)'
             PROVE  /\ \A f \in Owned(s) : stream'[s][f] = "open" => Queued(defers'[s], f)
                    /\ running'[s] \subseteq cancelled'[s] \/ Queued(defers'[s], "cancel")
  BY Growth DEF HandoverInv, Owned
<1>1. /\ kind' = kind /\ pc[s] \in Nat /\ (pc'[s] = pc[s] \/ pc'[s] = pc[s] + 1)
      /\ kind[s] \in Kinds /\ pc[s] \in Nat \ {0}
      /\ defers[s] \in Seq(Calls) /\ cancelled[s] \subseteq cancelled'[s]
  BY Growth, CancelledGrows DEF TypeOK, Calls
<1>2. CASE ~HandsOver(s)
  <2>1. kind[s] \in Measured /\ kind[s] # "baseline" /\ pc[s] = 7 /\ pc'[s] # pc[s]
    BY <1>1, <1>2 DEF HandsOver
  <2>2. Is(Step(s), "pass", "phases")
    <3>1. Shape(kind[s], pc[s], Step(s))
      BY <2>1, AdvanceStep
    <3> QED
      BY <1>1, <2>1, <3>1, PositionOf
  <2>3. Pass(s) /\ Object(s) = "phases"
    BY <2>1, <2>2, AdvanceStep DEF Is, Object
  <2>4. defers'[s] = <<"cancel", "timeline", "failed">> \o defers[s]
    BY <2>1, <2>3 DEF Pass, InBaseline, Defer, TypeOK
  <2> SUFFICES ASSUME NEW c, c = <<"cancel", "timeline", "failed">>
               PROVE  Queued(defers'[s], "timeline") /\ Queued(defers'[s], "cancel")
    BY <2>1 DEF Owned
  <2>5. c \in Seq(Calls) /\ 1 \in 1 .. Len(c) /\ 2 \in 1 .. Len(c) /\ c[1] = "cancel" /\ c[2] = "timeline"
    BY HandedOver
  <2>6. Queued(c \o defers[s], c[1]) /\ Queued(c \o defers[s], c[2])
    BY <1>1, <2>5, QueuedCalls, Zenon
  <2> QED
    BY <2>4, <2>5, <2>6
<1>3. CASE HandsOver(s)
  <2>1. /\ \A f \in Owned(s) : stream[s][f] = "open" => Queued(defers[s], f)
        /\ running[s] \subseteq cancelled[s] \/ Queued(defers[s], "cancel")
        /\ Owned(s) \subseteq Streams
    BY <1>3 DEF HandoverInv, Owned, Streams
  <2>2. ASSUME NEW c \in Seq(Calls), Defer(s, c)
        PROVE  /\ \A call : Queued(defers[s], call) => Queued(defers'[s], call)
               /\ \A i \in 1 .. Len(c) : Queued(defers'[s], c[i])
    <3>1. defers'[s] = c \o defers[s]
      BY <2>2 DEF Defer, TypeOK
    <3> QED
      BY <1>1, <3>1, QueuedCalls, Zenon
  <2>3. ASSUME defers[s] # <<>>, Pop(s), NEW call, call # Head(defers[s]), Queued(defers[s], call)
        PROVE  Queued(defers'[s], call)
    <3>1. defers'[s] = Tail(defers[s])
      BY <2>3 DEF Pop, TypeOK
    <3> QED
      BY <1>1, <2>3, <3>1, QueuedRest, Zenon
  <2>4. CASE /\ \A f \in Streams : stream'[s][f] = "open" => stream[s][f] = "open"
             /\ running'[s] \subseteq running[s]
             /\ \A call : Queued(defers[s], call) => Queued(defers'[s], call)
    BY <1>1, <2>1, <2>4
  <2>5. CASE \/ Begin(s) \/ Truncate(s) \/ WriteMetadata(s) \/ CreateTopic(s) \/ StopComponent(s)
             \/ AwaitComponent(s) \/ CloseStream(s) \/ CollectEvidence(s)
    <3>1. defers' = defers /\ running' = running
      BY <2>5 DEF Begin, Truncate, WriteMetadata, CreateTopic, StopComponent, AwaitComponent, CloseStream,
         CollectEvidence, flowVars, componentVars
    <3>2. \A f \in Streams : stream'[s][f] = "open" => stream[s][f] = "open"
      BY <2>5 DEF Begin, Truncate, WriteMetadata, CreateTopic, StopComponent, AwaitComponent, CloseStream,
         CollectEvidence, TypeOK
    <3> QED
      BY <2>4, <3>1, <3>2
  <2>6. CASE Refuse(s) \/ TopicExists(s) \/ StepFails(s) \/ ReturnNormally(s)
    <3>1. defers' = defers /\ running' = running
      BY <2>6 DEF Refuse, TopicExists, StepFails, ReturnNormally, componentVars
    <3>2. \A f \in Streams : stream'[s][f] = "open" => stream[s][f] = "open"
      <4>1. CASE stream' = stream
        BY <4>1
      <4>2. CASE ~(stream' = stream)
        <5>1. stream' = [stream EXCEPT ![s][Object(s)] = "broken"]
          BY <2>6, <4>2 DEF Refuse, TopicExists, StepFails, ReturnNormally
        <5> QED
          BY <5>1 DEF TypeOK
      <4> QED
        BY <4>1, <4>2
    <3> QED
      BY <2>4, <3>1, <3>2
  <2>7. CASE \E c \in Components : ComponentReturns(s, c) \/ EntryRefused(s, c)
    <3>1. defers' = defers /\ stream' = stream /\ running'[s] \subseteq running[s]
      BY <2>7 DEF ComponentReturns, EntryRefused, flowVars, TypeOK
    <3> QED
      BY <2>4, <3>1
  <2>8. CASE Pass(s) \/ InvalidBaseline(s)
    <3>1. stream' = stream /\ running' = running
      BY <2>8 DEF Pass, InvalidBaseline, componentVars
    <3>2. defers' = defers \/ Defer(s, <<"cancel", "timeline", "failed">>) \/ Defer(s, <<"failed">>)
      BY <2>8 DEF Pass, InvalidBaseline
    <3>3. \A call : Queued(defers[s], call) => Queued(defers'[s], call)
      BY <2>2, <3>2, HandedOver, Zenon
    <3> QED
      BY <2>4, <3>1, <3>3
  <2>9. CASE OpenStream(s)
    <3>1. OpenAt(kind[s], pc[s], Object(s))
      BY <1>1, <2>9, AtWhere DEF OpenStream
    <3>2. kind[s] = "baseline" /\ Object(s) \in Streams
      BY <1>3, <3>1 DEF OpenAt, HandsOver, Streams, Components, Measured
    <3>3. /\ stream' = [stream EXCEPT ![s][Object(s)] = "open"]
          /\ Defer(s, <<Object(s)>>) /\ UNCHANGED running
      BY <2>9, <3>2 DEF OpenStream, InBaseline, componentVars
    <3> SUFFICES ASSUME NEW g \in Streams, g = Object(s)
                 PROVE  /\ \A f \in Owned(s) : stream'[s][f] = "open" => Queued(defers'[s], f)
                        /\ running'[s] \subseteq cancelled'[s] \/ Queued(defers'[s], "cancel")
      BY <3>2
    <3>4. <<g>> \in Seq(Calls) /\ 1 \in 1 .. Len(<<g>>) /\ <<g>>[1] = g
      BY HandedOver
    <3>5. /\ \A call : Queued(defers[s], call) => Queued(defers'[s], call)
          /\ Queued(defers'[s], g)
      BY <2>2, <3>3, <3>4
    <3>6. \A f \in Streams : f # g => stream'[s][f] = stream[s][f]
      BY <3>3 DEF TypeOK
    <3> QED
      BY <1>1, <2>1, <3>3, <3>5, <3>6
  <2>10. CASE Launch(s)
    <3>1. LaunchAt(kind[s], pc[s], Object(s))
      BY <1>1, <2>10, AtWhere DEF Launch
    <3>2. kind[s] = "baseline"
      BY <1>3, <3>1 DEF LaunchAt, HandsOver
    <3>3. Defer(s, <<"cancel">>) /\ UNCHANGED stream
      BY <2>10, <3>2 DEF Launch, InBaseline
    <3>4. <<"cancel">> \in Seq(Calls) /\ 1 \in 1 .. Len(<<"cancel">>) /\ <<"cancel">>[1] = "cancel"
      BY HandedOver
    <3>5. /\ \A call : Queued(defers[s], call) => Queued(defers'[s], call)
          /\ Queued(defers'[s], "cancel")
      BY <2>2, <3>3, <3>4
    <3> QED
      BY <2>1, <3>3, <3>5
  <2>11. CASE CancelDeferred(s)
    <3>1. /\ defers[s] # <<>> /\ Head(defers[s]) = "cancel" /\ Pop(s)
          /\ cancelled'[s] = Components /\ UNCHANGED <<stream, running>>
      BY <2>11 DEF CancelDeferred, Deferred, TypeOK
    <3>2. running'[s] \subseteq cancelled'[s]
      BY <3>1 DEF TypeOK
    <3>3. \A f \in Streams : f # "cancel"
      BY DEF Streams, Components
    <3> QED
      BY <2>1, <2>3, <3>1, <3>2, <3>3
  <2>12. CASE CloseDeferred(s)
    <3>1. PICK g \in Streams :
              /\ defers[s] # <<>> /\ Head(defers[s]) = g
              /\ \/ stream' = [stream EXCEPT ![s][g] = IF @ = "open" THEN "sealed" ELSE @]
                 \/ stream' = [stream EXCEPT ![s][g] = "broken"]
      BY <2>12 DEF CloseDeferred, Deferred
    <3>2. Pop(s) /\ UNCHANGED <<running, cancelled>>
      BY <2>12 DEF CloseDeferred, componentVars
    <3>3. stream'[s][g] # "open" /\ \A f \in Streams : f # g => stream'[s][f] = stream[s][f]
      BY <3>1 DEF TypeOK
    <3>4. g # "cancel"
      BY DEF Streams, Components
    <3> QED
      BY <2>1, <2>3, <3>1, <3>2, <3>3, <3>4
  <2>13. CASE ReportFailure(s)
    <3>1. /\ defers[s] # <<>> /\ Head(defers[s]) = "failed" /\ Pop(s)
          /\ UNCHANGED <<stream, running>>
      BY <2>13 DEF ReportFailure, Deferred, componentVars
    <3>2. "failed" # "cancel" /\ \A f \in Streams : f # "failed"
      BY DEF Streams, Components
    <3> QED
      BY <1>1, <2>1, <2>3, <3>1, <3>2
  <2>14. CASE Return(s) \/ Kill(s)
    <3>1. /\ running' = [running EXCEPT ![s] = {}]
          /\ stream' = [stream EXCEPT ![s] =
                            [f \in Streams |-> IF @[f] = "open" THEN "broken" ELSE @[f]]]
      BY <2>14 DEF Return, Kill, Exit
    <3>2. running'[s] = {}
      BY <3>1 DEF TypeOK
    <3>3. \A f \in Streams : stream'[s][f] # "open"
      BY <3>1 DEF TypeOK
    <3> QED
      BY <2>1, <3>2, <3>3
  <2> QED
    BY <2>5, <2>6, <2>7, <2>8, <2>9, <2>10, <2>11, <2>12, <2>13, <2>14 DEF StepOf, Proceed
<1> QED
  BY <1>2, <1>3

Handovers == \A s \in Starts : HandoverInv(s)

LEMMA HandoverAlways == Spec => []Handovers
<1>1. Init => Handovers
  <2> SUFFICES ASSUME Init, NEW s \in Starts PROVE HandoverInv(s)
    BY DEF Handovers
  <2>1. running[s] = {} /\ \A f \in Streams : stream[s][f] = "none"
    BY DEF Init
  <2>2. Owned(s) \subseteq Streams
    BY DEF Owned, Streams
  <2> QED
    BY <2>1, <2>2 DEF HandoverInv
<1>2. ASSUME UNCHANGED vars, Handovers PROVE Handovers'
  BY <1>2 DEF vars, flowVars, componentVars, Handovers, HandoverInv, HandsOver, Owned
<1>3. ASSUME TypeOK, Handovers, NEW s \in Starts, StepOf(s), NEW t \in Starts
      PROVE  HandoverInv(t)'
  <2>1. CASE t = s
    BY <1>3, <2>1, HandoverStep DEF Handovers
  <2>2. CASE t # s
    <3>1. /\ SameStart(t) /\ kind' = kind /\ HandoverInv(t)
          /\ defers'[t] = defers[t] /\ cancelled'[t] = cancelled[t]
      BY <1>3, <2>2, Frame, FrameCalls, Growth DEF Handovers
    <3> QED
      BY <3>1 DEF SameStart, HandoverInv, HandsOver, Owned
  <2> QED
    BY <2>1, <2>2
<1>4. TypeOK /\ Handovers /\ [Next]_vars => Handovers'
  BY <1>2, <1>3, NextIsAStep DEF Handovers
<1> QED
  BY <1>1, <1>4, TypeCorrect, PTL DEF Spec

\* Wherever a run fails, its deferred calls close what it handed over to them
\* and tell its components to stop: a baseline never leaves a file to the end of
\* the process, and a fault run never its timeline once the phases are over.
THEOREM DeferredCallsCleanUp == Spec => []NothingLeftBehind
<1>1. TypeOK /\ Handovers => NothingLeftBehind
  <2> SUFFICES ASSUME Handovers, NEW s \in Starts, defers[s] = <<>>, HandsOver(s)
               PROVE  /\ \A f \in Owned(s) : stream[s][f] # "open"
                      /\ running[s] \subseteq cancelled[s]
    BY DEF NothingLeftBehind
  <2>1. \A call : ~Queued(defers[s], call)
    BY DEF Queued
  <2> QED
    BY <2>1 DEF Handovers, HandoverInv
<1> QED
  BY <1>1, TypeCorrect, HandoverAlways, PTL
-----------------------------------------------------------------------------
(***************************************************************************)
(* The timeline, which stays open until the deferred calls, and what       *)
(* "passed" stands for                                                     *)
(***************************************************************************)
\* Failures are not forgotten.
LEMMA FailuresGrow ==
  ASSUME TypeOK, NEW s \in Starts, StepOf(s)
  PROVE  failures' >= failures /\ failures \in Nat /\ failures' \in Nat
<1>1. failures \in Nat
  BY LifecycleAssumption DEF TypeOK, LifecycleAssumption
<1>2. CASE Begin(s) \/ Truncate(s) \/ WriteMetadata(s) \/ OpenStream(s) \/ CreateTopic(s)
           \/ Launch(s) \/ Pass(s) \/ StopComponent(s) \/ AwaitComponent(s) \/ CloseStream(s)
           \/ CollectEvidence(s)
  BY <1>1, <1>2 DEF Begin, Truncate, WriteMetadata, OpenStream, CreateTopic, Launch, Pass,
     StopComponent, AwaitComponent, CloseStream, CollectEvidence
<1>3. CASE InvalidBaseline(s) \/ Refuse(s) \/ TopicExists(s) \/ StepFails(s) \/ ReturnNormally(s)
  <2>1. UNCHANGED failures \/ Failure
    BY <1>3 DEF InvalidBaseline, Refuse, TopicExists, StepFails, ReturnNormally
  <2> QED
    BY <1>1, <2>1 DEF Failure
<1>4. CASE CancelDeferred(s) \/ CloseDeferred(s) \/ ReportFailure(s) \/ Return(s) \/ Kill(s)
           \/ \E c \in Components : ComponentReturns(s, c) \/ EntryRefused(s, c)
  BY <1>1, <1>4 DEF CancelDeferred, CloseDeferred, ReportFailure, Return, Kill, ComponentReturns,
     EntryRefused, Failure
<1> QED
  BY <1>1, <1>2, <1>3, <1>4 DEF StepOf, Proceed

SealsTimeline(s) ==
    /\ stream'[s]["timeline"] = "sealed"
    /\ kind[s] = "plan" \/ where'[s] = "deferred"

BreaksTimeline(s) ==
    /\ stream'[s]["timeline"] = "broken" /\ where'[s] \notin {"idle", "script"} /\ pc' = pc
    /\ \/ failures' > 0
       \/ defers[s] = <<>> /\ stream[s]["timeline"] = "open"

\* How the timeline of a start can change.
LEMMA TimelineChange ==
  ASSUME TypeOK, NEW s \in Starts, StepOf(s)
  PROVE  \/ stream'[s]["timeline"] = stream[s]["timeline"]
         \/ stream'[s]["timeline"] = "open"
         \/ SealsTimeline(s)
         \/ BreaksTimeline(s)
<1>1. /\ kind[s] \in Kinds /\ pc[s] \in Nat \ {0} /\ "timeline" \in Streams
      /\ failures \in Nat
  BY FailuresGrow DEF TypeOK, Streams
<1>2. CASE OpenStream(s)
  BY <1>1, <1>2 DEF OpenStream, TypeOK
<1>3. CASE CloseStream(s)
  <2>1. CloseAt(kind[s], pc[s], Object(s))
    BY <1>1, <1>3, AtWhere DEF CloseStream
  <2>2. CASE Object(s) = "timeline"
    BY <1>1, <1>3, <2>1, <2>2 DEF CloseStream, CloseAt, SealsTimeline, TypeOK
  <2>3. CASE Object(s) # "timeline"
    BY <1>1, <1>3, <2>3 DEF CloseStream, TypeOK
  <2> QED
    BY <2>2, <2>3
<1>4. CASE StepFails(s)
  <2>1. failures' > 0 /\ where'[s] = "deferred" /\ pc' = pc
    BY <1>1, <1>4 DEF StepFails, Failure, ReturnFrom, TypeOK
  <2>2. \/ stream' = stream
        \/ stream' = [stream EXCEPT ![s][Object(s)] = "broken"]
    BY <1>4 DEF StepFails
  <2>3. stream'[s]["timeline"] = stream[s]["timeline"] \/ stream'[s]["timeline"] = "broken"
    BY <1>1, <2>2 DEF TypeOK
  <2> QED
    BY <2>1, <2>3 DEF BreaksTimeline
<1>5. CASE CloseDeferred(s)
  <2>1. where'[s] = "deferred" /\ pc' = pc
    BY <1>5 DEF CloseDeferred, Deferred
  <2>2. PICK f \in Streams :
          \/ stream' = [stream EXCEPT ![s][f] = IF @ = "open" THEN "sealed" ELSE @]
          \/ stream' = [stream EXCEPT ![s][f] = "broken"] /\ failures' > 0
    BY <1>1, <1>5 DEF CloseDeferred, Failure
  <2>3. \/ stream'[s]["timeline"] = stream[s]["timeline"]
        \/ stream'[s]["timeline"] = "sealed"
        \/ stream'[s]["timeline"] = "broken" /\ failures' > 0
    BY <1>1, <2>2 DEF TypeOK
  <2> QED
    BY <2>1, <2>3 DEF BreaksTimeline, SealsTimeline
<1>6. CASE Return(s) \/ Kill(s)
  <2>1. pc' = pc /\ where'[s] \in {"returned", "killed"}
    BY <1>6 DEF Return, Kill, Exit, TypeOK
  <2>2. \/ stream'[s]["timeline"] = stream[s]["timeline"]
        \/ stream[s]["timeline"] = "open" /\ stream'[s]["timeline"] = "broken"
    BY <1>1, <1>6 DEF Return, Kill, Exit, TypeOK
  <2>3. failures' > 0 \/ defers[s] = <<>>
    BY <1>1, <1>6 DEF Return, Kill, Failure
  <2> QED
    BY <2>1, <2>2, <2>3 DEF BreaksTimeline
<1>7. CASE Begin(s) \/ Truncate(s) \/ WriteMetadata(s) \/ CreateTopic(s) \/ Launch(s) \/ Pass(s)
           \/ StopComponent(s) \/ AwaitComponent(s) \/ CollectEvidence(s)
  BY <1>7 DEF Begin, Truncate, WriteMetadata, CreateTopic, Launch, Pass, StopComponent,
     AwaitComponent, CollectEvidence
<1>8. CASE InvalidBaseline(s) \/ Refuse(s) \/ TopicExists(s) \/ ReturnNormally(s)
           \/ CancelDeferred(s) \/ ReportFailure(s)
           \/ \E d \in Components : ComponentReturns(s, d) \/ EntryRefused(s, d)
  BY <1>8 DEF InvalidBaseline, Refuse, TopicExists, ReturnNormally, CancelDeferred, ReportFailure,
     ComponentReturns, EntryRefused
<1> QED
  BY <1>2, <1>3, <1>4, <1>5, <1>6, <1>7, <1>8 DEF StepOf, Proceed

\* The timeline is there from the second step on, open while the script runs,
\* and once it was handed over to a deferred Close it breaks by a failure only.
TimelineInv(s) ==
    kind[s] \in Measured =>
        /\ pc[s] > 2 => stream[s]["timeline"] # "none"
        /\ where[s] \in {"idle", "script"} => stream[s]["timeline"] \in {"none", "open"}
        /\ HandsOver(s) /\ stream[s]["timeline"] = "broken" => failures > 0

LEMMA TimelineStep ==
  ASSUME TypeOK, NEW s \in Starts, StepOf(s), HandoverInv(s), TimelineInv(s)
  PROVE  TimelineInv(s)'
<1> SUFFICES ASSUME kind[s] \in Measured
             PROVE  /\ pc'[s] > 2 => stream'[s]["timeline"] # "none"
                    /\ where'[s] \in {"idle", "script"}
                          => stream'[s]["timeline"] \in {"none", "open"}
                    /\ HandsOver(s)' /\ stream'[s]["timeline"] = "broken" => failures' > 0
  BY Growth DEF TimelineInv
<1>1. /\ kind' = kind /\ pc[s] \in Nat /\ (pc'[s] = pc[s] \/ pc'[s] = pc[s] + 1)
      /\ failures \in Nat /\ failures' \in Nat /\ failures' >= failures
      /\ "timeline" \in Streams /\ kind[s] # "plan"
  BY Growth, FailuresGrow DEF TypeOK, Streams, Measured
<1>2. /\ pc[s] > 2 => stream[s]["timeline"] # "none"
      /\ where[s] \in {"idle", "script"} => stream[s]["timeline"] \in {"none", "open"}
      /\ HandsOver(s) /\ stream[s]["timeline"] = "broken" => failures > 0
  BY DEF TimelineInv
<1>3. pc'[s] > 2 => stream'[s]["timeline"] # "none"
  <2>1. CASE pc[s] > 2
    BY <1>2, <2>1, TimelineChange DEF SealsTimeline, BreaksTimeline
  <2>2. CASE ~(pc[s] > 2) /\ pc'[s] > 2
    <3>1. pc[s] = 2 /\ pc'[s] # pc[s]
      BY <1>1, <2>2
    <3>2. Shape(kind[s], pc[s], Step(s))
      BY <3>1, AdvanceStep
    <3>3. Is(Step(s), "open", "timeline")
      BY <1>1, <3>1, <3>2, PositionOf
    <3>4. OpenStream(s) /\ Object(s) = "timeline"
      BY <3>1, <3>3, AdvanceStep DEF Is, Object
    <3> QED
      BY <1>1, <3>4 DEF OpenStream, TypeOK
  <2> QED
    BY <2>1, <2>2
<1>4. where'[s] \in {"idle", "script"} => stream'[s]["timeline"] \in {"none", "open"}
  BY <1>1, <1>2, WhereChange, TimelineChange DEF SealsTimeline, BreaksTimeline
<1>5. ASSUME HandsOver(s)', stream'[s]["timeline"] = "broken"
      PROVE  failures' > 0
  <2>1. CASE BreaksTimeline(s)
    <3>1. HandsOver(s)
      BY <1>1, <1>5, <2>1 DEF HandsOver, BreaksTimeline
    <3>2. ~(defers[s] = <<>> /\ stream[s]["timeline"] = "open")
      <4> SUFFICES ASSUME defers[s] = <<>>, stream[s]["timeline"] = "open" PROVE FALSE
        OBVIOUS
      <4>1. "timeline" \in Owned(s)
        BY DEF Owned, Streams
      <4>2. Queued(defers[s], "timeline")
        BY <3>1, <4>1 DEF HandoverInv
      <4> QED
        BY <4>2 DEF Queued
    <3> QED
      BY <2>1, <3>2 DEF BreaksTimeline
  <2>2. CASE stream'[s]["timeline"] = stream[s]["timeline"]
    <3>1. where[s] \notin {"idle", "script"}
      BY <1>2, <1>5, <2>2
    <3>2. pc'[s] = pc[s]
      BY <3>1, AdvanceStep
    <3> QED
      BY <1>1, <1>2, <1>5, <2>2, <3>2 DEF HandsOver
  <2> QED
    BY <1>5, <2>1, <2>2, TimelineChange DEF SealsTimeline
<1> QED
  BY <1>3, <1>4, <1>5

Timelines == \A s \in Starts : TimelineInv(s)

LEMMA TimelineAlways == Spec => []Timelines
<1>1. Init => Timelines
  <2> SUFFICES ASSUME Init, NEW s \in Starts PROVE TimelineInv(s)
    BY DEF Timelines
  <2>1. pc[s] = 1 /\ stream[s]["timeline"] = "none"
    BY DEF Init, Streams
  <2> QED
    BY <2>1 DEF TimelineInv
<1>2. ASSUME UNCHANGED vars, Timelines PROVE Timelines'
  BY <1>2 DEF vars, flowVars, Timelines, TimelineInv, HandsOver
<1>3. ASSUME TypeOK, Handovers, Timelines, NEW s \in Starts, StepOf(s), NEW t \in Starts
      PROVE  TimelineInv(t)'
  <2>1. CASE t = s
    BY <1>3, <2>1, TimelineStep DEF Handovers, Timelines
  <2>2. CASE t # s
    <3>1. SameStart(t) /\ kind' = kind /\ TimelineInv(t)
      BY <1>3, <2>2, Frame, Growth DEF Timelines
    <3>2. failures > 0 => failures' > 0
      BY <1>3, FailuresGrow
    <3> QED
      BY <3>1, <3>2 DEF SameStart, TimelineInv, HandsOver
  <2> QED
    BY <2>1, <2>2
<1>4. TypeOK /\ Handovers /\ Timelines /\ [Next]_vars => Timelines'
  BY <1>2, <1>3, NextIsAStep DEF Timelines
<1> QED
  BY <1>1, <1>4, TypeCorrect, HandoverAlways, PTL DEF Spec

\* "passed" in metadata.json stands for a start whose evidence is complete.
LEMMA Backed == TypeOK /\ RunsInv /\ WordInv /\ Timelines => PassedIsBacked
<1> SUFFICES ASSUME TypeOK, RunsInv, WordInv, Timelines, metadata = "passed"
             PROVE  \E s \in Starts :
                        /\ kind[s] \in {"baseline", "fault"}
                        /\ wrote[s] = "passed"
                        /\ Required(kind[s]) \subseteq Present
                        /\ running[s] = {}
                        /\ \A c \in Components : stream[s][c] = "sealed" /\ c \notin refused[s]
                        /\ stream[s]["timeline"] = "broken" => failures > 0
  BY DEF PassedIsBacked
<1>1. PICK s \in Starts : wrote[s] = "passed"
  BY DEF WordInv
<1>2. kind[s] \in {"baseline", "fault"} /\ pc[s] >= Final(kind[s]) /\ refused[s] = {} /\ pc[s] \in Nat
  BY <1>1 DEF RunsInv, PassInv, TypeOK
<1>3. kind[s] \in Measured
  BY <1>2 DEF Measured
<1>4. \A c \in Components : pc[s] > AwaitPos(kind[s], c) /\ pc[s] > ClosePos(kind[s], c)
  BY <1>2 DEF AwaitPos, ClosePos, Base, Final
<1>5. running[s] = {}
  BY <1>3, <1>4 DEF RunsInv, RunInv, TypeOK
<1>6. \A c \in Components : stream[s][c] = "sealed" /\ c \notin refused[s]
  BY <1>2, <1>3, <1>4 DEF RunsInv, StreamInv
<1>7. pc[s] > Base(kind[s]) + 8 /\ (kind[s] = "fault" => pc[s] > 19) /\ pc[s] > 7
  BY <1>2 DEF Base, Final
<1>8. /\ stream[s]["timeline"] # "none"
      /\ stream[s]["timeline"] = "broken" => failures > 0
  BY <1>2, <1>3, <1>7 DEF Timelines, TimelineInv, HandsOver
<1>9. \A f \in Streams : stream[s][f] # "none"
  BY <1>6, <1>8 DEF Streams
<1>10. Required(kind[s]) \ Streams \subseteq artifacts
  BY <1>2, <1>3, <1>7 DEF RunsInv, EvidenceInv, Required
<1>11. Required(kind[s]) \subseteq Present
  BY <1>9, <1>10 DEF Present
<1> QED
  BY <1>1, <1>2, <1>5, <1>6, <1>8, <1>11

\* A directory that says "passed" is one run's, whatever failed, died or was
\* started again: every file infra.sh requires is there, the components had
\* stopped, their files were closed without a loss, and the timeline lost its
\* end only if something failed.
THEOREM PassedAlwaysBacked == Spec => []PassedIsBacked
BY RunsAlways, TimelineAlways, TypeCorrect, Backed, PTL
=============================================================================
