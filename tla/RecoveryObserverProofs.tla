------------------------ MODULE RecoveryObserverProofs ------------------------
(***************************************************************************)
(* Theorems about RecoveryObserver, for every window, threshold and bound: *)
(* its types, that latched milestones happened, and that a performance is  *)
(* sustained for the window when no round of the window was late.          *)
(***************************************************************************)
EXTENDS RecoveryObserver, TLAPS

USE ObserverAssumption

\* In a window without a late round every round read the counters a second
\* after the last one; then its deltas are those of the latest second, and the
\* streak of good seconds is at least the window that the observer has counted,
\* with the second it started in.
Counted == IF stableSince = None THEN 0 ELSE stableSince + 1

StreakCoversWindow ==
    /\ overdue => stableSince # None
    /\ stableSince # None /\ ~overdue => late = 0 /\ lag = 0
    /\ gap = 0 => acks = 0 /\ consumption = 0
    /\ ~overdue /\ gap = 0 => sustained >= UpTo(Window, Counted)
    /\ ~overdue /\ gap = 1 /\ Progressed => sustained >= UpTo(Window, Counted + 1)

TypeAndMilestones == TypeOK /\ MilestonesAreReal
-----------------------------------------------------------------------------
\* The first state has the types, and nothing is latched.
LEMMA InitTypes == Init => TypeAndMilestones
<1> SUFFICES ASSUME Init
             PROVE  TypeAndMilestones
  OBVIOUS
<1>1. stableSince \in None .. Window /\ sustained \in 0 .. Window
  BY DEF Init, None
<1>2. /\ gap \in 0 .. MaxGap /\ acks \in 0 .. Enough /\ consumption \in 0 .. Enough
      /\ late \in 0 .. MaxGap /\ lag \in 0 .. MaxGap
  BY DEF Init
<1> QED
  BY <1>1, <1>2, Zenon DEF Init, TypeAndMilestones, TypeOK, MilestonesAreReal

\* A capped count stays a count below its bound.
LEMMA Capped ==
  ASSUME NEW bound \in Nat, NEW n \in Nat
  PROVE  UpTo(bound, n) \in 0 .. bound
  BY DEF UpTo

\* The cluster's steps keep types, and what a latched milestone says.
LEMMA EnvironmentTypes == TypeAndMilestones /\ Environment => TypeAndMilestones'
<1> SUFFICES ASSUME TypeAndMilestones, Environment
             PROVE  TypeAndMilestones'
  OBVIOUS
<1> USE DEF TypeAndMilestones, TypeOK, MilestonesAreReal, envVars, loadVars, roundVars,
            observerVars, clusterLatches, appLatches
<1>1. CASE PodMoves
  BY <1>1 DEF PodMoves
<1>2. CASE BrokerLost
  BY <1>2 DEF BrokerLost
<1>3. CASE LeaderElected
  BY <1>3 DEF LeaderElected
<1>4. CASE BrokerBack
  BY <1>4 DEF BrokerBack
<1>5. CASE ExperimentTimeout
  BY <1>5 DEF ExperimentTimeout
<1>6. CASE Cancel
  BY <1>6 DEF Cancel
<1>7. CASE CalmDown
  <2>1. calm' \in BOOLEAN
    BY <1>7 DEF CalmDown
  <2>2. UNCHANGED <<pod, broker, leader, expired, cancelled, loadVars, roundVars, observerVars,
                  sustained>>
    BY <1>7 DEF CalmDown
  <2> QED
    BY <2>1, <2>2
<1> QED
  BY <1>1, <1>2, <1>3, <1>4, <1>5, <1>6, <1>7 DEF Environment

\* So does a second of the applications' work.
LEMMA SecondTypes ==
  ASSUME TypeAndMilestones, NEW a \in 0 .. Enough, NEW c \in 0 .. Enough, Second(a, c)
  PROVE  TypeAndMilestones'
<1> USE DEF TypeAndMilestones
<1>1. acks' \in 0 .. Enough /\ consumption' \in 0 .. Enough
  <2>1. acks + a \in Nat /\ consumption + c \in Nat
    BY DEF TypeOK
  <2>2. acks' = UpTo(Enough, acks + a) /\ consumption' = UpTo(Enough, consumption + c)
    BY DEF Second
  <2> QED
    BY <2>1, <2>2, Capped
<1>2. sustained' \in 0 .. Window
  BY DEF Second, TypeOK, UpTo
<1>4. gap' \in 0 .. MaxGap
  <2>1. gap \in 0 .. MaxGap /\ gap < MaxGap /\ gap' = gap + 1
    <3>1. CASE calm
      BY <3>1 DEF Second, TypeOK, UntilTick
    <3>2. CASE ~calm
      BY <3>2 DEF Second, TypeOK
    <3> QED
      BY <3>1, <3>2
  <2> QED
    BY <2>1
<1>5. UNCHANGED <<envVars, roundVars, observerVars>>
  BY DEF Second
<1> QED
  BY <1>1, <1>2, <1>4, <1>5
  DEF TypeOK, MilestonesAreReal, envVars, roundVars, observerVars, clusterLatches, appLatches

\* And so does a round, which latches only what it sees.
LEMMA RoundTypes ==
  ASSUME TypeAndMilestones,
         NEW topicRead \in BOOLEAN, NEW leaderRead \in BOOLEAN, NEW podRead \in BOOLEAN,
         Round(topicRead, leaderRead, podRead)
  PROVE  TypeAndMilestones'
<1> USE DEF TypeAndMilestones
<1>1. UNCHANGED <<envVars, sustained>>
  BY DEF Round
<1>2. /\ newLeader' \in BOOLEAN /\ kafkaReady' \in BOOLEAN
      /\ newLeader' => newLeader \/ NewLeader
  BY DEF Round, ObserveKafka, TypeOK
<1>3. /\ podRecreated' \in BOOLEAN /\ podReady' \in BOOLEAN
      /\ podRecreated' => podRecreated \/ Recreated
      /\ podReady' => podReady \/ Recreated
      /\ podReady' => podRecreated'
  BY DEF Round, ObservePod, TypeOK
<1>4. /\ productionMarked' \in BOOLEAN /\ consumptionMarked' \in BOOLEAN /\ appReady' \in BOOLEAN
      /\ appReady' => productionMarked' /\ consumptionMarked'
  BY DEF Round, ObserveApplications, TypeOK
<1>5. stableSince' \in None .. Window /\ performance' \in BOOLEAN
  BY DEF Round, ObservePerformance, StableRound, TickDistance, UpTo, TypeOK, None
<1>9. late' \in 0 .. MaxGap /\ lag' \in 0 .. MaxGap /\ overdue' \in BOOLEAN
  <2>1. late' \in 0 .. MaxGap
    BY DEF Round, Delay, UntilTick, TypeOK
  <2>2. lag' \in 0 .. MaxGap
    BY DEF Round, Delay, TypeOK
  <2>3. overdue' \in BOOLEAN
    BY DEF Round, Delay
  <2> QED
    BY <2>1, <2>2, <2>3
<1>6. /\ gap' = 0 /\ acks' = 0 /\ consumption' = 0
      /\ result' \in {"observing", "recovered", "cancelled"}
  BY DEF Round
<1>7. MilestonesAreReal'
  <2>1. UNCHANGED <<pod, leader>>
    BY <1>1 DEF envVars
  <2>2. newLeader' => leader = "other" \/ pod \in {"new", "ready"}
    <3>1. CASE newLeader
      BY <3>1 DEF MilestonesAreReal
    <3>2. CASE NewLeader
      <4>1. podRecreated => pod \in {"new", "ready"}
        BY DEF MilestonesAreReal
      <4> QED
        BY <3>2, <4>1 DEF NewLeader, TypeOK
    <3> QED
      BY <1>2, <3>1, <3>2
  <2>3. podRecreated' \/ podReady' => pod \in {"new", "ready"}
    BY <1>3 DEF MilestonesAreReal, Recreated
  <2> QED
    BY <2>1, <2>2, <2>3 DEF MilestonesAreReal
<1>8. TypeOK'
  BY <1>1, <1>2, <1>3, <1>4, <1>5, <1>6, <1>9 DEF TypeOK, envVars
<1> QED
  BY <1>7, <1>8

\* Types and milestones are invariant under every step.
LEMMA TypesInvariant == Spec => []TypeAndMilestones
<1>1. TypeAndMilestones /\ [Next]_vars => TypeAndMilestones'
  <2>1. CASE UNCHANGED vars
    BY <2>1 DEF vars, TypeAndMilestones, TypeOK, MilestonesAreReal, envVars, loadVars, roundVars,
                observerVars, clusterLatches, appLatches
  <2>2. TypeAndMilestones /\ ReturnCancelled => TypeAndMilestones'
    BY DEF ReturnCancelled, TypeAndMilestones, TypeOK, MilestonesAreReal, envVars, loadVars,
           roundVars, clusterLatches, appLatches
  <2> QED
    BY <2>1, <2>2, EnvironmentTypes, SecondTypes, RoundTypes DEF Next, ApplicationsRun, SomeRound
<1> QED
  BY <1>1, InitTypes, PTL DEF Spec

\* Every variable keeps its type, and milestones latch in the code's order.
THEOREM TypeCorrect == Spec => []TypeOK
<1>1. TypeAndMilestones => TypeOK
  BY DEF TypeAndMilestones
<1> QED
  BY <1>1, TypesInvariant, PTL

\* observeRecovery latches a new leader, a new pod and a ready pod only when
\* there is one, whatever reads fail and in whatever order the cluster recovers.
THEOREM RealMilestones == Spec => []MilestonesAreReal
<1>1. TypeAndMilestones => MilestonesAreReal
  BY DEF TypeAndMilestones
<1> QED
  BY <1>1, TypesInvariant, PTL
-----------------------------------------------------------------------------
\* A good second extends the streak.
LEMMA StreakSecond ==
  ASSUME TypeOK, StreakCoversWindow,
         NEW a \in 0 .. Enough, NEW c \in 0 .. Enough, Second(a, c)
  PROVE  StreakCoversWindow'
<1>1. gap' = gap + 1 /\ gap \in Nat
  BY DEF Second, TypeOK
<1>2. UNCHANGED <<stableSince, late, lag, overdue>>
  BY DEF Second, observerVars, roundVars
<1>3. ASSUME ~overdue, gap = 0
      PROVE  Progressed' => sustained' >= UpTo(Window, Counted + 1)
  <2>1. acks = 0 /\ consumption = 0 /\ sustained >= UpTo(Window, Counted)
    BY <1>3 DEF StreakCoversWindow
  <2>2. acks' = a /\ consumption' = c
    BY <2>1 DEF Second, UpTo
  <2>3. CASE a = Enough /\ c = Enough
    <3>1. sustained' = UpTo(Window, sustained + 1)
      BY <2>3 DEF Second
    <3> QED
      BY <3>1, <2>1 DEF UpTo, Counted, TypeOK, None
  <2> QED
    BY <2>2, <2>3 DEF Progressed
<1> QED
  BY <1>1, <1>2, <1>3 DEF StreakCoversWindow, Counted

\* A round that was late for nothing counts the second before it, or it starts
\* the window over; a late one marks the window as overdue.
LEMMA StreakRound ==
  ASSUME TypeOK, StreakCoversWindow,
         NEW topicRead \in BOOLEAN, NEW leaderRead \in BOOLEAN, NEW podRead \in BOOLEAN,
         Round(topicRead, leaderRead, podRead)
  PROVE  /\ StreakCoversWindow'
         /\ stableSince' = Window /\ ~overdue' => sustained = Window
<1>1. gap' = 0 /\ acks' = 0 /\ consumption' = 0 /\ sustained' = sustained
  BY DEF Round
<1>2. overdue' = (stableSince' # None /\ (late' > 0 \/ lag' > 0 \/ overdue))
  BY DEF Round, Delay
<1>3. late' \in Nat /\ lag' \in Nat /\ gap \in Nat
  BY DEF Round, Delay, UntilTick, TypeOK
<1>4. overdue' => stableSince' # None
  BY <1>2
<1>5. stableSince' # None /\ ~overdue' => late' = 0 /\ lag' = 0
  <2>1. stableSince' # None /\ ~overdue' => ~(late' > 0) /\ ~(lag' > 0)
    BY <1>2, Zenon
  <2> QED
    BY <1>3, <2>1
<1>6. ASSUME stableSince' # None, ~overdue'
      PROVE  /\ sustained >= UpTo(Window, stableSince' + 1)
             /\ stableSince' = Window => sustained = Window
  <2>1. Progressed /\ stableSince' = IF stableSince = None THEN 0
                                     ELSE UpTo(Window, stableSince + TickDistance)
    BY <1>6 DEF Round, ObservePerformance, StableRound
  <2>2. ~overdue
    BY <1>2, <1>6
  <2>3. gap # 0
    BY <2>1 DEF StreakCoversWindow, Progressed
  <2>4. gap = 1
    BY <1>3, <1>5, <1>6, <2>3 DEF Round, Delay, UntilTick
  <2>5. sustained >= UpTo(Window, Counted + 1)
    BY <2>1, <2>2, <2>4 DEF StreakCoversWindow
  <2>6. stableSince # None => TickDistance = 1
    BY <2>2 DEF StreakCoversWindow, TickDistance
  <2>7. sustained \in 0 .. Window /\ stableSince \in None .. Window
    BY DEF TypeOK
  <2>8. CASE stableSince = None
    BY <2>1, <2>5, <2>7, <2>8 DEF UpTo, Counted, None
  <2>9. CASE stableSince # None
    <3>1. stableSince' = UpTo(Window, stableSince + 1)
      BY <2>1, <2>6, <2>9
    <3>2. sustained >= UpTo(Window, stableSince + 2)
      BY <2>5, <2>7, <2>9 DEF Counted, None
    <3> QED
      BY <2>7, <2>9, <3>1, <3>2 DEF UpTo, None
  <2> QED
    BY <2>8, <2>9
<1>7. ~overdue' => sustained' >= UpTo(Window, Counted')
  <2>1. CASE stableSince' = None
    BY <1>1, <2>1 DEF Counted, UpTo, TypeOK
  <2> QED
    BY <1>1, <1>6, <2>1 DEF Counted
<1>8. stableSince' = Window /\ ~overdue' => sustained = Window
  BY <1>6 DEF None
<1> QED
  BY <1>1, <1>4, <1>5, <1>7, <1>8 DEF StreakCoversWindow

\* Each round that writes PerformanceSeconds ends a window in which every second
\* had 90% of the baseline's rates, unless a round of that window was late.
THEOREM SustainedPerformance == Spec => PerformanceIsSustained
<1> DEFINE Honest == gap' < gap /\ stableSince' = Window /\ ~overdue' => sustained = Window
<1>1. Init => StreakCoversWindow
  BY DEF Init, StreakCoversWindow, Counted, UpTo
<1>2. TypeOK /\ StreakCoversWindow /\ [Next]_vars => StreakCoversWindow' /\ [Honest]_vars
  <2> SUFFICES ASSUME TypeOK, StreakCoversWindow, [Next]_vars
               PROVE  StreakCoversWindow' /\ [Honest]_vars
    OBVIOUS
  <2>1. CASE Environment \/ ReturnCancelled \/ UNCHANGED vars
    <3>1. UNCHANGED <<loadVars, roundVars, sustained, stableSince, performance>>
      BY <2>1 DEF Environment, PodMoves, BrokerLost, LeaderElected, BrokerBack, ExperimentTimeout,
                  Cancel, CalmDown, ReturnCancelled, vars, observerVars
    <3>2. ~(gap' < gap)
      BY <3>1 DEF loadVars, TypeOK
    <3> QED
      BY <3>1, <3>2 DEF StreakCoversWindow, Counted, Progressed, loadVars, roundVars
  <2>2. ASSUME NEW a \in 0 .. Enough, NEW c \in 0 .. Enough, Second(a, c)
        PROVE  StreakCoversWindow' /\ [Honest]_vars
    <3>1. ~(gap' < gap)
      BY <2>2 DEF Second, TypeOK
    <3> QED
      BY <2>2, <3>1, StreakSecond
  <2>3. ASSUME NEW topicRead \in BOOLEAN, NEW leaderRead \in BOOLEAN, NEW podRead \in BOOLEAN,
               Round(topicRead, leaderRead, podRead)
        PROVE  StreakCoversWindow' /\ [Honest]_vars
    BY <2>3, StreakRound
  <2> QED
    BY <2>1, <2>2, <2>3 DEF Next, ApplicationsRun, SomeRound
<1> QED
  BY <1>1, <1>2, TypeCorrect, PTL DEF Spec, PerformanceIsSustained
=============================================================================
