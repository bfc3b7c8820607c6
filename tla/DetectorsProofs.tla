---------------------------- MODULE DetectorsProofs ----------------------------
(***************************************************************************)
(* Theorems about Detectors, for any brokers, partitions, intervals and    *)
(* length of the series: a topic that looks healthy serves from all its    *)
(* replicas, the pod of a leader is found and no other, and the verdicts   *)
(* over a series are what its history says.                                *)
(***************************************************************************)
EXTENDS Detectors, FiniteSetTheorems, TLAPS
-----------------------------------------------------------------------------
(***************************************************************************)
(* The cluster                                                             *)
(***************************************************************************)
ClusterType ==
    /\ replicas \in [Partitions -> SUBSET Brokers]
    /\ isr \in [Partitions -> SUBSET Brokers]
    /\ leader \in [Partitions -> Brokers \cup {None}]
    /\ up \subseteq Brokers

\* A partition with a leader is led by a member of its ISR, all of which are
\* alive; without one its ISR is the one broker it waits for.
Led(p) == leader[p] \in isr[p] /\ isr[p] \subseteq up
Waits(p) == leader[p] = None /\ \E b \in Brokers \ up : isr[p] = {b}

ClusterInv ==
    /\ ClusterType
    /\ \A p \in Partitions : isr[p] \subseteq replicas[p] /\ (Led(p) \/ Waits(p))

LEMMA ClusterInit == Init => ClusterInv
<1> SUFFICES ASSUME Init PROVE ClusterInv
  OBVIOUS
<1>1. ClusterType
  BY DEF Init, ClusterType
<1>2. ASSUME NEW p \in Partitions PROVE isr[p] \subseteq replicas[p] /\ Led(p)
  BY <1>1, <1>2 DEF Init, Led, ClusterType
<1> QED
  BY <1>1, <1>2 DEF ClusterInv

\* The ISR shrinks to its live members, one of which leads, or it was the last.
LEMMA FailureKeepsCluster ==
    ASSUME ClusterInv, NEW b \in Brokers, BrokerFails(b)
    PROVE  ClusterInv'
<1>1. /\ b \in up
      /\ up' = up \ {b}
      /\ replicas' = replicas
      /\ \A p \in Partitions : isr'[p] = IF isr[p] = {b} THEN {b} ELSE isr[p] \ {b}
  BY DEF BrokerFails
<1>2. \A p \in Partitions :
          leader'[p] \in IF leader[p] # b THEN {leader[p]}
                         ELSE IF isr[p] = {b} THEN {None} ELSE isr[p] \ {b}
  BY DEF BrokerFails
<1>3. ClusterType'
  <2>1. isr' \in [Partitions -> SUBSET Brokers]
    BY <1>1 DEF BrokerFails, ClusterInv, ClusterType
  <2>2. leader' \in [Partitions -> Brokers \cup {None}]
    BY DEF BrokerFails
  <2> QED
    BY <1>1, <2>1, <2>2 DEF ClusterInv, ClusterType
<1>4. ASSUME NEW p \in Partitions
      PROVE  isr'[p] \subseteq replicas'[p] /\ (Led(p)' \/ Waits(p)')
  <2>1. isr'[p] \subseteq isr[p]
    BY <1>1
  <2>2. CASE Waits(p)
    <3>1. PICK x \in Brokers \ up : isr[p] = {x}
      BY <2>2 DEF Waits
    <3>2. x # b /\ leader[p] # b
      BY <1>1, <2>2, <3>1, DetectorsAssumption DEF Waits, None
    <3>3. isr'[p] = {x} /\ leader'[p] = None /\ x \in Brokers \ up'
      BY <1>1, <1>2, <2>2, <3>1, <3>2 DEF Waits
    <3> QED
      BY <1>1, <2>1, <3>3 DEF Waits, ClusterInv
  <2>3. CASE Led(p) /\ leader[p] = b /\ isr[p] = {b}
    BY <1>1, <1>2, <2>1, <2>3 DEF Waits, ClusterInv
  <2>4. CASE Led(p) /\ ~(leader[p] = b /\ isr[p] = {b})
    <3>1. isr[p] # {b}
      BY <2>4 DEF Led
    <3>2. isr'[p] = isr[p] \ {b} /\ leader'[p] \in isr[p] \ {b}
      BY <1>1, <1>2, <2>4, <3>1 DEF Led
    <3> QED
      BY <1>1, <2>1, <2>4, <3>2 DEF Led, ClusterInv
  <2> QED
    BY <2>2, <2>3, <2>4 DEF ClusterInv
<1> QED
  BY <1>3, <1>4 DEF ClusterInv

\* A broker leads the partitions that waited for it.
LEMMA ReturnKeepsCluster ==
    ASSUME ClusterInv, NEW b \in Brokers, BrokerReturns(b)
    PROVE  ClusterInv'
<1>1. /\ b \notin up
      /\ up' = up \cup {b}
      /\ isr' = isr /\ replicas' = replicas
      /\ leader' = [p \in Partitions |-> IF isr[p] = {b} THEN b ELSE leader[p]]
  BY DEF BrokerReturns
<1>2. ClusterType'
  BY <1>1 DEF ClusterInv, ClusterType
<1>3. ASSUME NEW p \in Partitions PROVE Led(p)' \/ Waits(p)'
  <2>1. CASE isr[p] = {b}
    BY <1>1, <2>1 DEF Led
  <2>2. CASE isr[p] # {b} /\ Led(p)
    BY <1>1, <2>2 DEF Led
  <2>3. CASE isr[p] # {b} /\ Waits(p)
    BY <1>1, <2>3 DEF Waits
  <2> QED
    BY <2>1, <2>2, <2>3 DEF ClusterInv
<1> QED
  BY <1>1, <1>2, <1>3 DEF ClusterInv

LEMMA CatchUpKeepsCluster ==
    ASSUME ClusterInv, NEW p \in Partitions, NEW b \in Brokers, CatchUp(p, b)
    PROVE  ClusterInv'
<1>1. /\ b \in up \cap replicas[p]
      /\ leader[p] # None
      /\ isr' = [isr EXCEPT ![p] = @ \cup {b}]
      /\ leader' = leader /\ up' = up /\ replicas' = replicas
  BY DEF CatchUp
<1>2. ClusterType'
  BY <1>1 DEF ClusterInv, ClusterType
<1>3. ASSUME NEW q \in Partitions
      PROVE  isr'[q] \subseteq replicas'[q] /\ (Led(q)' \/ Waits(q)')
  <2>1. CASE q = p
    <3>1. Led(p) /\ isr'[p] = isr[p] \cup {b}
      BY <1>1 DEF ClusterInv, ClusterType, Waits
    <3> QED
      BY <1>1, <2>1, <3>1 DEF ClusterInv, Led
  <2>2. CASE q # p
    BY <1>1, <2>2 DEF ClusterInv, ClusterType, Led, Waits
  <2> QED
    BY <2>1, <2>2
<1> QED
  BY <1>2, <1>3 DEF ClusterInv

LEMMA ClusterStep == ClusterInv /\ [Next]_vars => ClusterInv'
<1> SUFFICES ASSUME ClusterInv, [Next]_vars PROVE ClusterInv'
  OBVIOUS
<1>1. CASE UNCHANGED clusterVars
  BY <1>1 DEF clusterVars, ClusterInv, ClusterType, Led, Waits
<1>2. (\E b \in Brokers : BrokerFails(b) \/ BrokerReturns(b))
      \/ (\E p \in Partitions, b \in Brokers : CatchUp(p, b))
      \/ UNCHANGED clusterVars
  BY DEF Next, PodChanges, NewSample, vars
<1> QED
  BY <1>1, <1>2, FailureKeepsCluster, ReturnKeepsCluster, CatchUpKeepsCluster

\* Every partition of a topic that looks recovered is served by all replicas.
LEMMA HealthyServes == ClusterInv => HealthyMeansServing
<1> SUFFICES ASSUME ClusterInv PROVE HealthyMeansServing
  OBVIOUS
<1>1. IsFiniteSet(Leaderless) /\ IsFiniteSet(UnderReplicated)
  BY DetectorsAssumption, FS_Subset DEF Leaderless, UnderReplicated
<1>2. TopicState.leaderlessPartitions = 0 <=> Leaderless = {}
  BY <1>1, FS_EmptySet DEF TopicState
<1>3. TopicState.underReplicated = 0 <=> UnderReplicated = {}
  BY <1>1, FS_EmptySet DEF TopicState
<1>4. ASSUME NEW p \in Partitions
      PROVE  /\ Cardinality(isr[p]) = Cardinality(replicas[p]) <=> isr[p] = replicas[p]
             /\ leader[p] # None <=> leader[p] >= 0
  <2>1. IsFiniteSet(replicas[p]) /\ isr[p] \subseteq replicas[p]
    BY DetectorsAssumption, FS_Subset DEF ClusterInv, ClusterType
  <2>2. Cardinality(isr[p]) = Cardinality(replicas[p]) <=> isr[p] = replicas[p]
    BY <2>1, FS_Subset
  <2>3. leader[p] \in Brokers \cup {None}
    BY DEF ClusterInv, ClusterType
  <2>4. leader[p] # None <=> leader[p] >= 0
    <3>1. leader[p] = -1 \/ leader[p] \in Nat
      BY <2>3, DetectorsAssumption DEF None
    <3>2. CASE leader[p] = -1
      BY <3>2 DEF None
    <3>3. CASE leader[p] \in Nat
      BY <3>3 DEF None
    <3> QED
      BY <3>1, <3>2, <3>3
  <2> QED
    BY <2>2, <2>4
<1>5. ASSUME KafkaReady, NEW p \in Partitions
      PROVE  replicas[p] \subseteq up /\ isr[p] = replicas[p] /\ ClusterRecovered(p)
  <2>1. leader[p] >= 0 /\ isr[p] = replicas[p]
    BY <1>4, <1>5 DEF KafkaReady, AllISRRecovered
  <2>2. Led(p)
    BY <1>4, <2>1 DEF ClusterInv, Waits
  <2> QED
    BY <1>5, <2>1, <2>2 DEF KafkaReady, ClusterRecovered, Led
<1>6. ASSUME \A p \in Partitions : ClusterRecovered(p)
      PROVE  KafkaReady
  <2>1. Leaderless = {} /\ TopicState.leaderlessPartitions = 0 /\ TopicState.underReplicated = 0
    BY <1>2, <1>6, DetectorsAssumption DEF ClusterRecovered
  <2>2. ASSUME NEW p \in Partitions
        PROVE  leader[p] >= 0 /\ Cardinality(isr[p]) = Cardinality(replicas[p])
    BY <1>4, <1>6, <2>1 DEF Leaderless, ClusterRecovered
  <2> QED
    BY <2>1, <2>2, DetectorsAssumption DEF KafkaReady, AllISRRecovered
<1> QED
  BY <1>5, <1>6 DEF HealthyMeansServing

\* The observer's condition for the Kafka milestone, and the detector's: they
\* are the same, and hold only with every replica alive and in sync, for any
\* replication factor and number of partitions.
THEOREM HealthyTopicsServe == Spec => []HealthyMeansServing
<1>1. Init => ClusterInv
  BY ClusterInit
<1>2. ClusterInv /\ [Next]_vars => ClusterInv'
  BY ClusterStep
<1>3. ClusterInv => HealthyMeansServing
  BY HealthyServes
<1> QED
  BY <1>1, <1>2, <1>3, PTL DEF Spec
-----------------------------------------------------------------------------
(***************************************************************************)
(* The pods                                                                *)
(***************************************************************************)
PodInv ==
    /\ pods \subseteq Brokers
    /\ ready \subseteq pods
    /\ labels \in [Brokers -> {"name", "id", "both"}]

LEMMA PodInit == Init => PodInv
  BY DEF Init, PodInv

LEMMA PodStep == PodInv /\ [Next]_vars => PodInv'
<1> SUFFICES ASSUME PodInv, [Next]_vars PROVE PodInv'
  OBVIOUS
<1>1. ASSUME NEW b \in Brokers, PodChanges(b) PROVE PodInv'
  BY <1>1 DEF PodChanges, PodInv
<1>2. (\E b \in Brokers : PodChanges(b)) \/ UNCHANGED <<pods, ready, labels>>
  BY DEF Next, BrokerFails, BrokerReturns, CatchUp, NewSample, podVars, vars
<1> QED
  BY <1>1, <1>2 DEF PodInv

Pools == {"brokers", "controllers"}
Symbols == Digit \cup {"experiment", "-"} \cup Pools
Name == Seq(Symbols)

LEMMA DigitsAre ==
    ASSUME NEW b \in Brokers
    PROVE  /\ Digits[b] \in Seq(Symbols)
           /\ Len(Digits[b]) \in Nat /\ Len(Digits[b]) > 0
           /\ \A i \in 1 .. Len(Digits[b]) : Digits[b][i] # "-"
<1>1. Digits[b] \in Seq(Digit) /\ Digits[b] # <<>>
  BY DigitsAssumption
<1>2. \A i \in 1 .. Len(Digits[b]) : Digits[b][i] \in Digit
  BY <1>1
<1>3. "-" \notin Digit
  BY DEF Digit
<1>4. Digits[b] \in Seq(Symbols)
  BY <1>1 DEF Symbols
<1>5. Len(Digits[b]) \in Nat /\ Len(Digits[b]) > 0
  BY <1>1
<1> QED
  BY <1>2, <1>3, <1>4, <1>5

LEMMA Joined ==
    ASSUME NEW S, NEW x \in Seq(S), NEW y \in Seq(S)
    PROVE  /\ x \o y \in Seq(S)
           /\ Len(x \o y) = Len(x) + Len(y)
           /\ \A i \in 1 .. Len(x) : (x \o y)[i] = x[i]
           /\ \A i \in 1 .. Len(y) : (x \o y)[Len(x) + i] = y[i]
  OBVIOUS

\* A name, symbol by symbol.
LEMMA NameShape ==
    ASSUME NEW b \in Brokers, NEW pool \in Pools
    PROVE  /\ NameOf(pool, b) \in Name
           /\ Len(NameOf(pool, b)) = 4 + Len(Digits[b])
           /\ NameOf(pool, b)[3] = pool
           /\ NameOf(pool, b)[4] = "-"
           /\ \A i \in 1 .. Len(Digits[b]) : NameOf(pool, b)[4 + i] = Digits[b][i]
<1>1. ASSUME NEW x \in Seq(Symbols), NEW y \in Seq(Symbols), Len(x) = 4
      PROVE  /\ x \o y \in Seq(Symbols)
             /\ Len(x \o y) = 4 + Len(y)
             /\ \A i \in 1 .. 4 : (x \o y)[i] = x[i]
             /\ \A i \in 1 .. Len(y) : (x \o y)[4 + i] = y[i]
  <2>1. /\ x \o y \in Seq(Symbols)
        /\ Len(x \o y) = Len(x) + Len(y)
        /\ \A i \in 1 .. Len(x) : (x \o y)[i] = x[i]
        /\ \A i \in 1 .. Len(y) : (x \o y)[Len(x) + i] = y[i]
    OBVIOUS
  <2> QED
    BY <1>1, <2>1
<1>2. ASSUME NEW x, x = <<"experiment", "-", pool, "-">>
      PROVE  x \in Seq(Symbols) /\ Len(x) = 4 /\ x[3] = pool /\ x[4] = "-"
  BY <1>2 DEF Symbols
<1> QED
  BY <1>1, <1>2, DigitsAre DEF NameOf, Name

\* IsSuffix compares from the end.
LEMMA SuffixBySymbol ==
    ASSUME NEW s \in Name, NEW t \in Name
    PROVE  Strings!IsSuffix(t, s) <=>
              /\ Len(t) <= Len(s)
              /\ \A i \in 1 .. Len(t) : t[i] = s[Len(s) - Len(t) + i]
<1> DEFINE r(x) == [i \in 1 .. Len(x) |-> x[(Len(x) - i) + 1]]
<1>1. Len(s) \in Nat /\ Len(t) \in Nat
  BY DEF Name
<1>2. ASSUME NEW x \in Name
      PROVE  r(x) \in Name /\ Len(r(x)) = Len(x)
  BY DEF Name
<1>3. Strings!IsSuffix(t, s) <=>
          /\ Len(t) <= Len(s)
          /\ SubSeq(r(t), 1, Len(t)) = SubSeq(r(s), 1, Len(t))
  BY <1>2 DEF Strings!IsSuffix, Strings!IsPrefix, Strings!Reverse
<1>4. ASSUME Len(t) <= Len(s)
      PROVE  SubSeq(r(t), 1, Len(t)) = SubSeq(r(s), 1, Len(t))
                <=> \A j \in 1 .. Len(t) : r(t)[j] = r(s)[j]
  <2>1. ASSUME NEW x \in Name, Len(t) <= Len(x)
        PROVE  SubSeq(r(x), 1, Len(t)) = [j \in 1 .. Len(t) |-> r(x)[j]]
    <3>1. r(x) \in Seq(Symbols) /\ Len(r(x)) = Len(x)
      BY <1>2 DEF Name
    <3> HIDE DEF r
    <3> QED
      BY <1>1, <2>1, <3>1
  <2>2. Len(t) <= Len(t)
    BY <1>1
  <2> HIDE DEF r
  <2>3. /\ SubSeq(r(t), 1, Len(t)) = [j \in 1 .. Len(t) |-> r(t)[j]]
        /\ SubSeq(r(s), 1, Len(t)) = [j \in 1 .. Len(t) |-> r(s)[j]]
    BY <1>4, <2>1, <2>2
  <2> QED
    BY <2>3
<1>5. ASSUME Len(t) <= Len(s)
      PROVE  (\A j \in 1 .. Len(t) : r(t)[j] = r(s)[j])
                <=> \A i \in 1 .. Len(t) : t[i] = s[Len(s) - Len(t) + i]
  <2>1. ASSUME NEW j \in 1 .. Len(t)
        PROVE  /\ r(t)[j] = t[Len(t) + 1 - j]
               /\ r(s)[j] = s[Len(s) - Len(t) + (Len(t) + 1 - j)]
               /\ Len(t) + 1 - j \in 1 .. Len(t)
    BY <1>1, <1>5
  <2>2. \A i \in 1 .. Len(t) : Len(t) + 1 - i \in 1 .. Len(t) /\ Len(t) + 1 - (Len(t) + 1 - i) = i
    BY <1>1
  <2> HIDE DEF r
  <2>3. ASSUME \A j \in 1 .. Len(t) : r(t)[j] = r(s)[j], NEW i \in 1 .. Len(t)
        PROVE  t[i] = s[Len(s) - Len(t) + i]
    <3>1. PICK j \in 1 .. Len(t) : Len(t) + 1 - j = i
      BY <2>2
    <3> QED
      BY <2>1, <2>3, <3>1
  <2>4. ASSUME \A i \in 1 .. Len(t) : t[i] = s[Len(s) - Len(t) + i], NEW j \in 1 .. Len(t)
        PROVE  r(t)[j] = r(s)[j]
    BY <2>1, <2>4
  <2> QED
    BY <2>3, <2>4
<1> QED
  BY <1>3, <1>4, <1>5

\* A pod's name ends in a hyphen and an ID only when it is that ID's.
LEMMA HyphenSeparates ==
    ASSUME NEW a \in Brokers, NEW b \in Brokers, NEW pool \in Pools
    PROVE  Strings!IsSuffix(<<"-">> \o Digits[b], NameOf(pool, a)) <=> a = b
<1> DEFINE s == NameOf(pool, a)
           t == <<"-">> \o Digits[b]
           m == Len(Digits[a])
           n == Len(Digits[b])
<1>1. /\ m \in Nat /\ n \in Nat /\ m > 0 /\ n > 0
      /\ \A i \in 1 .. m : Digits[a][i] # "-"
      /\ \A i \in 1 .. n : Digits[b][i] # "-"
  BY DigitsAre
<1>2. /\ s \in Name /\ Len(s) = 4 + m /\ s[4] = "-"
      /\ \A i \in 1 .. m : s[4 + i] = Digits[a][i]
  BY NameShape
<1>3. /\ t \in Name /\ Len(t) = 1 + n /\ t[1] = "-"
      /\ \A i \in 1 .. n : t[1 + i] = Digits[b][i]
  <2>1. <<"-">> \in Seq(Symbols) /\ Len(<<"-">>) = 1 /\ <<"-">>[1] = "-" /\ 1 \in 1 .. 1
    BY DEF Symbols
  <2>2. Digits[b] \in Seq(Symbols)
    BY DigitsAre
  <2> QED
    BY <2>1, <2>2, Joined DEF Name
<1> HIDE DEF s, t, m, n
<1>4. Strings!IsSuffix(t, s) <=> n <= 3 + m /\ \A i \in 1 .. 1 + n : t[i] = s[3 + m - n + i]
  <2>1. Strings!IsSuffix(t, s) <=>
            Len(t) <= Len(s) /\ \A i \in 1 .. Len(t) : t[i] = s[Len(s) - Len(t) + i]
    BY <1>2, <1>3, SuffixBySymbol
  <2>2. Len(s) - Len(t) = 3 + m - n /\ (Len(t) <= Len(s) <=> n <= 3 + m)
    BY <1>1, <1>2, <1>3
  <2> QED
    BY <1>3, <2>1, <2>2
<1>5. ASSUME Strings!IsSuffix(t, s) PROVE a = b
  <2>1. \A i \in 1 .. 1 + n : t[i] = s[3 + m - n + i]
    BY <1>4, <1>5
  <2>2. ~(m > n)
    <3> SUFFICES ASSUME m > n PROVE FALSE
      OBVIOUS
    <3>1. 1 \in 1 .. 1 + n /\ m - n \in 1 .. m /\ 3 + m - n + 1 = 4 + (m - n)
      BY <1>1
    <3>2. t[1] = Digits[a][m - n]
      BY <1>2, <2>1, <3>1
    <3> QED
      BY <1>1, <1>3, <3>1, <3>2
  <2>3. ~(m < n)
    <3> SUFFICES ASSUME m < n PROVE FALSE
      OBVIOUS
    <3>1. n - m \in 1 .. n /\ 1 + (n - m) \in 1 .. 1 + n /\ 3 + m - n + (1 + (n - m)) = 4
      BY <1>1
    <3>2. Digits[b][n - m] = s[4]
      BY <1>3, <2>1, <3>1
    <3> QED
      BY <1>1, <1>2, <3>1, <3>2
  <2>4. m = n
    BY <1>1, <2>2, <2>3
  <2>5. ASSUME NEW i \in 1 .. n PROVE Digits[a][i] = Digits[b][i]
    <3>1. 1 + i \in 1 .. 1 + n /\ 3 + m - n + (1 + i) = 4 + i
      BY <1>1, <2>4
    <3> QED
      BY <1>2, <1>3, <2>1, <2>4, <3>1
  <2>6. Digits[a] = Digits[b]
    <3>1. Digits[a] \in Seq(Symbols) /\ Digits[b] \in Seq(Symbols)
      BY DigitsAre
    <3> QED
      BY <2>4, <2>5, <3>1 DEF m, n
  <2> QED
    BY <2>6, DigitsAssumption
<1>6. ASSUME a = b PROVE Strings!IsSuffix(t, s)
  <2>1. m = n
    BY <1>6 DEF m, n
  <2>2. ASSUME NEW i \in 1 .. 1 + n PROVE t[i] = s[3 + i]
    <3>1. CASE i = 1
      BY <1>2, <1>3, <3>1
    <3>2. CASE i # 1
      <4>1. i - 1 \in 1 .. n /\ 1 + (i - 1) = i /\ 4 + (i - 1) = 3 + i
        BY <1>1, <3>2
      <4> QED
        BY <1>2, <1>3, <1>6, <2>1, <4>1
    <3> QED
      BY <3>1, <3>2
  <2>3. n <= 3 + m /\ \A i \in 1 .. 1 + n : 3 + m - n + i = 3 + i
    BY <1>1, <2>1
  <2> QED
    BY <1>4, <2>2, <2>3
<1> QED
  BY <1>5, <1>6 DEF s, t

\* Different brokers' pods have different names, and no controller has one of them.
LEMMA NamesDiffer ==
    ASSUME NEW a \in Brokers, NEW b \in Brokers
    PROVE  /\ NameOf("brokers", a) = NameOf("brokers", b) => a = b
           /\ NameOf("brokers", a) # NameOf("controllers", b)
           /\ NameOf("brokers", a) # NoName
<1>1. NameOf("brokers", a) = NameOf("brokers", b) => a = b
  BY HyphenSeparates DEF Pools
<1>2. NameOf("brokers", a)[3] = "brokers" /\ NameOf("controllers", b)[3] = "controllers"
  BY NameShape DEF Pools
<1>3. Len(NameOf("brokers", a)) > 0 /\ Len(NoName) = 0
  BY NameShape, DigitsAre DEF NoName, Pools
<1> QED
  BY <1>1, <1>2, <1>3

\* The pods that pass BrokerPod's tests.
Matches(id) ==
    {pod \in Listed : /\ pod.pool = "brokers" /\ pod.broker /\ ~pod.controller
                      /\ Identifies(pod, id)}

\* Of all the pods listed, controllers included, only the broker's own matches.
LEMMA OwnPodOnly ==
    ASSUME PodInv, NEW id \in Brokers
    PROVE  Matches(id) = IF id \in pods THEN {PodOf(id)} ELSE {}
<1>1. ASSUME NEW pod \in Matches(id)
      PROVE  id \in pods /\ pod = PodOf(id)
  <2>1. pod \in Listed /\ pod.broker /\ Identifies(pod, id)
    BY DEF Matches
  <2>2. PICK b \in pods : pod = PodOf(b)
    <3>1. \A b \in Brokers : ~ControllerPod(b).broker
      BY DEF ControllerPod
    <3> QED
      BY <2>1, <3>1 DEF Listed
  <2>3. b \in Brokers
    BY DEF PodInv
  <2>4. CASE pod.brokerId = Digits[id]
    <3>1. PodOf(b).brokerId \in {Digits[b], <<>>}
      BY DEF PodOf
    <3>2. Digits[id] = Digits[b]
      BY <2>2, <2>4, <3>1, DigitsAssumption
    <3> QED
      BY <2>2, <2>3, <3>2, DigitsAssumption
  <2>5. CASE Strings!IsSuffix(<<"-">> \o Digits[id], pod.name)
    <3>1. pod.name = NameOf("brokers", b)
      BY <2>2 DEF PodOf
    <3>2. b = id
      BY <2>3, <2>5, <3>1, HyphenSeparates DEF Pools
    <3> QED
      BY <2>2, <3>2
  <2> QED
    BY <2>1, <2>4, <2>5 DEF Identifies
<1>2. ASSUME id \in pods
      PROVE  PodOf(id) \in Matches(id)
  <2>1. PodOf(id) \in Listed
    BY <1>2 DEF Listed
  <2>2. PodOf(id).pool = "brokers" /\ PodOf(id).broker /\ ~PodOf(id).controller
    BY DEF PodOf
  <2>3. PodOf(id).name = NameOf("brokers", id)
    BY DEF PodOf
  <2>4. Strings!IsSuffix(<<"-">> \o Digits[id], PodOf(id).name)
    BY <2>3, HyphenSeparates DEF Pools
  <2>5. labels[id] \in {"name", "id", "both"}
    BY DEF PodInv
  <2>6. PodOf(id).brokerId = Digits[id] \/ PodOf(id).podName = PodOf(id).name
    <3>1. CASE labels[id] = "name"
      BY <3>1 DEF PodOf
    <3>2. CASE labels[id] # "name"
      BY <2>5, <3>2 DEF PodOf
    <3> QED
      BY <3>1, <3>2
  <2>7. Identifies(PodOf(id), id)
    BY <2>4, <2>6 DEF Identifies
  <2> QED
    BY <2>1, <2>2, <2>7 DEF Matches
<1> QED
  BY <1>1, <1>2

\* BrokerPod finds the pod of a broker exactly when it is listed.
LEMMA PodFound ==
    ASSUME PodInv, NEW id \in Brokers
    PROVE  BrokerPod(id) = IF id \in pods THEN NameOf("brokers", id) ELSE NoName
<1>1. BrokerPod(id) = IF Cardinality(Matches(id)) = 1
                      THEN (CHOOSE pod \in Matches(id) : TRUE).name ELSE NoName
  BY DEF BrokerPod, Matches
<1>2. CASE id \in pods
  <2>1. Matches(id) = {PodOf(id)}
    BY <1>2, OwnPodOnly
  <2>2. Cardinality(Matches(id)) = 1
    BY <2>1, FS_Singleton
  <2>3. (CHOOSE pod \in Matches(id) : TRUE) = PodOf(id)
    BY <2>1
  <2>4. PodOf(id).name = NameOf("brokers", id)
    BY DEF PodOf
  <2> QED
    BY <1>1, <1>2, <2>2, <2>3, <2>4
<1>3. CASE id \notin pods
  <2>1. Cardinality(Matches(id)) = 0
    BY <1>3, OwnPodOnly, FS_EmptySet
  <2> QED
    BY <1>1, <1>3, <2>1
<1> QED
  BY <1>2, <1>3

\* The look-up by name finds the broker's own pod again, and its readiness.
LEMMA LookedUp ==
    ASSUME PodInv, NEW id \in Brokers
    PROVE  (\E pod \in Listed : pod.name = NameOf("brokers", id) /\ pod.ready) <=> id \in ready
<1>1. ASSUME NEW pod \in Listed, pod.name = NameOf("brokers", id), pod.ready
      PROVE  id \in ready
  <2>1. ~ \E b \in Brokers : pod = ControllerPod(b)
    <3>1. \A b \in Brokers : ControllerPod(b).name = NameOf("controllers", b)
      BY DEF ControllerPod
    <3> QED
      BY <1>1, <3>1, NamesDiffer
  <2>2. PICK b \in pods : pod = PodOf(b)
    BY <2>1 DEF Listed
  <2>3. pod.name = NameOf("brokers", b) /\ (pod.ready <=> b \in ready)
    BY <2>2 DEF PodOf
  <2> QED
    BY <1>1, <2>3, NamesDiffer DEF PodInv
<1>2. ASSUME id \in ready
      PROVE  \E pod \in Listed : pod.name = NameOf("brokers", id) /\ pod.ready
  <2>1. PodOf(id) \in Listed
    BY <1>2 DEF Listed, PodInv
  <2>2. PodOf(id).name = NameOf("brokers", id) /\ PodOf(id).ready
    BY <1>2 DEF PodOf
  <2> QED
    BY <2>1, <2>2
<1> QED
  BY <1>1, <1>2

LEMMA MappingHolds == ClusterInv /\ PodInv => MappingFindsTheLeader
<1> SUFFICES ASSUME ClusterInv, PodInv, NEW p \in Partitions, HasLeader(p)
             PROVE  MapBrokerPod(leader[p]) =
                       IF leader[p] \in ready THEN NameOf("brokers", leader[p]) ELSE NoName
  BY DEF MappingFindsTheLeader
<1> DEFINE id == leader[p]
<1>1. id \in Brokers
  BY DEF ClusterInv, ClusterType, HasLeader, None
<1>2. BrokerPod(id) = IF id \in pods THEN NameOf("brokers", id) ELSE NoName
  BY <1>1, PodFound
<1>3. CASE id \in pods
  BY <1>1, <1>2, <1>3, LookedUp DEF MapBrokerPod
<1>4. CASE id \notin pods
  <2>1. BrokerPod(id) = NoName /\ id \notin ready
    BY <1>2, <1>4 DEF PodInv
  <2> QED
    BY <2>1 DEF MapBrokerPod
<1> QED
  BY <1>3, <1>4

\* The pod that a fault would delete is the leader's, whichever labels identify
\* the pods and whatever digits the IDs have, as long as no two are the same:
\* the hyphen is what keeps one ID from being the end of another.
THEOREM MappedPodIsTheLeaders == Spec => []MappingFindsTheLeader
<1>1. Init => ClusterInv /\ PodInv
  BY ClusterInit, PodInit
<1>2. ClusterInv /\ PodInv /\ [Next]_vars => (ClusterInv /\ PodInv)'
  BY ClusterStep, PodStep
<1>3. ClusterInv /\ PodInv => MappingFindsTheLeader
  BY MappingHolds
<1> QED
  BY <1>1, <1>2, <1>3, PTL DEF Spec
-----------------------------------------------------------------------------
(***************************************************************************)
(* The series                                                              *)
(***************************************************************************)
Sample == [at : Nat, good : BOOLEAN, acknowledgements : Nat, consumed : Nat]

SeriesType ==
    /\ config.window = Minute
    /\ series \in Seq(Sample)
    /\ badAt \in Nat \cup {None}

\* Time goes on from the fault, at 0.
InstantsGrow ==
    /\ series # <<>> => series[1].at = 0
    /\ \A i, j \in 1 .. Len(series) : i < j => series[i].at < series[j].at

\* The history is the instant of the latest bad sample.
BadIsLatest ==
    /\ \A i \in 1 .. Len(series) : ~series[i].good => badAt # None /\ series[i].at <= badAt
    /\ badAt # None => \E i \in 1 .. Len(series) : series[i].at = badAt /\ ~series[i].good

\* A counter that grew in every interval has grown by their number.
Growing(n) ==
    \A i \in 2 .. n : /\ series[i].acknowledgements > series[i - 1].acknowledgements
                      /\ series[i].consumed > series[i - 1].consumed

GrowthAddsUp ==
    series # <<>> /\ Growing(Len(series)) =>
        Last.acknowledgements >= Len(series) - 1 /\ Last.consumed >= Len(series) - 1

SeriesInv == SeriesType /\ InstantsGrow /\ BadIsLatest /\ GrowthAddsUp

LEMMA SeriesInit == Init => SeriesInv
<1> SUFFICES ASSUME Init PROVE SeriesInv
  OBVIOUS
<1>1. series = <<>> /\ badAt = None /\ Len(series) = 0 /\ series \in Seq(Sample)
  BY DEF Init
<1>2. config.window = Minute
  BY DEF Init, Valid
<1> QED
  BY <1>1, <1>2 DEF SeriesInv, SeriesType, InstantsGrow, BadIsLatest, GrowthAddsUp

LEMMA Appended ==
    ASSUME NEW S, NEW s \in Seq(S), NEW e \in S
    PROVE  /\ Append(s, e) \in Seq(S)
           /\ Append(s, e) # <<>>
           /\ Len(Append(s, e)) = Len(s) + 1
           /\ \A k \in 1 .. Len(s) : Append(s, e)[k] = s[k]
           /\ Append(s, e)[Len(s) + 1] = e
  OBVIOUS

\* A new sample is later than the last one, and has grown by 0 or 1.
LEMMA SampleKeepsSeries ==
    ASSUME SeriesInv, NewSample
    PROVE  SeriesInv'
<1> DEFINE n == Len(series)
<1>1. n \in Nat /\ (series # <<>> => n \in 1 .. n /\ n >= 1)
  BY DEF SeriesInv, SeriesType
<1>2. \A i \in 1 .. n : series[i] \in Sample
  BY DEF SeriesInv, SeriesType
<1>3. PICK good \in BOOLEAN, pause \in 1 .. 2, acked \in 0 .. 1, consumed \in 0 .. 1 :
          LET sample == IF series = <<>>
                        THEN [at |-> 0, good |-> good, acknowledgements |-> 0, consumed |-> 0]
                        ELSE [at |-> Last.at + pause, good |-> good,
                              acknowledgements |-> Last.acknowledgements + acked,
                              consumed |-> Last.consumed + consumed]
          IN  /\ series' = Append(series, sample)
              /\ badAt' = IF good THEN badAt ELSE sample.at
  BY DEF NewSample
<1> DEFINE x == IF series = <<>>
                THEN [at |-> 0, good |-> good, acknowledgements |-> 0, consumed |-> 0]
                ELSE [at |-> Last.at + pause, good |-> good,
                      acknowledgements |-> Last.acknowledgements + acked,
                      consumed |-> Last.consumed + consumed]
<1>4. /\ series' = Append(series, x)
      /\ badAt' = IF good THEN badAt ELSE x.at
      /\ config' = config
  BY <1>3 DEF NewSample
<1>5. series # <<>> => Last \in Sample /\ Last = series[n]
  BY <1>1, <1>2 DEF Last
<1>6. /\ x \in Sample
      /\ x.good = good
      /\ series = <<>> => x.at = 0 /\ x.acknowledgements = 0 /\ x.consumed = 0
      /\ series # <<>> => /\ x.at > Last.at
                          /\ x.acknowledgements <= Last.acknowledgements + 1
                          /\ x.consumed <= Last.consumed + 1
  <2>1. CASE series = <<>>
    BY <2>1 DEF Sample
  <2>2. CASE series # <<>>
    <3>1. /\ Last.at \in Nat /\ Last.acknowledgements \in Nat /\ Last.consumed \in Nat
      BY <1>5, <2>2 DEF Sample
    <3> QED
      BY <2>2, <3>1 DEF Sample
  <2> QED
    BY <2>1, <2>2
<1> HIDE DEF x
<1>7. /\ series' \in Seq(Sample) /\ series' # <<>>
      /\ Len(series') = n + 1
      /\ \A k \in 1 .. n : series'[k] = series[k]
      /\ series'[n + 1] = x
  BY <1>4, <1>6, Appended DEF SeriesInv, SeriesType
<1>8. Last' = x
  BY <1>7 DEF Last
<1>9. series = <<>> <=> n = 0
  BY DEF SeriesInv, SeriesType
<1>10. \A k \in 1 .. n + 1 : k \in 1 .. n \/ k = n + 1
  BY <1>1
<1>11. ASSUME NEW k \in 1 .. n
       PROVE  /\ series[k].at \in Nat /\ series[k].at < x.at
  <2>1. series[k] \in Sample /\ series[k].at \in Nat /\ series # <<>>
    BY <1>2, <1>9, <1>1 DEF Sample
  <2>2. Last.at \in Nat /\ x.at \in Nat /\ x.at > Last.at
    BY <1>5, <1>6, <2>1 DEF Sample
  <2>3. series[k].at <= Last.at
    <3>1. CASE k = n
      BY <1>5, <2>1, <2>2, <3>1
    <3>2. CASE k < n
      BY <1>1, <1>5, <2>1, <2>2, <3>2 DEF SeriesInv, InstantsGrow
    <3> QED
      BY <1>1, <3>1, <3>2
  <2> QED
    BY <2>1, <2>2, <2>3
<1>12. SeriesType'
  <2>1. badAt' \in Nat \cup {None}
    BY <1>4, <1>6 DEF SeriesInv, SeriesType, Sample
  <2> QED
    BY <1>4, <1>7, <2>1 DEF SeriesInv, SeriesType
<1>13. InstantsGrow'
  <2>1. series'[1].at = 0
    <3>1. CASE series = <<>>
      BY <1>6, <1>7, <1>9, <3>1
    <3>2. CASE series # <<>>
      BY <1>1, <1>7, <3>2 DEF SeriesInv, InstantsGrow
    <3> QED
      BY <3>1, <3>2
  <2>2. ASSUME NEW i \in 1 .. n + 1, NEW j \in 1 .. n + 1, i < j
        PROVE  series'[i].at < series'[j].at
    <3>1. i \in 1 .. n
      BY <1>1, <2>2
    <3>2. CASE j \in 1 .. n
      BY <1>7, <2>2, <3>1, <3>2 DEF SeriesInv, InstantsGrow
    <3>3. CASE j = n + 1
      BY <1>7, <1>11, <3>1, <3>3
    <3> QED
      BY <1>10, <3>2, <3>3
  <2> QED
    BY <1>7, <2>1, <2>2 DEF InstantsGrow
<1>14. BadIsLatest'
  <2>1. CASE good
    <3>1. badAt' = badAt
      BY <1>4, <2>1
    <3>2. ASSUME NEW i \in 1 .. n + 1, ~series'[i].good
          PROVE  badAt' # None /\ series'[i].at <= badAt'
      <4>1. i \in 1 .. n
        BY <1>6, <1>7, <1>10, <2>1, <3>2
      <4> QED
        BY <1>7, <3>1, <3>2, <4>1 DEF SeriesInv, BadIsLatest
    <3>3. ASSUME badAt' # None
          PROVE  \E i \in 1 .. n + 1 : series'[i].at = badAt' /\ ~series'[i].good
      <4>1. PICK i \in 1 .. n : series[i].at = badAt /\ ~series[i].good
        BY <3>1, <3>3 DEF SeriesInv, BadIsLatest
      <4>2. i \in 1 .. n + 1
        BY <1>1
      <4> QED
        BY <1>7, <3>1, <4>1, <4>2
    <3> QED
      BY <1>7, <3>2, <3>3 DEF BadIsLatest
  <2>2. CASE ~good
    <3>1. badAt' = x.at /\ x.at \in Nat /\ x.at # None
      BY <1>4, <1>6, <2>2 DEF Sample, None
    <3>2. n + 1 \in 1 .. n + 1 /\ series'[n + 1].at = badAt' /\ ~series'[n + 1].good
      BY <1>1, <1>6, <1>7, <2>2, <3>1
    <3>3. ASSUME NEW i \in 1 .. n + 1
          PROVE  series'[i].at <= badAt'
      <4>1. CASE i \in 1 .. n
        BY <1>7, <1>11, <3>1, <4>1
      <4>2. CASE i = n + 1
        BY <1>7, <3>1, <4>2
      <4> QED
        BY <1>10, <4>1, <4>2
    <3> QED
      BY <1>7, <3>1, <3>2, <3>3 DEF BadIsLatest
  <2> QED
    BY <2>1, <2>2
<1>15. GrowthAddsUp'
  <2> SUFFICES ASSUME Growing(Len(series))'
               PROVE  (Last.acknowledgements >= Len(series) - 1 /\ Last.consumed >= Len(series) - 1)'
    BY DEF GrowthAddsUp
  <2> SUFFICES x.acknowledgements >= n /\ x.consumed >= n
    BY <1>1, <1>7, <1>8
  <2>3. \A i \in 2 .. n + 1 : /\ series'[i].acknowledgements > series'[i - 1].acknowledgements
                              /\ series'[i].consumed > series'[i - 1].consumed
    BY <1>7 DEF Growing
  <2>1. CASE series = <<>>
    BY <1>6, <1>9, <2>1
  <2>2. CASE series # <<>>
    <3>1. /\ n >= 1 /\ n + 1 \in 2 .. n + 1 /\ n \in 1 .. n /\ (n + 1) - 1 = n
      BY <1>1, <2>2
    <3>2. /\ x.acknowledgements > Last.acknowledgements /\ x.consumed > Last.consumed
      BY <1>5, <1>7, <2>2, <2>3, <3>1
    <3>3. Growing(n)
      <4>1. \A i \in 2 .. n : i \in 2 .. n + 1 /\ i \in 1 .. n /\ i - 1 \in 1 .. n
        BY <1>1
      <4> QED
        BY <1>7, <2>3, <4>1 DEF Growing
    <3>4. /\ Last.acknowledgements >= n - 1 /\ Last.consumed >= n - 1
      BY <2>2, <3>3 DEF SeriesInv, GrowthAddsUp
    <3>5. /\ Last.acknowledgements \in Nat /\ Last.consumed \in Nat
          /\ x.acknowledgements \in Nat /\ x.consumed \in Nat
      BY <1>5, <1>6, <2>2 DEF Sample
    <3> QED
      BY <1>1, <3>2, <3>4, <3>5
  <2> QED
    BY <2>1, <2>2
<1> QED
  BY <1>12, <1>13, <1>14, <1>15 DEF SeriesInv

LEMMA SeriesStep == SeriesInv /\ [Next]_vars => SeriesInv'
<1> SUFFICES ASSUME SeriesInv, [Next]_vars PROVE SeriesInv'
  OBVIOUS
<1>1. CASE UNCHANGED <<config, series, badAt>>
  BY <1>1 DEF SeriesInv, SeriesType, InstantsGrow, BadIsLatest, GrowthAddsUp, Growing, Last
<1>2. NewSample \/ UNCHANGED <<config, series, badAt>>
  BY DEF Next, BrokerFails, BrokerReturns, CatchUp, PodChanges, seriesVars, vars
<1> QED
  BY <1>1, <1>2, SampleKeepsSeries

LEMMA VerdictsHold == SeriesInv => SeriesVerdictsAreEarned
<1> SUFFICES ASSUME SeriesInv PROVE SeriesVerdictsAreEarned
  OBVIOUS
<1> DEFINE n == Len(series)
<1>1. n \in Nat /\ (series # <<>> => n \in 1 .. n /\ 1 \in 1 .. n)
  BY DEF SeriesInv, SeriesType
<1>2. \A i \in 1 .. n : series[i].at \in Nat
  <2>1. ASSUME NEW i \in 1 .. n PROVE series[i] \in Sample
    BY DEF SeriesInv, SeriesType
  <2> QED
    BY <2>1 DEF Sample
<1>3. series # <<>> => Last.at \in Nat /\ Span = Last.at
  BY <1>1, <1>2 DEF Last, Span, SeriesInv, InstantsGrow
<1>4. config.window = Minute /\ Minute \in Nat /\ StableFor \in Nat
  BY DetectorsAssumption DEF SeriesInv, SeriesType
<1>5. ASSUME PerformanceRecovered(config.window)
      PROVE  series # <<>> /\ Span >= Minute /\ (badAt = None \/ Last.at - badAt > Minute)
  <2>1. series # <<>> /\ Span >= Minute
    BY <1>4, <1>5 DEF PerformanceRecovered
  <2>2. ASSUME badAt # None PROVE Last.at - badAt > Minute
    <3>1. PICK i \in 1 .. n : series[i].at = badAt /\ ~series[i].good
      BY <2>2 DEF SeriesInv, BadIsLatest
    <3>2. badAt < Last.at - Minute /\ badAt \in Nat
      BY <1>2, <1>4, <1>5, <3>1 DEF PerformanceRecovered
    <3> QED
      BY <1>3, <1>4, <2>1, <3>2
  <2> QED
    BY <2>1, <2>2
<1>6. ASSUME series # <<>>, Span >= Minute, badAt = None \/ Last.at - badAt > Minute
      PROVE  PerformanceRecovered(config.window)
  <2>1. ASSUME NEW i \in 1 .. n, ~series[i].good
        PROVE  series[i].at < Last.at - Minute
    <3>1. badAt \in Nat /\ series[i].at <= badAt /\ badAt # None
      BY <2>1 DEF SeriesInv, SeriesType, BadIsLatest
    <3> QED
      BY <1>2, <1>3, <1>4, <1>6, <3>1
  <2> QED
    BY <1>4, <1>6, <2>1 DEF PerformanceRecovered
<1>7. ASSUME ApplicationsRecovered
      PROVE  /\ Last.at >= StableFor
             /\ Last.acknowledgements >= Len(series) - 1
             /\ Last.consumed >= Len(series) - 1
  <2>1. n >= 2 /\ Span >= StableFor /\ Growing(n)
    BY <1>7 DEF ApplicationsRecovered, Growing
  <2>2. series # <<>>
    BY <2>1 DEF SeriesInv, SeriesType
  <2> QED
    BY <1>3, <2>1, <2>2 DEF SeriesInv, GrowthAddsUp
<1> QED
  BY <1>5, <1>6, <1>7 DEF SeriesVerdictsAreEarned

\* A series is judged by its latest bad sample and by the growth of all its
\* intervals, for any window, interval and length.
THEOREM VerdictsAreEarned == Spec => []SeriesVerdictsAreEarned
<1>1. Init => SeriesInv
  BY SeriesInit
<1>2. SeriesInv /\ [Next]_vars => SeriesInv'
  BY SeriesStep
<1>3. SeriesInv => SeriesVerdictsAreEarned
  BY VerdictsHold
<1> QED
  BY <1>1, <1>2, <1>3, PTL DEF Spec
================================================================================
