---------------------------- MODULE BarrierProofs ----------------------------
(***************************************************************************)
(* The barrier's safety properties hold for any number of participants,    *)
(* any parallelism limit, any cleanup period and whatever the lastIdx      *)
(* fields hold at the start.                                               *)
(*                                                                         *)
(* The operations hand tryWakeNext the values they have already assigned,  *)
(* so the invariant is stated of such values (Good), not only of the       *)
(* variables: each operation establishes Good of what it passes on, and    *)
(* checkRunList, endPhase and tryWakeNext preserve it.                     *)
(***************************************************************************)
EXTENDS Barrier, FiniteSetTheorems, TLAPS


GoodType(st, fw, last, list, size, cur, run, left, syn) ==
    /\ st \in [Tids -> States]
    /\ fw \in [Tids -> {0, 1}]
    /\ last \in [Tids -> Nat]
    /\ size \in Nat
    /\ list \in [0..(size - 1) -> Tids]
    /\ cur \in 0..size
    /\ run \in Nat
    /\ left \in Nat
    /\ syn \subseteq Tids

\* The run list is a list, without repetition, of those who are not OFFLINE.
GoodList(st, list, size) ==
    /\ \A i, j \in 0..(size - 1) : list[i] = list[j] => i = j
    /\ \A t \in Tids : st[t] # "OFFLINE" <=> \E i \in 0..(size - 1) : list[i] = t

GoodCount(st, run, left) ==
    /\ run = Cardinality({t \in Tids : st[t] = "RUNNING"})
    /\ left = Cardinality({t \in Tids : st[t] = "LEFT"})
    /\ run <= parallelThreads

\* lastIdx is the place of everybody whose lastIdx may be read: those who
\* have run (they are RUNNING or LEFT) and those the phase has passed.
GoodPlace(st, last, list, size, cur) ==
    /\ \A t \in Tids : st[t] \in {"RUNNING", "LEFT"} =>
                          last[t] \in 0..(size - 1) /\ list[last[t]] = t
    /\ \A t \in Tids : st[t] = "RUNNING" => last[t] < cur
    /\ \A i \in 0..(cur - 1) : last[list[i]] = i

GoodFutex(st, fw) ==
    \A t \in Tids : /\ st[t] = "WAITING" => fw[t] = 1
                    /\ st[t] = "RUNNING" => fw[t] = 0

\* Those the phase has passed and who wait are exactly those who have synced.
GoodSynced(st, list, cur, syn) ==
    /\ \A t \in syn : st[t] = "WAITING" /\ \E i \in 0..(cur - 1) : list[i] = t
    /\ \A i \in 0..(cur - 1) : st[list[i]] = "WAITING" => list[i] \in syn

Good(st, fw, last, list, size, cur, run, left, syn) ==
    /\ GoodType(st, fw, last, list, size, cur, run, left, syn)
    /\ GoodList(st, list, size)
    /\ GoodCount(st, run, left)
    /\ GoodPlace(st, last, list, size, cur)
    /\ GoodFutex(st, fw)
    /\ GoodSynced(st, list, cur, syn)

\* The inductive invariant.
IInv ==
    /\ Good(state, futexWord, lastIdx, runList, runListSize, curThreadIdx,
            runningThreads, leftThreads, synced)
    /\ phaseCount \in 0..(CleanupPeriod - 1)
    /\ NoLostWakeup

-----------------------------------------------------------------------------
(***************************************************************************)
(* Facts about the sets of participants.                                   *)
(***************************************************************************)

\* Sets of participants are finite.
LEMMA TidSets ==
    ASSUME NEW S \in SUBSET Tids
    PROVE  IsFiniteSet(S) /\ Cardinality(S) \in Nat
BY BarrierAssumption, FS_Subset, FS_CardinalityType

\* A list of length n has n places.
LEMMA IdxCount ==
    ASSUME NEW n \in Nat
    PROVE  IsFiniteSet(0..(n - 1)) /\ Cardinality(0..(n - 1)) = n
<1>1. 0 \in Int /\ n - 1 \in Int
  OBVIOUS
<1>2. /\ IsFiniteSet(0..(n - 1))
      /\ Cardinality(0..(n - 1)) = IF 0 > n - 1 THEN 0 ELSE (n - 1) - 0 + 1
  BY <1>1, FS_Interval
<1> QED BY <1>2

\* One more place of the run list holds at most one more waiting participant.
LEMMA WaitingInStep ==
    ASSUME NEW st, NEW size \in Nat, NEW list \in [0..(size - 1) -> Tids],
           NEW cur \in 0..size, NEW k \in 0..size, cur < k
    PROVE  Cardinality(WaitingIn(st, list, cur, k))
              <= Cardinality(WaitingIn(st, list, cur, k - 1)) + 1
<1> DEFINE W == WaitingIn(st, list, cur, k)
           V == WaitingIn(st, list, cur, k - 1)
<1>1. V \in SUBSET Tids /\ W \in SUBSET Tids /\ W \in SUBSET (V \cup {list[k - 1]})
  BY DEF WaitingIn
<1>2. IsFiniteSet(V) /\ IsFiniteSet(V \cup {list[k - 1]})
      /\ Cardinality(V) \in Nat
      /\ Cardinality(V \cup {list[k - 1]}) <= Cardinality(V) + 1
  BY <1>1, TidSets, FS_AddElement, SMTT(30)
<1>3. Cardinality(W) <= Cardinality(V \cup {list[k - 1]}) /\ Cardinality(W) \in Nat
  BY <1>1, <1>2, FS_Subset, TidSets
<1>4. Cardinality(V \cup {list[k - 1]}) \in Nat
  BY <1>2, FS_CardinalityType
<1> QED BY <1>2, <1>3, <1>4

-----------------------------------------------------------------------------
(***************************************************************************)
(* checkRunList preserves Good, and stops with a free slot only at the end *)
(* of the list.                                                            *)
(***************************************************************************)

\* The wakeup loop keeps what it is given good.
LEMMA CheckRunListGood ==
    ASSUME NEW st, NEW fw, NEW last, NEW list, NEW size, NEW cur, NEW run,
           NEW left, NEW syn,
           Good(st, fw, last, list, size, cur, run, left, syn),
           checkRunList(st, fw, last, list, size, cur, run)
    PROVE  /\ Good(state', futexWord', lastIdx', runList', runListSize', curThreadIdx',
                   runningThreads', left, syn)
           /\ runningThreads' < parallelThreads => curThreadIdx' = runListSize'
           /\ runListSize' = size
<1> USE DEF Good
<1> PICK k \in cur..size :
        LET woken == WaitingIn(st, list, cur, k)
        IN  /\ LoopEndsAt(st, list, size, cur, run, k)
            /\ state' = [t \in Tids |-> IF t \in woken THEN "RUNNING" ELSE st[t]]
            /\ futexWord' = [t \in Tids |-> IF t \in woken /\ fw[t] = 1 THEN 0 ELSE fw[t]]
            /\ lastIdx' = [t \in Tids |->
                             IF t \in woken
                             THEN CHOOSE i \in cur..(k - 1) : list[i] = t
                             ELSE last[t]]
            /\ runList' = list
            /\ runListSize' = size
            /\ curThreadIdx' = k
            /\ runningThreads' = run + Cardinality(woken)
  BY DEF checkRunList
<1> DEFINE W == WaitingIn(st, list, cur, k)
<1>0. /\ size \in Nat /\ cur \in Nat /\ k \in Nat /\ cur <= k /\ k <= size /\ run \in Nat
      /\ parallelThreads \in Nat \ {0}
  BY BarrierAssumption DEF GoodType
<1>1. /\ W \in SUBSET Tids
      /\ \A t \in Tids : t \in W <=> \E i \in cur..(k - 1) : list[i] = t /\ st[t] = "WAITING"
      /\ \A t \in W : st[t] = "WAITING"
  BY <1>0, SMTT(30) DEF WaitingIn, GoodType
<1>2. IsFiniteSet(W) /\ Cardinality(W) \in Nat
  BY <1>1, TidSets
<1>run. runningThreads' = run + Cardinality(W)
  OBVIOUS
<1>3. \A t \in W : lastIdx'[t] \in cur..(k - 1) /\ list[lastIdx'[t]] = t
  <2> SUFFICES ASSUME NEW t \in W PROVE lastIdx'[t] \in cur..(k - 1) /\ list[lastIdx'[t]] = t
    OBVIOUS
  <2>1. \E i \in cur..(k - 1) : list[i] = t
    BY <1>1
  <2>2. t \in Tids /\ lastIdx'[t] = CHOOSE i \in cur..(k - 1) : list[i] = t
    BY <1>1
  <2> QED BY <2>1, <2>2
<1>4. \A t \in Tids \ W : lastIdx'[t] = last[t] /\ state'[t] = st[t]
  BY DEF GoodType
<1>5. \A t \in W : state'[t] = "RUNNING" /\ t \in Tids
  BY <1>1
<1>6. GoodType(state', futexWord', lastIdx', runList', runListSize', curThreadIdx',
               runningThreads', left, syn)
  <2>1. state' \in [Tids -> States]
    BY DEF GoodType, States
  <2>2. futexWord' \in [Tids -> {0, 1}]
    BY DEF GoodType
  <2>3. lastIdx' \in [Tids -> Nat]
    <3>1. \A t \in W : lastIdx'[t] \in Nat
      BY <1>0, <1>3
    <3>2. \A t \in Tids \ W : lastIdx'[t] \in Nat
      BY <1>4 DEF GoodType
    <3> HIDE DEF W
    <3> QED BY <3>1, <3>2
  <2>4. runningThreads' \in Nat
    BY <1>0, <1>2
  <2> QED BY <1>0, <2>1, <2>2, <2>3, <2>4 DEF GoodType
<1>7. GoodList(state', runList', runListSize')
  <2>1. \A t \in Tids : state'[t] # "OFFLINE" <=> st[t] # "OFFLINE"
    BY <1>1, <1>4, <1>5
  <2> QED BY <2>1 DEF GoodList
<1>8. runningThreads' <= parallelThreads
  <2>1. CASE k = cur
    <3>1. W = {}
      BY <1>0, <2>1 DEF WaitingIn
    <3> QED BY <1>0, <3>1, FS_EmptySet DEF GoodCount
  <2>2. CASE cur < k
    <3>1. k - 1 \in cur..(k - 1)
      BY <1>0, <2>2
    <3>2. run + Cardinality(WaitingIn(st, list, cur, k - 1)) < parallelThreads
      BY <3>1 DEF LoopEndsAt
    <3>3. Cardinality(W) <= Cardinality(WaitingIn(st, list, cur, k - 1)) + 1
      BY <1>0, <2>2, WaitingInStep DEF GoodType
    <3>4. WaitingIn(st, list, cur, k - 1) \in SUBSET Tids
      BY <1>0, <2>2 DEF WaitingIn, GoodType
    <3>5. Cardinality(WaitingIn(st, list, cur, k - 1)) \in Nat
      BY <3>4, TidSets
    <3> QED BY <1>0, <1>2, <3>2, <3>3, <3>5
  <2> QED BY <1>0, <2>1, <2>2
<1>9. GoodCount(state', runningThreads', left)
  <2> DEFINE R == {t \in Tids : st[t] = "RUNNING"}
  <2>1. {t \in Tids : state'[t] = "RUNNING"} = R \cup W
    BY <1>1, <1>4, <1>5
  <2>2. {t \in Tids : state'[t] = "LEFT"} = {t \in Tids : st[t] = "LEFT"}
    BY <1>1, <1>4, <1>5
  <2>3. R \cap W = {} /\ R \in SUBSET Tids
    BY <1>1
  <2>4. Cardinality(R \cup W) = Cardinality(R) + Cardinality(W) - Cardinality(R \cap W)
    BY <1>2, <2>3, TidSets, FS_Union
  <2>5. Cardinality(R \cap W) = 0 /\ Cardinality(R) = run
    BY <2>3, FS_EmptySet DEF GoodCount
  <2>6. runningThreads' = Cardinality(R \cup W)
    <3> HIDE DEF R, W
    <3> QED BY <1>0, <1>2, <1>run, <2>4, <2>5
  <2>7. left = Cardinality({t \in Tids : st[t] = "LEFT"})
    BY DEF GoodCount
  <2> HIDE DEF R, W
  <2> QED BY <1>8, <2>1, <2>2, <2>6, <2>7 DEF GoodCount
<1>10. GoodPlace(state', lastIdx', runList', runListSize', curThreadIdx')
  <2>1. \A t \in Tids : state'[t] \in {"RUNNING", "LEFT"} =>
             lastIdx'[t] \in 0..(size - 1) /\ list[lastIdx'[t]] = t
    BY <1>0, <1>3, <1>4, <1>5 DEF GoodPlace
  <2>2. \A t \in Tids : state'[t] = "RUNNING" => lastIdx'[t] < k
    <3>1. \A t \in W : lastIdx'[t] < k
      BY <1>0, <1>3
    <3>2. \A t \in Tids \ W : state'[t] = "RUNNING" => last[t] \in Nat /\ last[t] < cur
      BY <1>4 DEF GoodPlace, GoodType
    <3> HIDE DEF W
    <3> QED BY <1>0, <1>4, <3>1, <3>2
  <2>3. ASSUME NEW i \in 0..(k - 1) PROVE lastIdx'[list[i]] = i
    <3>1. list[i] \in Tids /\ i \in 0..(size - 1)
      BY <1>0 DEF GoodType
    <3>2. CASE list[i] \in W
      <4>1. lastIdx'[list[i]] \in 0..(size - 1) /\ list[lastIdx'[list[i]]] = list[i]
        BY <1>0, <1>3, <3>2
      <4> QED BY <3>1, <4>1 DEF GoodList
    <3>3. CASE list[i] \notin W
      <4>1. CASE i < cur
        <5>1. i \in 0..(cur - 1)
          BY <1>0, <4>1
        <5> QED BY <1>4, <3>1, <3>3, <5>1 DEF GoodPlace
      <4>2. CASE i >= cur
        <5>1. i \in cur..(k - 1)
          BY <1>0, <4>2
        <5>2. st[list[i]] # "WAITING"
          BY <1>1, <3>1, <3>3, <5>1
        <5>3. st[list[i]] \in States /\ st[list[i]] # "OFFLINE"
          BY <3>1 DEF GoodType, GoodList
        <5>4. last[list[i]] \in 0..(size - 1) /\ list[last[list[i]]] = list[i]
          BY <3>1, <5>2, <5>3 DEF GoodPlace, States
        <5>5. last[list[i]] = i
          BY <3>1, <5>4 DEF GoodList
        <5> QED BY <1>4, <3>1, <3>3, <5>5
      <4> QED BY <1>0, <4>1, <4>2
    <3> QED BY <3>2, <3>3
  <2> QED BY <2>1, <2>2, <2>3 DEF GoodPlace
<1>11. GoodFutex(state', futexWord')
  BY <1>1, <1>4, <1>5 DEF GoodFutex, GoodType
<1>12. GoodSynced(state', runList', curThreadIdx', syn)
  <2>1. ASSUME NEW t \in syn
        PROVE  state'[t] = "WAITING" /\ \E i \in 0..(k - 1) : list[i] = t
    <3>1. PICK i \in 0..(cur - 1) : list[i] = t
      BY DEF GoodSynced
    <3>2. t \notin W
      BY <1>0, <1>1, <3>1 DEF GoodList, GoodType
    <3>3. i \in 0..(k - 1)
      BY <1>0
    <3> QED BY <1>4, <3>1, <3>2, <3>3 DEF GoodSynced, GoodType
  <2>2. ASSUME NEW i \in 0..(k - 1), state'[list[i]] = "WAITING"
        PROVE  list[i] \in syn
    <3>1. list[i] \in Tids \ W
      BY <1>0, <1>5, <2>2 DEF GoodType
    <3>2. st[list[i]] = "WAITING"
      BY <1>4, <2>2, <3>1
    <3>3. i \in 0..(cur - 1)
      BY <1>0, <1>1, <3>1, <3>2
    <3> QED BY <3>2, <3>3 DEF GoodSynced
  <2> QED BY <2>1, <2>2 DEF GoodSynced
<1>13. runningThreads' < parallelThreads => curThreadIdx' = runListSize'
  BY <1>0, <1>2 DEF LoopEndsAt
<1> QED BY <1>6, <1>7, <1>9, <1>10, <1>11, <1>12, <1>13

-----------------------------------------------------------------------------
(***************************************************************************)
(* The end of a phase starts the next one in a Good state: the rearranged  *)
(* run list is a list of the survivors, and the lastIdx of those who have  *)
(* left but stay on the list is their new place.                           *)
(***************************************************************************)

\* The values endPhase hands to checkRunList.
LEMMA NewPhaseGood ==
    ASSUME NEW st, NEW fw, NEW last, NEW list, NEW size, NEW cur, NEW left, NEW syn,
           Good(st, fw, last, list, size, cur, 0, left, syn),
           NEW n \in Nat, NEW new \in Bijection(0..(n - 1), Kept(st, list)),
           parallelThreads < n \/ \A i \in 0..(n - 1) : list[i] \in Kept(st, list) => new[i] = list[i],
           NEW last2 \in [Tids -> Nat],
           \A t \in Kept(st, list) :
               \E i \in 0..(n - 1) :
                  /\ new[i] = t
                  /\ last2[t] = IF new[i] # list[i] \/ (parallelThreads < n /\ i > 0) THEN i ELSE last[t]
    PROVE  Good(Offlined(st, Range(list) \ Kept(st, list)), fw, last2, new, n, 0, 0,
                IF phaseCount = 0 THEN 0 ELSE left, {})
<1> DEFINE kept == Kept(st, list)
           gone == Range(list) \ kept
           st2  == Offlined(st, gone)
           left2 == IF phaseCount = 0 THEN 0 ELSE left
<1>1. /\ st \in [Tids -> States] /\ fw \in [Tids -> {0, 1}] /\ size \in Nat
      /\ list \in [0..(size - 1) -> Tids] /\ left \in Nat
  BY DEF Good, GoodType
<1>2. Range(list) = {t \in Tids : st[t] # "OFFLINE"}
  <2>1. DOMAIN list = 0..(size - 1)
    BY <1>1
  <2> QED BY <1>1, <2>1 DEF Range, Good, GoodList
<1>3. /\ kept = {t \in Tids : st[t] # "OFFLINE" /\ ~(phaseCount = 0 /\ st[t] = "LEFT")}
      /\ gone = {t \in Tids : phaseCount = 0 /\ st[t] = "LEFT"}
  BY <1>2 DEF Kept
<1>4. /\ st2 \in [Tids -> States]
      /\ \A t \in gone : st2[t] = "OFFLINE"
      /\ \A t \in Tids \ gone : st2[t] = st[t]
  BY <1>1, <1>3 DEF Offlined, States
<1>5. /\ new \in [0..(n - 1) -> kept]
      /\ \A i, j \in 0..(n - 1) : new[i] = new[j] => i = j
      /\ \A t \in kept : \E i \in 0..(n - 1) : new[i] = t
  BY DEF Bijection, Injection, Surjection, IsInjective
<1> HIDE DEF kept, gone, st2
<1>6. GoodType(st2, fw, last2, new, n, 0, 0, left2, {})
  <2>1. new \in [0..(n - 1) -> Tids]
    BY <1>3, <1>5
  <2> QED BY <1>1, <1>4, <2>1 DEF GoodType
<1>7. GoodList(st2, new, n)
  <2>1. \A t \in Tids : st2[t] # "OFFLINE" <=> t \in kept
    BY <1>3, <1>4
  <2> QED BY <1>5, <2>1 DEF GoodList
<1>8. GoodCount(st2, 0, left2)
  <2>1. {t \in Tids : st2[t] = "RUNNING"} = {t \in Tids : st[t] = "RUNNING"}
    BY <1>3, <1>4
  <2>2. {t \in Tids : st2[t] = "LEFT"} = IF phaseCount = 0 THEN {} ELSE {t \in Tids : st[t] = "LEFT"}
    BY <1>3, <1>4
  <2>3. left2 = Cardinality({t \in Tids : st2[t] = "LEFT"})
    BY <2>2, FS_EmptySet DEF Good, GoodCount
  <2> QED BY <2>1, <2>3 DEF Good, GoodCount
<1>9. GoodPlace(st2, last2, new, n, 0)
  <2>1. \A t \in Tids : st2[t] # "RUNNING"
    <3>1. Cardinality({t \in Tids : st2[t] = "RUNNING"}) = 0
      BY <1>8 DEF GoodCount
    <3>2. {t \in Tids : st2[t] = "RUNNING"} = {}
      BY <3>1, TidSets, FS_EmptySet
    <3> QED BY <3>2
  <2>2. ASSUME NEW t \in Tids, st2[t] = "LEFT"
        PROVE  last2[t] \in 0..(n - 1) /\ new[last2[t]] = t
    <3>1. t \in kept /\ st[t] = "LEFT" /\ phaseCount # 0
      BY <1>3, <1>4, <2>2
    <3>2. PICK i \in 0..(n - 1) :
             /\ new[i] = t
             /\ last2[t] = IF new[i] # list[i] \/ (parallelThreads < n /\ i > 0) THEN i ELSE last[t]
      BY <3>1 DEF kept
    <3>3. CASE new[i] # list[i] \/ (parallelThreads < n /\ i > 0)
      BY <3>2, <3>3
    <3>4. CASE ~(new[i] # list[i] \/ (parallelThreads < n /\ i > 0))
      <4>1. last2[t] = last[t] /\ list[i] = t
        BY <3>2, <3>4
      <4>2. last[t] \in 0..(size - 1) /\ list[last[t]] = t
        BY <3>1 DEF Good, GoodPlace
      <4>3. i \in 0..(size - 1)
        <5>1. Cardinality(0..(n - 1)) = n /\ Cardinality(0..(size - 1)) = size
          BY <1>1, IdxCount
        <5>2. kept = {u \in Tids : st[u] # "OFFLINE"}
          BY <1>3, <3>1
        <5>3. list \in Bijection(0..(size - 1), kept) /\ new \in Bijection(0..(n - 1), kept)
          BY <1>1, <1>5, <5>2 DEF Good, GoodList, Bijection, Injection, Surjection, IsInjective
        <5>4. IsFiniteSet(0..(n - 1)) /\ IsFiniteSet(0..(size - 1))
          BY <1>1, IdxCount
        <5>5. Cardinality(kept) = n /\ Cardinality(kept) = size
          BY <5>1, <5>3, <5>4, FS_Bijection DEF ExistsBijection
        <5> QED BY <5>5
      <4>4. last[t] = i
        BY <4>1, <4>2, <4>3 DEF Good, GoodList
      <4> QED BY <3>2, <4>1, <4>4
    <3> QED BY <3>3, <3>4
  <2> QED BY <2>1, <2>2 DEF GoodPlace
<1>10. GoodFutex(st2, fw)
  BY <1>3, <1>4 DEF Good, GoodFutex
<1>11. GoodSynced(st2, new, 0, {})
  BY DEF GoodSynced
<1> QED BY <1>6, <1>7, <1>8, <1>9, <1>10, <1>11 DEF Good, kept, gone, st2

\* The end of a phase starts the next one in a good state.
LEMMA EndPhaseGood ==
    ASSUME NEW st, NEW fw, NEW last, NEW list, NEW size, NEW cur, NEW left, NEW syn,
           Good(st, fw, last, list, size, cur, 0, left, syn),
           endPhase(st, fw, last, list, size, left)
    PROVE  /\ Good(state', futexWord', lastIdx', runList', runListSize', curThreadIdx',
                   runningThreads', leftThreads', synced')
           /\ runningThreads' < parallelThreads => curThreadIdx' = runListSize'
           /\ synced' = {} /\ phaseCount' = NextPhase(phaseCount)
<1> DEFINE kept     == Kept(st, list)
           gone     == Range(list) \ kept
           n        == Cardinality(kept)
<1>1. PICK new \in Bijection(0..(n - 1), kept), junk \in [gone -> 0..(size - 1)] :
          /\ \/ parallelThreads < n
             \/ \A i \in 0..(n - 1) : list[i] \in kept => new[i] = list[i]
          /\ LET last2 == [t \in Tids |->
                             IF t \in kept
                             THEN LET i == CHOOSE i \in 0..(n - 1) : new[i] = t
                                  IN  IF new[i] # list[i] \/ (parallelThreads < n /\ i > 0) THEN i ELSE last[t]
                             ELSE IF t \in gone THEN junk[t] ELSE last[t]]
             IN  checkRunList(Offlined(st, gone), fw, last2, new, n, Rewound(n), 0)
          /\ leftThreads' = IF phaseCount = 0 THEN 0 ELSE left
          /\ phaseCount' = NextPhase(phaseCount)
          /\ synced' = {}
  BY DEF endPhase
<1> DEFINE place(t) == CHOOSE i \in 0..(n - 1) : new[i] = t
           placed(t, i) == IF new[i] # list[i] \/ (parallelThreads < n /\ i > 0) THEN i ELSE last[t]
           last2 == [t \in Tids |-> IF t \in kept THEN placed(t, place(t))
                                    ELSE IF t \in gone THEN junk[t] ELSE last[t]]
<1>2. checkRunList(Offlined(st, gone), fw, last2, new, n, 0, 0)
  BY <1>1 DEF Rewound
<1>3. /\ size \in Nat /\ list \in [0..(size - 1) -> Tids] /\ last \in [Tids -> Nat]
  BY DEF Good, GoodType
<1>4. kept \in SUBSET Tids
  BY <1>3 DEF Kept, Range
<1>5. n \in Nat
  BY <1>4, TidSets
<1>6. new \in Bijection(0..(n - 1), kept)
  BY <1>1
<1>7. \A t \in kept : place(t) \in 0..(n - 1) /\ new[place(t)] = t
  <2>1. \A t \in kept : \E i \in 0..(n - 1) : new[i] = t
    BY <1>6 DEF Bijection, Surjection
  <2> QED BY <2>1
<1>8. \A t \in kept : last2[t] = placed(t, place(t))
  BY <1>4
<1>9. last2 \in [Tids -> Nat]
  <2>1. \A t \in kept : placed(t, place(t)) \in Nat
    BY <1>3, <1>4, <1>5, <1>7
  <2>2. \A t \in gone : junk[t] \in Nat
    BY <1>1, <1>3
  <2>3. \A t \in Tids : last[t] \in Nat
    BY <1>3
  <2> HIDE DEF kept, gone, n, place, placed
  <2> QED BY <2>1, <2>2, <2>3
<1>10. \A t \in kept : \E i \in 0..(n - 1) : new[i] = t /\ last2[t] = placed(t, i)
  <2> HIDE DEF kept, n, place, placed, last2
  <2> QED BY <1>7, <1>8
<1>11. parallelThreads < n \/ \A i \in 0..(n - 1) : list[i] \in kept => new[i] = list[i]
  BY <1>1
<1>12. Good(Offlined(st, gone), fw, last2, new, n, 0, 0, IF phaseCount = 0 THEN 0 ELSE left, {})
  <2> HIDE DEF n, last2, place
  <2> QED BY <1>5, <1>6, <1>9, <1>10, <1>11, NewPhaseGood
<1>13. /\ Good(state', futexWord', lastIdx', runList', runListSize', curThreadIdx',
               runningThreads', IF phaseCount = 0 THEN 0 ELSE left, {})
       /\ runningThreads' < parallelThreads => curThreadIdx' = runListSize'
  <2> HIDE DEF n, last2, place, gone
  <2> QED BY <1>2, <1>12, CheckRunListGood
<1> QED BY <1>1, <1>13

-----------------------------------------------------------------------------
(***************************************************************************)
(* tryWakeNext re-establishes the invariant from Good arguments.           *)
(***************************************************************************)

\* Everybody on the list has left when leftThreads is the list's size.
LEMMA AllLeft ==
    ASSUME NEW st, NEW list, NEW size \in Nat, list \in [0..(size - 1) -> Tids],
           GoodList(st, list, size),
           Cardinality({t \in Tids : st[t] = "LEFT"}) = size
    PROVE  \A t \in Tids : st[t] \in {"LEFT", "OFFLINE"}
<1> DEFINE L == {t \in Tids : st[t] = "LEFT"}
           On == {t \in Tids : st[t] # "OFFLINE"}
<1>1. list \in Bijection(0..(size - 1), On)
  BY DEF GoodList, Bijection, Injection, Surjection, IsInjective
<1>2. IsFiniteSet(On) /\ Cardinality(On) = size
  <2>1. ExistsBijection(0..(size - 1), On)
    BY <1>1 DEF ExistsBijection
  <2>2. IsFiniteSet(0..(size - 1)) /\ Cardinality(0..(size - 1)) = size
    BY IdxCount
  <2> QED BY <2>1, <2>2, FS_Bijection
<1>3. L \in SUBSET On
  OBVIOUS
<1>4. L = On
  BY <1>2, <1>3, FS_Subset
<1> QED BY <1>4

\* tryWakeNext(): the loop, and the end of the phase if it comes to it.
LEMMA TryWakeNextGood ==
    ASSUME NEW st, NEW fw, NEW last, NEW list, NEW size, NEW cur, NEW run, NEW left, NEW syn,
           Good(st, fw, last, list, size, cur, run, left, syn),
           phaseCount \in 0..(CleanupPeriod - 1),
           tryWakeNext(st, fw, last, list, size, cur, run, left, syn)
    PROVE  /\ IInv'
           /\ \/ phaseCount' = phaseCount /\ synced' = syn
              \/ /\ phaseCount' # phaseCount /\ synced' = {}
                 /\ run = 0
                 /\ \A t \in Tids : st[t] = "WAITING" => t \in syn
<1>0. /\ size \in Nat /\ cur \in 0..size /\ list \in [0..(size - 1) -> Tids]
      /\ parallelThreads \in Nat \ {0} /\ CleanupPeriod \in Nat \ {0, 1}
  BY BarrierAssumption DEF Good, GoodType
<1>1. CASE /\ checkRunList(st, fw, last, list, size, cur, run)
           /\ ~(curThreadIdx' = size /\ runningThreads' = 0 /\ left # size)
           /\ leftThreads' = left
           /\ synced' = syn
           /\ UNCHANGED phaseCount
  <2>1. /\ Good(state', futexWord', lastIdx', runList', runListSize', curThreadIdx',
                runningThreads', leftThreads', synced')
        /\ runningThreads' < parallelThreads => curThreadIdx' = runListSize'
        /\ runListSize' = size
    BY <1>1, CheckRunListGood
  <2>2. runningThreads' = 0 => \A t \in Tids : state'[t] # "WAITING"
    <3> SUFFICES ASSUME runningThreads' = 0 PROVE \A t \in Tids : state'[t] # "WAITING"
      OBVIOUS
    <3>1. left = size
      BY <1>0, <1>1, <2>1
    <3>2. Cardinality({t \in Tids : state'[t] = "LEFT"}) = size
      BY <1>1, <2>1, <3>1 DEF Good, GoodCount
    <3>3. GoodList(state', runList', size) /\ runList' \in [0..(size - 1) -> Tids]
      BY <2>1 DEF Good, GoodType
    <3>4. \A t \in Tids : state'[t] \in {"LEFT", "OFFLINE"}
      BY <1>0, <3>2, <3>3, AllLeft
    <3> QED BY <3>4
  <2>3. NoLostWakeup'
    <3>1. runningThreads' < parallelThreads => \A i \in curThreadIdx'..(runListSize' - 1) : FALSE
      BY <1>0, <2>1
    <3> QED BY <2>2, <3>1 DEF NoLostWakeup, In
  <2> QED BY <1>1, <2>1, <2>3 DEF IInv
<1>2. CASE /\ run = 0
           /\ WaitingIn(st, list, cur, size) = {}
           /\ left # size
           /\ endPhase(st, fw, last, list, size, left)
  <2>1. /\ Good(state', futexWord', lastIdx', runList', runListSize', curThreadIdx',
                runningThreads', leftThreads', synced')
        /\ runningThreads' < parallelThreads => curThreadIdx' = runListSize'
        /\ synced' = {} /\ phaseCount' = NextPhase(phaseCount)
    BY <1>2, EndPhaseGood
  <2>2. phaseCount' \in 0..(CleanupPeriod - 1) /\ phaseCount' # phaseCount
    <3>1. (phaseCount + 1 < CleanupPeriod) \/ (phaseCount + 1 = CleanupPeriod)
      BY <1>0
    <3>2. CASE phaseCount + 1 < CleanupPeriod
      BY <1>0, <2>1, <3>2 DEF NextPhase
    <3>3. CASE phaseCount + 1 = CleanupPeriod
      BY <1>0, <2>1, <3>3 DEF NextPhase
    <3> QED BY <3>1, <3>2, <3>3
  <2>3. runningThreads' = 0 => \A t \in Tids : state'[t] # "WAITING"
    <3> SUFFICES ASSUME runningThreads' = 0, NEW t \in Tids, state'[t] = "WAITING" PROVE FALSE
      OBVIOUS
    <3>1. curThreadIdx' = runListSize'
      BY <1>0, <2>1
    <3>2. PICK i \in 0..(runListSize' - 1) : runList'[i] = t
      BY <2>1 DEF Good, GoodList
    <3>3. t \in synced'
      BY <2>1, <3>1, <3>2 DEF Good, GoodSynced
    <3> QED BY <2>1, <3>3
  <2>4. NoLostWakeup'
    <3>0. runListSize' \in Nat
      BY <2>1 DEF Good, GoodType
    <3>1. runningThreads' < parallelThreads => \A i \in curThreadIdx'..(runListSize' - 1) : FALSE
      <4> SUFFICES ASSUME runningThreads' < parallelThreads,
                          NEW i \in curThreadIdx'..(runListSize' - 1)
                   PROVE  FALSE
        OBVIOUS
      <4>1. curThreadIdx' = runListSize'
        BY <2>1
      <4>2. \A n \in Nat : n..(n - 1) = {}
        OBVIOUS
      <4>3. curThreadIdx'..(runListSize' - 1) = {}
        BY <3>0, <4>1, <4>2
      <4> QED BY <4>3
    <3> QED BY <2>3, <3>1 DEF NoLostWakeup, In
  <2>5. ASSUME NEW t \in Tids, st[t] = "WAITING" PROVE t \in syn
    <3>1. PICK i \in 0..(size - 1) : list[i] = t
      BY <2>5 DEF Good, GoodList
    <3>2. i \notin cur..(size - 1)
      BY <1>2, <2>5, <3>1 DEF WaitingIn
    <3>3. i \in 0..(cur - 1)
      BY <1>0, <3>2
    <3> QED BY <2>5, <3>1, <3>3 DEF Good, GoodSynced
  <2> QED BY <1>2, <2>1, <2>2, <2>4, <2>5 DEF IInv
<1> QED BY <1>1, <1>2 DEF tryWakeNext

-----------------------------------------------------------------------------
(***************************************************************************)
(* Each operation hands Good values to tryWakeNext.                        *)
(***************************************************************************)

\* The invariant holds initially.
LEMMA InitIInv == Init => IInv
<1> SUFFICES ASSUME Init PROVE IInv
  OBVIOUS
<1>1. {t \in Tids : state[t] = "RUNNING"} = {} /\ {t \in Tids : state[t] = "LEFT"} = {}
  BY DEF Init
<1>2. Cardinality({}) = 0
  BY FS_EmptySet
<1>3. GoodType(state, futexWord, lastIdx, runList, runListSize, curThreadIdx,
               runningThreads, leftThreads, synced)
  <2>1. lastIdx \in [Tids -> Nat]
    BY BarrierAssumption DEF Init
  <2>2. state \in [Tids -> States] /\ futexWord \in [Tids -> {0, 1}]
    BY DEF Init, States
  <2>3. /\ runListSize = 0 /\ curThreadIdx = 0 /\ runningThreads = 0 /\ leftThreads = 0
        /\ synced = {} /\ runList \in [0..(runListSize - 1) -> Tids]
    BY DEF Init
  <2> QED BY <2>1, <2>2, <2>3 DEF GoodType
<1>4. GoodCount(state, runningThreads, leftThreads)
  <2>1. runningThreads = 0 /\ leftThreads = 0
    BY DEF Init
  <2>2. 0 <= parallelThreads
    BY BarrierAssumption
  <2> QED BY <1>1, <1>2, <2>1, <2>2 DEF GoodCount
<1>5. GoodList(state, runList, runListSize)
  BY DEF Init, GoodList
<1>6. GoodPlace(state, lastIdx, runList, runListSize, curThreadIdx)
  BY DEF Init, GoodPlace
<1>7. GoodFutex(state, futexWord) /\ GoodSynced(state, runList, curThreadIdx, synced)
  BY DEF Init, GoodFutex, GoodSynced
<1>8. NoLostWakeup
  BY DEF Init, NoLostWakeup, In
<1> QED BY <1>3, <1>4, <1>5, <1>6, <1>7, <1>8, BarrierAssumption DEF IInv, Good, Init

\* join() of a participant that is not in the list.
LEMMA JoinOfflineStep ==
    ASSUME IInv, NEW t \in Tids, JoinOffline(t)
    PROVE  IInv' /\ phaseCount' = phaseCount /\ synced' = synced
<1> DEFINE st   == [state EXCEPT ![t] = "WAITING"]
           fw   == [futexWord EXCEPT ![t] = 1]
           list == [i \in 0..runListSize |-> IF i = runListSize THEN t ELSE runList[i]]
           size == runListSize + 1
<1>1. /\ state \in [Tids -> States] /\ futexWord \in [Tids -> {0, 1}] /\ runListSize \in Nat
      /\ runList \in [0..(runListSize - 1) -> Tids] /\ curThreadIdx \in 0..runListSize
      /\ state[t] = "OFFLINE"
  BY DEF IInv, Good, GoodType, JoinOffline
<1>2. /\ st \in [Tids -> States] /\ st[t] = "WAITING"
      /\ \A u \in Tids \ {t} : st[u] = state[u]
  BY <1>1 DEF States
<1>3. /\ list \in [0..(size - 1) -> Tids] /\ list[runListSize] = t
      /\ \A i \in 0..(runListSize - 1) : list[i] = runList[i] /\ list[i] # t
      /\ \A i \in 0..(size - 1) : i = runListSize \/ i \in 0..(runListSize - 1)
  BY <1>1 DEF IInv, Good, GoodList
<1>4. GoodType(st, fw, lastIdx, list, size, curThreadIdx, runningThreads, leftThreads, synced)
  BY <1>1, <1>2, <1>3 DEF IInv, Good, GoodType
<1>5. GoodList(st, list, size)
  <2> HIDE DEF list, st
  <2>1. \A i, j \in 0..(size - 1) : list[i] = list[j] => i = j
    BY <1>1, <1>3 DEF IInv, Good, GoodList
  <2>2. ASSUME NEW u \in Tids PROVE st[u] # "OFFLINE" <=> \E i \in 0..(size - 1) : list[i] = u
    <3>1. CASE u = t
      <4>1. runListSize \in 0..(size - 1)
        BY <1>1
      <4> QED BY <1>2, <1>3, <3>1, <4>1
    <3>2. CASE u # t
      <4>1. st[u] # "OFFLINE" <=> \E i \in 0..(runListSize - 1) : runList[i] = u
        BY <1>2, <3>2 DEF IInv, Good, GoodList
      <4>2. \A i \in 0..(runListSize - 1) : i \in 0..(size - 1)
        BY <1>1
      <4> QED BY <1>3, <3>2, <4>1, <4>2
    <3> QED BY <3>1, <3>2
  <2> QED BY <2>1, <2>2 DEF GoodList
<1>6. GoodCount(st, runningThreads, leftThreads)
  <2>1. /\ {u \in Tids : st[u] = "RUNNING"} = {u \in Tids : state[u] = "RUNNING"}
        /\ {u \in Tids : st[u] = "LEFT"} = {u \in Tids : state[u] = "LEFT"}
    BY <1>1, <1>2
  <2> QED BY <2>1 DEF IInv, Good, GoodCount
<1>7. GoodPlace(st, lastIdx, list, size, curThreadIdx)
  <2> HIDE DEF list, st
  <2>1. \A i \in 0..(curThreadIdx - 1) : i \in 0..(runListSize - 1)
    BY <1>1
  <2>2. \A i \in 0..(runListSize - 1) : i \in 0..(size - 1)
    BY <1>1
  <2> QED BY <1>2, <1>3, <2>1, <2>2 DEF IInv, Good, GoodPlace
<1>8. GoodFutex(st, fw)
  BY <1>1, <1>2 DEF IInv, Good, GoodFutex
<1>9. GoodSynced(st, list, curThreadIdx, synced)
  <2> HIDE DEF list, st
  <2>1. \A i \in 0..(curThreadIdx - 1) : i \in 0..(runListSize - 1)
    BY <1>1
  <2>2. t \notin synced /\ synced \subseteq Tids
    BY <1>1 DEF IInv, Good, GoodSynced, GoodType
  <2>3. \A u \in synced : st[u] = "WAITING" /\ \E i \in 0..(curThreadIdx - 1) : list[i] = u
    BY <1>2, <1>3, <2>1, <2>2 DEF IInv, Good, GoodSynced
  <2>4. \A i \in 0..(curThreadIdx - 1) : st[list[i]] = "WAITING" => list[i] \in synced
    BY <1>1, <1>2, <1>3, <2>1 DEF IInv, Good, GoodSynced
  <2> QED BY <2>3, <2>4 DEF GoodSynced
<1>10. Good(st, fw, lastIdx, list, size, curThreadIdx, runningThreads, leftThreads, synced)
  BY <1>4, <1>5, <1>6, <1>7, <1>8, <1>9 DEF Good
<1>11. tryWakeNext(st, fw, lastIdx, list, size, curThreadIdx, runningThreads, leftThreads, synced)
  BY DEF JoinOffline
<1>12. t \notin synced
  BY <1>1 DEF IInv, Good, GoodSynced
<1> HIDE DEF st, fw, list, size
<1>13. phaseCount \in 0..(CleanupPeriod - 1)
  BY DEF IInv
<1> QED BY <1>2, <1>10, <1>11, <1>12, <1>13, TryWakeNextGood

\* The exchange of a same-phase rejoin, with the places it touches.
LEMMA ExchangeGood ==
    ASSUME IInv, NEW t \in Tids, state[t] = "LEFT", Passed(t),
           NEW cur, cur = curThreadIdx - 1
    PROVE  /\ Exchanged(t, cur) \in [0..(runListSize - 1) -> Tids]
           /\ ExchangedIdx(t, cur) \in [Tids -> Nat]
           /\ cur \in 0..runListSize
           /\ GoodList([state EXCEPT ![t] = "WAITING"], Exchanged(t, cur), runListSize)
           /\ GoodPlace([state EXCEPT ![t] = "WAITING"], ExchangedIdx(t, cur),
                        Exchanged(t, cur), runListSize, cur)
           /\ GoodSynced([state EXCEPT ![t] = "WAITING"], Exchanged(t, cur), cur, synced)
<1> DEFINE st    == [state EXCEPT ![t] = "WAITING"]
           list  == Exchanged(t, cur)
           last  == ExchangedIdx(t, cur)
           l     == lastIdx[t]
           other == runList[cur]
           I     == 0..(runListSize - 1)
<1>1. /\ state \in [Tids -> States] /\ runListSize \in Nat /\ lastIdx \in [Tids -> Nat]
      /\ runList \in [I -> Tids] /\ curThreadIdx \in 0..runListSize
      /\ synced \subseteq Tids
  BY DEF IInv, Good, GoodType
<1>2. l \in I /\ runList[l] = t /\ l < curThreadIdx
  BY <1>1 DEF IInv, Good, GoodPlace, Passed
<1>3. cur \in I /\ cur \in Nat /\ l <= cur /\ other \in Tids
  BY <1>1, <1>2
<1>4. /\ list \in [I -> Tids] /\ list[cur] = t /\ list[l] = IF l = cur THEN t ELSE other
      /\ \A i \in I \ {l, cur} : list[i] = runList[i]
  BY <1>1, <1>2, <1>3 DEF Exchanged
<1>5. /\ last \in [Tids -> Nat] /\ last[t] = cur
      /\ other # t => last[other] = l
      /\ \A u \in Tids \ {t, other} : last[u] = lastIdx[u]
  BY <1>1, <1>2, <1>3 DEF ExchangedIdx
<1>6. st[t] = "WAITING" /\ \A u \in Tids \ {t} : st[u] = state[u]
  BY <1>1
<1>7. \A i, j \in I : runList[i] = runList[j] => i = j
  BY DEF IInv, Good, GoodList
<1>8. (other = t) <=> (l = cur)
  BY <1>2, <1>3, <1>7
<1>a. \A i \in 0..(curThreadIdx - 1) : i \in I /\ lastIdx[runList[i]] = i
  <2>1. \A i \in 0..(curThreadIdx - 1) : i \in I
    BY <1>1
  <2> QED BY <2>1 DEF IInv, Good, GoodPlace
<1>b. \A i \in 0..(cur - 1) : i \in 0..(curThreadIdx - 1) /\ i # cur
  BY <1>1, <1>3
<1> HIDE DEF st, list, last, l, other, I
<1>9. GoodList(st, list, runListSize)
  <2>1. \A i, j \in I : list[i] = list[j] => i = j
    BY <1>2, <1>3, <1>4, <1>7, <1>8 DEF other
  <2>2. \A u \in Tids : st[u] # "OFFLINE" <=> \E i \in I : runList[i] = u
    <3>1. \A u \in Tids : state[u] # "OFFLINE" <=> \E i \in I : runList[i] = u
      BY DEF IInv, Good, GoodList, I
    <3> QED BY <1>2, <1>6, <3>1
  <2>3. \A u \in Tids : (\E i \in I : runList[i] = u) <=> \E i \in I : list[i] = u
    <3> SUFFICES ASSUME NEW u \in Tids
                 PROVE  (\E i \in I : runList[i] = u) <=> \E i \in I : list[i] = u
      OBVIOUS
    <3>1. ASSUME NEW i \in I, runList[i] = u PROVE \E j \in I : list[j] = u
      <4>1. CASE i = l
        BY <1>2, <1>3, <1>4, <3>1, <4>1
      <4>2. CASE i = cur
        BY <1>2, <1>3, <1>4, <1>8, <3>1, <4>2 DEF other
      <4>3. CASE i \in I \ {l, cur}
        BY <1>4, <3>1, <4>3
      <4> QED BY <4>1, <4>2, <4>3
    <3>2. ASSUME NEW i \in I, list[i] = u PROVE \E j \in I : runList[j] = u
      <4>1. CASE i = cur
        BY <1>2, <1>4, <3>2, <4>1
      <4>2. CASE i = l
        BY <1>2, <1>3, <1>4, <3>2, <4>2 DEF other
      <4>3. CASE i \in I \ {l, cur}
        BY <1>4, <3>2, <4>3
      <4> QED BY <4>1, <4>2, <4>3
    <3> QED BY <3>1, <3>2
  <2> QED BY <2>1, <2>2, <2>3 DEF GoodList, I
<1>10. GoodPlace(st, last, list, runListSize, cur)
  <2>1. ASSUME NEW u \in Tids, st[u] \in {"RUNNING", "LEFT"}
        PROVE  /\ last[u] \in I /\ list[last[u]] = u
               /\ st[u] = "RUNNING" => last[u] < cur
    <3>1. u # t /\ state[u] = st[u]
      BY <1>6, <2>1
    <3>2. /\ lastIdx[u] \in I /\ runList[lastIdx[u]] = u
          /\ state[u] = "RUNNING" => lastIdx[u] < curThreadIdx
      BY <2>1, <3>1 DEF IInv, Good, GoodPlace, I
    <3>3. CASE u = other
      <4>1. last[u] = l /\ l # cur /\ list[l] = u
        BY <1>4, <1>5, <1>8, <3>1, <3>3
      <4>2. l < cur
        BY <1>2, <1>3, <4>1 DEF I
      <4> QED BY <1>2, <4>1, <4>2
    <3>4. CASE u # other
      <4>1. last[u] = lastIdx[u]
        BY <1>5, <3>1, <3>4
      <4>2. lastIdx[u] # cur /\ lastIdx[u] # l
        BY <1>2, <3>1, <3>2, <3>4 DEF other
      <4>3. list[lastIdx[u]] = u
        BY <1>4, <3>2, <4>2
      <4>4. lastIdx[u] < curThreadIdx => lastIdx[u] < cur
        BY <1>1, <1>3, <3>2, <4>2, SMTT(30) DEF I
      <4> QED BY <3>1, <3>2, <4>1, <4>3, <4>4
    <3> QED BY <3>3, <3>4
  <2>2. ASSUME NEW i \in 0..(cur - 1) PROVE last[list[i]] = i
    <3>1. i \in I /\ lastIdx[runList[i]] = i /\ i # cur
      BY <1>a, <1>b
    <3>2. CASE i = l
      <4>1. l # cur /\ list[i] = other /\ other # t
        BY <1>4, <1>8, <3>1, <3>2
      <4> QED BY <1>5, <3>2, <4>1
    <3>3. CASE i # l
      <4>1. list[i] = runList[i] /\ runList[i] \in Tids
        BY <1>1, <1>4, <3>1, <3>3
      <4>2. runList[i] # t /\ runList[i] # other
        BY <1>2, <1>3, <1>7, <3>1, <3>3 DEF other
      <4> QED BY <1>5, <3>1, <4>1, <4>2
    <3> QED BY <3>2, <3>3
  <2> QED BY <2>1, <2>2 DEF GoodPlace, I
<1>11. GoodSynced(st, list, cur, synced)
  <2>1. ASSUME NEW u \in synced
        PROVE  st[u] = "WAITING" /\ \E i \in 0..(cur - 1) : list[i] = u
    <3>1. state[u] = "WAITING" /\ u # t /\ u \in Tids
      BY <1>1, <2>1 DEF IInv, Good, GoodSynced
    <3>2. PICK i \in 0..(curThreadIdx - 1) : runList[i] = u
      BY DEF IInv, Good, GoodSynced
    <3>3. i \in I /\ i # l
      BY <1>2, <1>a, <3>1, <3>2
    <3>4. CASE i = cur
      <4>1. other = u /\ l # cur
        BY <1>8, <3>1, <3>2, <3>4 DEF other
      <4>2. l \in 0..(cur - 1) /\ list[l] = u
        BY <1>2, <1>3, <1>4, <4>1 DEF I
      <4> QED BY <1>6, <3>1, <4>2
    <3>5. CASE i # cur
      <4>1. list[i] = u
        BY <1>4, <3>2, <3>3, <3>5
      <4>2. i \in 0..(cur - 1)
        BY <1>1, <1>3, <3>5
      <4> QED BY <1>6, <3>1, <4>1, <4>2
    <3> QED BY <3>4, <3>5
  <2>2. ASSUME NEW i \in 0..(cur - 1), st[list[i]] = "WAITING"
        PROVE  list[i] \in synced
    <3>1. i \in I /\ i # cur
      BY <1>a, <1>b
    <3>2. CASE i = l
      <4>1. list[i] = other /\ other # t /\ cur \in 0..(curThreadIdx - 1)
        BY <1>1, <1>3, <1>4, <1>8, <3>1, <3>2
      <4>2. state[other] = "WAITING"
        BY <1>3, <1>6, <2>2, <4>1
      <4> QED BY <4>1, <4>2 DEF IInv, Good, GoodSynced, other
    <3>3. CASE i # l
      <4>1. list[i] = runList[i] /\ runList[i] \in Tids /\ runList[i] # t
        BY <1>1, <1>2, <1>4, <1>7, <3>1, <3>3
      <4>2. state[runList[i]] = "WAITING" /\ i \in 0..(curThreadIdx - 1)
        BY <1>6, <1>b, <2>2, <4>1
      <4> QED BY <4>1, <4>2 DEF IInv, Good, GoodSynced
    <3> QED BY <3>2, <3>3
  <2> QED BY <2>1, <2>2 DEF GoodSynced
<1>12. cur \in 0..runListSize
  BY <1>1, <1>3 DEF I
<1> QED BY <1>4, <1>5, <1>9, <1>10, <1>11, <1>12 DEF st, list, last, I

\* One participant leaves a set counted by the barrier, or enters it.
LEMMA CountOut ==
    ASSUME NEW S \in SUBSET Tids, NEW t \in S
    PROVE  Cardinality(S) - 1 \in Nat /\ Cardinality(S \ {t}) = Cardinality(S) - 1
<1>1. IsFiniteSet(S) /\ Cardinality(S) \in Nat
  BY TidSets
<1>2. Cardinality(S \ {t}) = Cardinality(S) - 1
  BY <1>1, FS_RemoveElement
<1>3. Cardinality(S \ {t}) \in Nat
  BY TidSets
<1> QED BY <1>1, <1>2, <1>3

\* One more participant is one more in the counter.
LEMMA CountIn ==
    ASSUME NEW S \in SUBSET Tids, NEW t \in Tids \ S
    PROVE  Cardinality(S) + 1 \in Nat /\ Cardinality(S \cup {t}) = Cardinality(S) + 1
BY TidSets, FS_AddElement

\* join() of a participant that is still in the list.
LEMMA JoinLeftStep ==
    ASSUME IInv, NEW t \in Tids, JoinLeft(t)
    PROVE  IInv' /\ phaseCount' = phaseCount /\ synced' = synced
<1> DEFINE st   == [state EXCEPT ![t] = "WAITING"]
           fw   == [futexWord EXCEPT ![t] = 1]
           cur  == IF Passed(t) THEN curThreadIdx - 1 ELSE curThreadIdx
           last == IF Passed(t) THEN ExchangedIdx(t, cur) ELSE lastIdx
           list == IF Passed(t) THEN Exchanged(t, cur) ELSE runList
           left == leftThreads - 1
<1>1. /\ state \in [Tids -> States] /\ futexWord \in [Tids -> {0, 1}] /\ runListSize \in Nat
      /\ lastIdx \in [Tids -> Nat] /\ runningThreads \in Nat /\ synced \subseteq Tids
      /\ runList \in [0..(runListSize - 1) -> Tids] /\ curThreadIdx \in 0..runListSize
      /\ state[t] = "LEFT"
  BY DEF IInv, Good, GoodType, JoinLeft
<1>2. /\ st \in [Tids -> States] /\ st[t] = "WAITING"
      /\ \A u \in Tids \ {t} : st[u] = state[u]
      /\ fw \in [Tids -> {0, 1}]
  BY <1>1 DEF States
<1>3. /\ list \in [0..(runListSize - 1) -> Tids] /\ last \in [Tids -> Nat]
      /\ cur \in 0..runListSize
      /\ GoodList(st, list, runListSize)
      /\ GoodPlace(st, last, list, runListSize, cur)
      /\ GoodSynced(st, list, cur, synced)
  <2>1. CASE Passed(t)
    BY <1>1, <2>1, ExchangeGood
  <2>2. CASE ~Passed(t)
    <3> HIDE DEF st
    <3>1. GoodList(st, runList, runListSize)
      <4>1. \A u \in Tids : st[u] # "OFFLINE" <=> state[u] # "OFFLINE"
        BY <1>1, <1>2
      <4> QED BY <4>1 DEF IInv, Good, GoodList
    <3>2. GoodPlace(st, lastIdx, runList, runListSize, curThreadIdx)
      BY <1>2 DEF IInv, Good, GoodPlace
    <3>3. \A i \in 0..(curThreadIdx - 1) : runList[i] # t /\ runList[i] \in Tids
      <4>1. \A i \in 0..(curThreadIdx - 1) : i \in 0..(runListSize - 1) /\ i < curThreadIdx
        BY <1>1
      <4>2. ~(lastIdx[t] < curThreadIdx)
        BY <1>1, <2>2 DEF Passed
      <4>3. \A i \in 0..(curThreadIdx - 1) : lastIdx[runList[i]] = i
        BY DEF IInv, Good, GoodPlace
      <4> QED BY <1>1, <4>1, <4>2, <4>3
    <3>4. GoodSynced(st, runList, curThreadIdx, synced)
      <4>1. \A u \in synced : u # t
        BY <1>1 DEF IInv, Good, GoodSynced
      <4> QED BY <1>1, <1>2, <3>3, <4>1 DEF IInv, Good, GoodSynced
    <3> QED BY <1>1, <2>2, <3>1, <3>2, <3>4
  <2> QED BY <2>1, <2>2
<1>4. left \in Nat /\ GoodCount(st, runningThreads, left)
  <2>1. /\ {u \in Tids : st[u] = "RUNNING"} = {u \in Tids : state[u] = "RUNNING"}
        /\ {u \in Tids : st[u] = "LEFT"} = {u \in Tids : state[u] = "LEFT"} \ {t}
        /\ t \in {u \in Tids : state[u] = "LEFT"}
    BY <1>1, <1>2
  <2>2. leftThreads = Cardinality({u \in Tids : state[u] = "LEFT"})
    BY DEF IInv, Good, GoodCount
  <2>3. left \in Nat /\ left = Cardinality({u \in Tids : st[u] = "LEFT"})
    BY <2>1, <2>2, CountOut
  <2> QED BY <2>1, <2>3 DEF IInv, Good, GoodCount
<1>5. GoodFutex(st, fw)
  BY <1>1, <1>2 DEF IInv, Good, GoodFutex
<1>6. Good(st, fw, last, list, runListSize, cur, runningThreads, left, synced)
  <2> HIDE DEF st, fw, last, list, cur, left
  <2> QED BY <1>1, <1>2, <1>3, <1>4, <1>5 DEF Good, GoodType
<1>7. tryWakeNext(st, fw, last, list, runListSize, cur, runningThreads, left, synced)
  BY DEF JoinLeft
<1>8. t \notin synced
  BY <1>1 DEF IInv, Good, GoodSynced
<1>9. phaseCount \in 0..(CleanupPeriod - 1)
  BY DEF IInv
<1> HIDE DEF st, fw, last, list, cur, left
<1> QED BY <1>2, <1>6, <1>7, <1>8, <1>9, TryWakeNextGood

\* When the counter says that nobody runs nobody does.
LEMMA NoneRunning ==
    ASSUME NEW st, Cardinality({u \in Tids : st[u] = "RUNNING"}) = 0
    PROVE  \A u \in Tids : st[u] # "RUNNING"
<1>1. PICK S \in SUBSET Tids : S = {u \in Tids : st[u] = "RUNNING"}
  OBVIOUS
<1>2. S = {}
  BY <1>1, TidSets, FS_EmptySet
<1> QED BY <1>1, <1>2

\* leave() and sync(): a running participant stops.  When that ends the phase,
\* nobody else runs, and everybody else who waits has synced.
LEMMA LeaveStep ==
    ASSUME IInv, NEW t \in Tids, Leave(t)
    PROVE  /\ IInv'
           /\ \/ phaseCount' = phaseCount /\ synced' = synced
              \/ /\ phaseCount' # phaseCount /\ synced' = {}
                 /\ \A u \in Tids : state[u] = "WAITING" => u \in synced
                 /\ \A u \in Tids : u # t => state[u] # "RUNNING"
<1> DEFINE st   == [state EXCEPT ![t] = "LEFT"]
           run  == runningThreads - 1
           left == leftThreads + 1
<1>1. /\ state \in [Tids -> States] /\ futexWord \in [Tids -> {0, 1}] /\ runListSize \in Nat
      /\ lastIdx \in [Tids -> Nat] /\ runningThreads \in Nat /\ synced \subseteq Tids
      /\ runList \in [0..(runListSize - 1) -> Tids] /\ curThreadIdx \in 0..runListSize
      /\ state[t] = "RUNNING"
  BY DEF IInv, Good, GoodType, Leave
<1>2. /\ st \in [Tids -> States] /\ st[t] = "LEFT"
      /\ \A u \in Tids \ {t} : st[u] = state[u]
  BY <1>1 DEF States
<1>3. run \in Nat /\ left \in Nat /\ GoodCount(st, run, left)
  <2>1. /\ {u \in Tids : st[u] = "RUNNING"} = {u \in Tids : state[u] = "RUNNING"} \ {t}
        /\ {u \in Tids : st[u] = "LEFT"} = {u \in Tids : state[u] = "LEFT"} \cup {t}
        /\ t \in {u \in Tids : state[u] = "RUNNING"}
        /\ t \in Tids \ {u \in Tids : state[u] = "LEFT"}
    BY <1>1, <1>2
  <2>2. /\ runningThreads = Cardinality({u \in Tids : state[u] = "RUNNING"})
        /\ leftThreads = Cardinality({u \in Tids : state[u] = "LEFT"})
        /\ runningThreads <= parallelThreads
    BY DEF IInv, Good, GoodCount
  <2>3. run \in Nat /\ run = Cardinality({u \in Tids : st[u] = "RUNNING"})
    BY <2>1, <2>2, CountOut
  <2>4. left \in Nat /\ left = Cardinality({u \in Tids : st[u] = "LEFT"})
    BY <2>1, <2>2, CountIn
  <2>5. run <= parallelThreads
    BY <1>1, <2>2, BarrierAssumption
  <2> QED BY <2>3, <2>4, <2>5 DEF GoodCount
<1> HIDE DEF st
<1>4. GoodList(st, runList, runListSize)
  <2>1. \A u \in Tids : st[u] # "OFFLINE" <=> state[u] # "OFFLINE"
    BY <1>1, <1>2
  <2> QED BY <2>1 DEF IInv, Good, GoodList
<1>5. GoodPlace(st, lastIdx, runList, runListSize, curThreadIdx)
  BY <1>1, <1>2 DEF IInv, Good, GoodPlace
<1>6. GoodFutex(st, futexWord)
  BY <1>2 DEF IInv, Good, GoodFutex
<1>7. GoodSynced(st, runList, curThreadIdx, synced)
  <2>1. \A u \in synced : u # t
    BY <1>1 DEF IInv, Good, GoodSynced
  <2>2. \A i \in 0..(curThreadIdx - 1) : runList[i] \in Tids
    BY <1>1
  <2> QED BY <1>1, <1>2, <2>1, <2>2 DEF IInv, Good, GoodSynced
<1>8. Good(st, futexWord, lastIdx, runList, runListSize, curThreadIdx, run, left, synced)
  <2> HIDE DEF run, left
  <2> QED BY <1>1, <1>2, <1>3, <1>4, <1>5, <1>6, <1>7 DEF Good, GoodType
<1>9. tryWakeNext(st, futexWord, lastIdx, runList, runListSize, curThreadIdx, run, left, synced)
  BY DEF Leave, st
<1>10. phaseCount \in 0..(CleanupPeriod - 1)
  BY DEF IInv
<1>11. \A u \in Tids : state[u] = "WAITING" => st[u] = "WAITING"
  BY <1>1, <1>2
<1>12. run = 0 => \A u \in Tids : u # t => state[u] # "RUNNING"
  <2>1. run = Cardinality({u \in Tids : st[u] = "RUNNING"})
    BY <1>3 DEF GoodCount
  <2> QED BY <1>2, <2>1, NoneRunning
<1> HIDE DEF run, left
<1> QED BY <1>8, <1>9, <1>10, <1>11, <1>12, TryWakeNextGood

\* sync().
LEMMA SyncStep ==
    ASSUME IInv, NEW t \in Tids, Sync(t)
    PROVE  /\ IInv'
           /\ \/ phaseCount' = phaseCount /\ synced' = synced \cup {t}
              \/ /\ phaseCount' # phaseCount /\ synced' = {}
                 /\ \A u \in Tids : state[u] = "WAITING" => u \in synced
                 /\ \A u \in Tids : u # t => state[u] # "RUNNING"
<1> DEFINE st   == [state EXCEPT ![t] = "WAITING"]
           fw   == [futexWord EXCEPT ![t] = 1]
           run  == runningThreads - 1
           syn  == synced \cup {t}
<1>1. /\ state \in [Tids -> States] /\ futexWord \in [Tids -> {0, 1}] /\ runListSize \in Nat
      /\ lastIdx \in [Tids -> Nat] /\ runningThreads \in Nat /\ synced \subseteq Tids
      /\ runList \in [0..(runListSize - 1) -> Tids] /\ curThreadIdx \in 0..runListSize
      /\ leftThreads \in Nat
      /\ state[t] = "RUNNING"
  BY DEF IInv, Good, GoodType, Sync
<1>2. /\ st \in [Tids -> States] /\ st[t] = "WAITING"
      /\ \A u \in Tids \ {t} : st[u] = state[u]
      /\ fw \in [Tids -> {0, 1}]
  BY <1>1 DEF States
<1>3. run \in Nat /\ GoodCount(st, run, leftThreads)
  <2>1. /\ {u \in Tids : st[u] = "RUNNING"} = {u \in Tids : state[u] = "RUNNING"} \ {t}
        /\ {u \in Tids : st[u] = "LEFT"} = {u \in Tids : state[u] = "LEFT"}
        /\ t \in {u \in Tids : state[u] = "RUNNING"}
    BY <1>1, <1>2
  <2>2. /\ runningThreads = Cardinality({u \in Tids : state[u] = "RUNNING"})
        /\ leftThreads = Cardinality({u \in Tids : state[u] = "LEFT"})
        /\ runningThreads <= parallelThreads
    BY DEF IInv, Good, GoodCount
  <2>3. run \in Nat /\ run = Cardinality({u \in Tids : st[u] = "RUNNING"})
    BY <2>1, <2>2, CountOut
  <2>4. run <= parallelThreads
    BY <1>1, <2>2, BarrierAssumption
  <2> QED BY <2>1, <2>2, <2>3, <2>4 DEF GoodCount
<1>4. GoodFutex(st, fw)
  BY <1>1, <1>2 DEF IInv, Good, GoodFutex
<1> HIDE DEF st
<1>5. GoodList(st, runList, runListSize)
  <2>1. \A u \in Tids : st[u] # "OFFLINE" <=> state[u] # "OFFLINE"
    BY <1>1, <1>2
  <2> QED BY <2>1 DEF IInv, Good, GoodList
<1>6. GoodPlace(st, lastIdx, runList, runListSize, curThreadIdx)
  BY <1>1, <1>2 DEF IInv, Good, GoodPlace
<1>7. GoodSynced(st, runList, curThreadIdx, syn)
  <2>1. lastIdx[t] \in 0..(curThreadIdx - 1) /\ runList[lastIdx[t]] = t
    BY <1>1 DEF IInv, Good, GoodPlace
  <2>2. \A i \in 0..(curThreadIdx - 1) : runList[i] \in Tids
    BY <1>1
  <2>3. \A u \in synced : state[u] = "WAITING" /\ \E i \in 0..(curThreadIdx - 1) : runList[i] = u
    BY DEF IInv, Good, GoodSynced
  <2>4. \A u \in syn : st[u] = "WAITING" /\ \E i \in 0..(curThreadIdx - 1) : runList[i] = u
    BY <1>1, <1>2, <2>1, <2>3
  <2>5. \A i \in 0..(curThreadIdx - 1) : st[runList[i]] = "WAITING" => runList[i] \in syn
    BY <1>2, <2>2 DEF IInv, Good, GoodSynced
  <2> QED BY <2>4, <2>5 DEF GoodSynced
<1>8. Good(st, fw, lastIdx, runList, runListSize, curThreadIdx, run, leftThreads, syn)
  <2> HIDE DEF run, fw
  <2> QED BY <1>1, <1>2, <1>3, <1>4, <1>5, <1>6, <1>7 DEF Good, GoodType
<1>9. tryWakeNext(st, fw, lastIdx, runList, runListSize, curThreadIdx, run, leftThreads, syn)
  BY DEF Sync, st
<1>10. phaseCount \in 0..(CleanupPeriod - 1)
  BY DEF IInv
<1>11. \A u \in Tids : state[u] = "WAITING" => st[u] = "WAITING" /\ u # t
  BY <1>1, <1>2
<1>12. run = 0 => \A u \in Tids : u # t => state[u] # "RUNNING"
  <2>1. run = Cardinality({u \in Tids : st[u] = "RUNNING"})
    BY <1>3 DEF GoodCount
  <2> QED BY <1>2, <2>1, NoneRunning
<1> HIDE DEF run, fw
<1> QED BY <1>8, <1>9, <1>10, <1>11, <1>12, TryWakeNextGood

-----------------------------------------------------------------------------
(***************************************************************************)
(* The theorems.                                                           *)
(***************************************************************************)

\* Nothing changes.
LEMMA StutterStep == IInv /\ UNCHANGED vars => IInv'
BY DEF vars, listVars, IInv, NoLostWakeup, In

\* What becomes of the state a of a participant that does nothing itself: it
\* is woken, or the cleanup drops it.
Moves(a, b) ==
    \/ b = a
    \/ a = "WAITING" /\ b = "RUNNING"
    \/ a = "LEFT" /\ b = "OFFLINE"

\* What tryWakeNext() does to the others.
LEMMA WakeMoves ==
    ASSUME NEW st, NEW u \in Tids,
           \E fw, last, list, size, cur, run, left, syn :
               tryWakeNext(st, fw, last, list, size, cur, run, left, syn)
    PROVE  Moves(st[u], state'[u])
<1>1. ASSUME NEW st2, NEW fw, NEW last, NEW list, NEW size, NEW cur, NEW run,
             checkRunList(st2, fw, last, list, size, cur, run)
      PROVE  \/ state'[u] = st2[u]
             \/ st2[u] = "WAITING" /\ state'[u] = "RUNNING"
  <2>1. PICK k \in cur..size :
           state' = [t \in Tids |-> IF t \in WaitingIn(st2, list, cur, k) THEN "RUNNING" ELSE st2[t]]
    BY <1>1 DEF checkRunList
  <2>2. u \in WaitingIn(st2, list, cur, k) => st2[u] = "WAITING"
    BY DEF WaitingIn
  <2>3. CASE u \in WaitingIn(st2, list, cur, k)
    BY <2>1, <2>2, <2>3
  <2>4. CASE u \notin WaitingIn(st2, list, cur, k)
    BY <2>1, <2>4
  <2> QED BY <2>3, <2>4
<1>2. PICK fw, last, list, size, cur, run, left, syn :
          tryWakeNext(st, fw, last, list, size, cur, run, left, syn)
  OBVIOUS
<1>3. CASE checkRunList(st, fw, last, list, size, cur, run)
  BY <1>1, <1>3 DEF Moves
<1>4. CASE endPhase(st, fw, last, list, size, left)
  <2>1. PICK gone, last2, new, n : /\ gone = Range(list) \ Kept(st, list)
                                   /\ checkRunList(Offlined(st, gone), fw, last2, new, n, 0, 0)
    BY <1>4 DEF endPhase, Rewound
  <2>2. u \in gone => st[u] = "LEFT"
    BY <2>1 DEF Kept
  <2>3. Offlined(st, gone)[u] = (IF u \in gone THEN "OFFLINE" ELSE st[u])
    BY DEF Offlined
  <2> QED BY <1>1, <2>1, <2>2, <2>3 DEF Moves
<1> QED BY <1>2, <1>3, <1>4 DEF tryWakeNext

\* Each operation, seen by its caller and by the other participants.
LEMMA JoinMoves ==
    ASSUME IInv, NEW t \in Tids, Join(t)
    PROVE  /\ IInv' /\ phaseCount' = phaseCount /\ synced' = synced
           /\ state[t] \in {"LEFT", "OFFLINE"} /\ state'[t] \in {"WAITING", "RUNNING"}
           /\ \A u \in Tids : u # t => Moves(state[u], state'[u])
<1>1. IInv' /\ phaseCount' = phaseCount /\ synced' = synced
  BY JoinOfflineStep, JoinLeftStep DEF Join
<1>2. state \in [Tids -> States] /\ state[t] \in {"LEFT", "OFFLINE"}
  BY DEF IInv, Good, GoodType, Join, JoinOffline, JoinLeft
<1>3. PICK st : st = [state EXCEPT ![t] = "WAITING"]
  OBVIOUS
<1>4. st[t] = "WAITING" /\ \A u \in Tids : u # t => st[u] = state[u]
  BY <1>2, <1>3
<1>5. \E fw, last, list, size, cur, run, left, syn :
         tryWakeNext(st, fw, last, list, size, cur, run, left, syn)
  BY <1>3 DEF Join, JoinOffline, JoinLeft
<1>6. \A u \in Tids : Moves(st[u], state'[u])
  BY <1>5, WakeMoves
<1>7. state'[t] \in {"WAITING", "RUNNING"}
  BY <1>4, <1>6 DEF Moves
<1> QED BY <1>1, <1>2, <1>4, <1>6, <1>7

\* What leave() does to the others, and what the end of a phase by it means.
LEMMA LeaveMoves ==
    ASSUME IInv, NEW t \in Tids, Leave(t)
    PROVE  /\ state[t] = "RUNNING" /\ state'[t] \in {"LEFT", "OFFLINE"}
           /\ \A u \in Tids : u # t => Moves(state[u], state'[u])
<1>2. state \in [Tids -> States] /\ state[t] = "RUNNING"
  BY DEF IInv, Good, GoodType, Leave
<1>3. PICK st : st = [state EXCEPT ![t] = "LEFT"]
  OBVIOUS
<1>4. st[t] = "LEFT" /\ \A u \in Tids : u # t => st[u] = state[u]
  BY <1>2, <1>3
<1>5. \E fw, last, list, size, cur, run, left, syn :
         tryWakeNext(st, fw, last, list, size, cur, run, left, syn)
  BY <1>3 DEF Leave
<1>6. \A u \in Tids : Moves(st[u], state'[u])
  BY <1>5, WakeMoves
<1>7. state'[t] \in {"LEFT", "OFFLINE"}
  BY <1>4, <1>6 DEF Moves
<1> QED BY <1>2, <1>4, <1>6, <1>7

\* What sync() does to the others, and what the end of a phase by it means.
LEMMA SyncMoves ==
    ASSUME IInv, NEW t \in Tids, Sync(t)
    PROVE  /\ state[t] = "RUNNING" /\ state'[t] \in {"WAITING", "RUNNING"}
           /\ \A u \in Tids : u # t => Moves(state[u], state'[u])
<1>2. state \in [Tids -> States] /\ state[t] = "RUNNING"
  BY DEF IInv, Good, GoodType, Sync
<1>3. PICK st : st = [state EXCEPT ![t] = "WAITING"]
  OBVIOUS
<1>4. st[t] = "WAITING" /\ \A u \in Tids : u # t => st[u] = state[u]
  BY <1>2, <1>3
<1>5. \E fw, last, list, size, cur, run, left, syn :
         tryWakeNext(st, fw, last, list, size, cur, run, left, syn)
  BY <1>3 DEF Sync
<1>6. \A u \in Tids : Moves(st[u], state'[u])
  BY <1>5, WakeMoves
<1>7. state'[t] \in {"WAITING", "RUNNING"}
  BY <1>4, <1>6 DEF Moves
<1> QED BY <1>2, <1>4, <1>6, <1>7

\* Every step keeps the inductive invariant, keeps the participants that have
\* synced in a phase, and ends a phase only when everybody who waits has synced.
LEMMA NextStep ==
    ASSUME IInv, [Next]_vars
    PROVE  /\ IInv'
           /\ \/ phaseCount' = phaseCount /\ synced \subseteq synced'
              \/ phaseCount' # phaseCount /\ \A u \in Tids : state[u] = "WAITING" => u \in synced
<1>1. CASE UNCHANGED vars
  BY <1>1, StutterStep DEF vars
<1>2. ASSUME NEW t \in Tids, Join(t)
      PROVE  IInv' /\ phaseCount' = phaseCount /\ synced \subseteq synced'
  BY <1>2, JoinOfflineStep, JoinLeftStep DEF Join
<1>3. ASSUME NEW t \in Tids, Leave(t)
      PROVE  /\ IInv'
             /\ \/ phaseCount' = phaseCount /\ synced \subseteq synced'
                \/ phaseCount' # phaseCount /\ \A u \in Tids : state[u] = "WAITING" => u \in synced
  BY <1>3, LeaveStep
<1>4. ASSUME NEW t \in Tids, Sync(t)
      PROVE  /\ IInv'
             /\ \/ phaseCount' = phaseCount /\ synced \subseteq synced'
                \/ phaseCount' # phaseCount /\ \A u \in Tids : state[u] = "WAITING" => u \in synced
  BY <1>4, SyncStep
<1> QED BY <1>1, <1>2, <1>3, <1>4 DEF Next

\* Spec keeps the inductive invariant, which is what makes every property
\* below hold for any number of participants and any constants.
THEOREM InductiveInvariant == Spec => []IInv
<1>1. IInv /\ [Next]_vars => IInv'
  BY NextStep
<1> QED BY InitIInv, <1>1, PTL DEF Spec

\* Every variable of the barrier keeps its type.
THEOREM TypeCorrect == Spec => []TypeOK
<1>1. IInv => TypeOK
  BY DEF IInv, Good, GoodType, TypeOK
<1> QED BY InductiveInvariant, <1>1, PTL

\* runList[0 .. runListSize-1] lists, once each, the participants not OFFLINE.
THEOREM RunListIsExact == Spec => []RunListExact
<1>1. IInv => RunListExact
  <2> SUFFICES ASSUME IInv PROVE RunListExact
    OBVIOUS
  <2> DEFINE On == Tids \ In("OFFLINE")
  <2>1. On = {t \in Tids : state[t] # "OFFLINE"}
    BY DEF In
  <2>2. runList \in [0..(runListSize - 1) -> On] /\ \A t \in On : \E i \in 0..(runListSize - 1) : runList[i] = t
    BY <2>1 DEF IInv, Good, GoodType, GoodList
  <2>3. \A i, j \in 0..(runListSize - 1) : runList[i] = runList[j] => i = j
    BY DEF IInv, Good, GoodList
  <2> QED BY <2>2, <2>3 DEF RunListExact, Bijection, Injection, Surjection, IsInjective
<1> QED BY InductiveInvariant, <1>1, PTL

\* runningThreads and leftThreads count what they name, and no more than
\* parallelThreads participants ever run.
THEOREM ParallelismIsControlled == Spec => []ParallelismControl
<1>1. IInv => ParallelismControl
  BY DEF IInv, Good, GoodCount, ParallelismControl, In
<1> QED BY InductiveInvariant, <1>1, PTL

\* The assertion tid == runList[lastIdx] of join() never fails, although
\* lastIdx is never initialised, as long as no waiting participant is killed.
THEOREM LastIdxAssertHolds == Spec => []LastIdxAssert
<1>1. IInv => LastIdxAssert
  BY DEF IInv, Good, GoodPlace, LastIdxAssert, In
<1> QED BY InductiveInvariant, <1>1, PTL

\* The barrier loses no wakeup: nobody waits while a slot is free for it,
\* and somebody runs whenever somebody waits.
THEOREM NoWakeupIsLost == Spec => []NoLostWakeup
<1>1. IInv => NoLostWakeup
  BY DEF IInv
<1> QED BY InductiveInvariant, <1>1, PTL

\* The panic "Wakeup race in barrier?" is never reached.
THEOREM FutexWordsAgree == Spec => []FutexWordAgrees
<1>1. IInv => FutexWordAgrees
  BY DEF IInv, Good, GoodFutex, FutexWordAgrees
<1> QED BY InductiveInvariant, <1>1, PTL

\* A join never ends a phase.
THEOREM NoJoinEndsAPhase == Spec => JoinEndsNoPhase
<1> DEFINE Joins == \E t \in Tids : state[t] \in {"LEFT", "OFFLINE"} /\ state'[t] \in {"WAITING", "RUNNING"}
<1>1. ASSUME IInv, [Next]_vars, Joins PROVE phaseCount' = phaseCount
  <2>1. PICK u \in Tids : state[u] \in {"LEFT", "OFFLINE"} /\ state'[u] \in {"WAITING", "RUNNING"}
    BY <1>1
  <2>2. CASE UNCHANGED vars
    BY <2>2 DEF vars
  <2>3. ASSUME NEW t \in Tids, Join(t) PROVE phaseCount' = phaseCount
    BY <1>1, <2>3, JoinOfflineStep, JoinLeftStep DEF Join
  <2>4. ASSUME NEW t \in Tids, Leave(t) \/ Sync(t) PROVE FALSE
    <3>1. state \in [Tids -> States] /\ state[t] = "RUNNING" /\ t # u
      BY <1>1, <2>1, <2>4 DEF Leave, Sync, IInv, Good, GoodType
    <3>2. state'[u] # "WAITING" /\ state'[u] # "RUNNING"
      BY <1>1, <2>1, <2>4, <3>1, LeaveMoves, SyncMoves DEF Moves
    <3> QED BY <2>1, <3>2
  <2> QED BY <1>1, <2>2, <2>3, <2>4 DEF Next
<1>2. IInv /\ [Next]_vars => [Joins => phaseCount' = phaseCount]_vars
  BY <1>1
<1> QED BY InductiveInvariant, <1>2, PTL DEF Spec, JoinEndsNoPhase

\* A phase ends only when everybody who waits has called sync() in it.
THEOREM NoPhaseSkipsAnybody == Spec => PhaseSkipsNobody
<1>1. IInv /\ [Next]_vars => [phaseCount' # phaseCount => In("WAITING") \subseteq synced]_vars
  BY NextStep DEF In
<1> QED BY InductiveInvariant, <1>1, PTL DEF Spec, PhaseSkipsNobody

\* Who has called sync() in a phase is not woken again in that phase.
THEOREM OneRunPerPhase == Spec => RunsOncePerPhase
<1>1. IInv /\ [Next]_vars => [phaseCount' = phaseCount => synced \cap {t \in Tids : state'[t] = "RUNNING"} = {}]_vars
  <2> SUFFICES ASSUME IInv, [Next]_vars, phaseCount' = phaseCount, NEW t \in synced
               PROVE  state'[t] # "RUNNING"
    OBVIOUS
  <2>1. t \in synced' /\ IInv'
    BY NextStep
  <2>2. state'[t] = "WAITING"
    BY <2>1 DEF IInv, Good, GoodSynced
  <2> QED BY <2>2
<1> QED BY InductiveInvariant, <1>1, PTL DEF Spec, RunsOncePerPhase

\* Every operation of barrier.h leaves the barrier sound.
THEOREM BarrierIsSafe == Spec => []BarrierSafe
<1>1. TypeOK /\ RunListExact /\ ParallelismControl /\ LastIdxAssert /\ NoLostWakeup /\ FutexWordAgrees
        => BarrierSafe
  BY DEF BarrierSafe
<1> QED BY TypeCorrect, RunListIsExact, ParallelismIsControlled, LastIdxAssertHolds, NoWakeupIsLost,
           FutexWordsAgree, <1>1, PTL

\* In each phase of the barrier nobody is skipped and nobody runs twice.
THEOREM PhasesAreExact == Spec => PhasesExact
BY NoPhaseSkipsAnybody, OneRunPerPhase DEF PhasesExact
=============================================================================
