------------------------------ MODULE HostProofs ------------------------------
(***************************************************************************)
(* Proofs about the host interface.  The matching of futex wakes: the      *)
(* allowance is exact and wakes are conserved (WakesMatched), for any      *)
(* number of threads that FutexRoom allows.  Port virtualization is exact  *)
(* (PortsExact), for any number of processes, domains and ports.  Accesses *)
(* share a line exactly when they are to the same page (LinesExact), for   *)
(* any number of processes, libraries and pages.  Virtual time never goes  *)
(* back, waits last as long as was asked for, and no assertion of the      *)
(* patches fails, for any frequency, phase length, processes and programs. *)
(***************************************************************************)
EXTENDS FutexMatch, PortVirt, AddressMaps, SyscallVirt, ProofFacts

FutexTypeOK ==
    /\ maxAllowedFutexWakeups \in Nat
    /\ unmatchedFutexWakeups \in Nat
    /\ maxWakes \in [Threads -> 0..MaxWakes]
    /\ wokenUp \in [Threads -> Nat]
    /\ pc \in [Threads -> Pcs]
    /\ leaked \in 0..MaxLeaked
    /\ disturbed \in BOOLEAN

\* Nobody is woken up beyond what was allowed for.
WokenAllowed ==
    \A t \in Threads :
        /\ pc[t] = "wake" => maxWakes[t] \in {wokenUp[t], MaxWakes}
        /\ pc[t] \in {"woke", "wakeJoin", "matching", "rechecking"} => wokenUp[t] <= maxWakes[t]

FutexInv ==
    /\ FutexTypeOK
    /\ WokenAllowed
    /\ AllowanceExact
    /\ ~disturbed => WakesConserved

\* The two sums.
Allowances == [t \in Threads |-> Allowance(t)]
Pendings == [t \in Threads |-> Pending(t)]

\* Taking back what was added before does not wrap.
LEMMA SubExact ==
    ASSUME NEW a \in Nat, NEW b \in Nat, b <= a, a < Width
    PROVE  Sub(a, b) = a - b
  BY FutexAssumption DEF Sub

\* What the invariant says of the sums.
LEMMA SumsBounded ==
    ASSUME FutexTypeOK, WokenAllowed
    PROVE  /\ Allowances \in [Threads -> Nat] /\ Pendings \in [Threads -> Nat]
           /\ \A t \in Threads : Pendings[t] <= Allowances[t] /\ Allowances[t] <= MaxWakes
           /\ SumFunction(Allowances) \in Nat /\ SumFunction(Pendings) \in Nat
           /\ \A t \in Threads : Allowances[t] <= SumFunction(Allowances)
           /\ SumFunction(Pendings) <= SumFunction(Allowances)
           /\ SumFunction(Allowances) + MaxLeaked < Width
  <1>1. ASSUME NEW t \in Threads
        PROVE  Allowance(t) \in Nat /\ Pending(t) \in Nat /\ Pending(t) <= Allowance(t) /\ Allowance(t) <= MaxWakes
    <2>1. maxWakes[t] \in Nat /\ maxWakes[t] <= MaxWakes /\ wokenUp[t] \in Nat /\ pc[t] \in Pcs /\ MaxWakes \in Nat
      BY FutexAssumption DEF FutexTypeOK
    <2>2. pc[t] \in {"woke", "wakeJoin", "matching", "rechecking"} => wokenUp[t] <= maxWakes[t]
      BY DEF WokenAllowed
    <2>3. CASE pc[t] = "wake"
      BY <2>1, <2>3 DEF Allowance, Pending
    <2>4. CASE pc[t] \in {"woke", "wakeJoin"}
      BY <2>1, <2>2, <2>4 DEF Allowance, Pending
    <2>5. CASE pc[t] \in {"matching", "rechecking"}
      BY <2>1, <2>2, <2>5 DEF Allowance, Pending
    <2>6. CASE pc[t] \notin {"wake", "woke", "wakeJoin", "matching", "rechecking"}
      BY <2>1, <2>6 DEF Allowance, Pending
    <2> QED
      BY <2>3, <2>4, <2>5, <2>6
  <1>2. /\ Allowances \in [Threads -> Nat] /\ Pendings \in [Threads -> Nat]
        /\ \A t \in Threads : Pendings[t] <= Allowances[t] /\ Allowances[t] <= MaxWakes
    BY <1>1 DEF Allowances, Pendings
  <1>3. IsFiniteSet(Threads) /\ MaxWakes \in Nat /\ MaxLeaked \in Nat /\ Width \in Nat
    BY FutexAssumption
  <1>4. /\ SumFunction(Allowances) \in Nat /\ SumFunction(Pendings) \in Nat
        /\ \A t \in Threads : Allowances[t] <= SumFunction(Allowances)
    BY <1>2, <1>3, SumOfNaturals
  <1>5. Allowances \in [Threads -> Int] /\ Pendings \in [Threads -> Int]
    BY <1>2
  <1>6. SumFunction(Pendings) <= SumFunction(Allowances)
    BY <1>2, <1>3, <1>5, SumMonotone
  <1>7. PICK c : c = [t \in Threads |-> MaxWakes]
    OBVIOUS
  <1>8. c \in [Threads -> Int] /\ \A t \in Threads : c[t] = MaxWakes /\ Allowances[t] <= c[t]
    BY <1>2, <1>3, <1>7
  <1>9. SumFunction(c) = Cardinality(Threads) * MaxWakes
    BY <1>3, <1>8, SumConstant
  <1>10. SumFunction(Allowances) <= SumFunction(c) /\ SumFunction(c) \in Int
    BY <1>3, <1>5, <1>8, SumMonotone
  <1>11. SumFunction(c) + MaxLeaked < Width
    BY <1>9, FutexRoom
  <1> QED
    BY <1>2, <1>3, <1>4, <1>6, <1>10, <1>11

\* The assertion follows: the joins not matched are at most what the wakers
\* in flight may still wait for.
LEMMA AssertFollows ==
    ASSUME FutexInv
    PROVE  WakesMatched
  <1>1. SUFFICES ASSUME ~disturbed, WakesConserved, NEW t \in Threads, pc[t] = "wakeJoin"
                 PROVE  unmatchedFutexWakeups <= Adjusted(t)
    BY DEF FutexInv, WakesMatched, UnmatchedAssert
  <1>2. FutexTypeOK /\ WokenAllowed
    BY DEF FutexInv
  <1>3. /\ Allowances \in [Threads -> Nat] /\ Pendings \in [Threads -> Nat]
        /\ \A u \in Threads : Pendings[u] <= Allowances[u]
        /\ SumFunction(Allowances) \in Nat /\ SumFunction(Pendings) \in Nat
        /\ \A u \in Threads : Allowances[u] <= SumFunction(Allowances)
        /\ SumFunction(Allowances) + MaxLeaked < Width
    BY <1>2, SumsBounded
  <1>4. /\ Allowances[t] = maxWakes[t] /\ Pendings[t] = wokenUp[t] /\ wokenUp[t] <= maxWakes[t]
        /\ wokenUp[t] \in Nat /\ maxWakes[t] \in Nat /\ maxWakes[t] < Width /\ leaked \in Nat /\ leaked <= MaxLeaked
        /\ unmatchedFutexWakeups \in Nat /\ MaxLeaked \in Nat /\ Width \in Nat
    BY <1>1, <1>2, FutexAssumption DEF Allowances, Pendings, Allowance, Pending, WokenAllowed, FutexTypeOK
  <1>5. maxAllowedFutexWakeups = SumFunction(Allowances) + leaked
    BY DEF FutexInv, AllowanceExact, Allowances
  <1>6. Adjusted(t) = maxAllowedFutexWakeups - (maxWakes[t] - wokenUp[t])
    <2>1. Sub(maxWakes[t], wokenUp[t]) = maxWakes[t] - wokenUp[t]
      BY <1>4, SubExact
    <2>2. PICK d \in Nat : d = maxWakes[t] - wokenUp[t]
      BY <1>4
    <2>3. maxAllowedFutexWakeups \in Nat /\ d <= maxAllowedFutexWakeups /\ maxAllowedFutexWakeups < Width
      BY <1>3, <1>4, <1>5, <2>2
    <2> QED
      BY <2>1, <2>2, <2>3, SubExact DEF Adjusted
  <1>7. PICK g : g = [u \in Threads |-> IF u = t THEN wokenUp[t] ELSE Allowances[u]]
    OBVIOUS
  <1>8. g \in [Threads -> Int] /\ g[t] = wokenUp[t] /\ \A u \in Threads : u # t => g[u] = Allowances[u]
    BY <1>3, <1>4, <1>7
  <1>9. Allowances \in [Threads -> Int] /\ Pendings \in [Threads -> Int] /\ IsFiniteSet(Threads)
    BY <1>3, FutexAssumption
  <1>10. SumFunction(g) = SumFunction(Allowances) - Allowances[t] + g[t]
    BY <1>8, <1>9, SumChange
  <1>11. SumFunction(Pendings) <= SumFunction(g) /\ SumFunction(g) \in Int
    <2>1. \A u \in Threads : Pendings[u] <= g[u]
      BY <1>3, <1>4, <1>8
    <2> QED
      BY <1>8, <1>9, <2>1, SumMonotone
  <1>12. unmatchedFutexWakeups + Cardinality(Joining) = SumFunction(Pendings)
    BY <1>1 DEF WakesConserved, Pendings
  <1>13. Cardinality(Joining) \in Nat
    BY <1>9, FS_Subset, FS_CardinalityType DEF Joining
  <1> QED
    BY <1>3, <1>4, <1>5, <1>6, <1>8, <1>10, <1>11, <1>12, <1>13

\* The sums change by what one thread's terms change.
LEMMA SumsFollow ==
    ASSUME NEW t \in Threads, FutexTypeOK, WokenAllowed,
           Allowance(t)' \in Nat, Pending(t)' \in Nat,
           \A u \in Threads : u # t => Allowance(u)' = Allowance(u) /\ Pending(u)' = Pending(u)
    PROVE  /\ SumFunction(Allowances)' = SumFunction(Allowances) - Allowance(t) + Allowance(t)'
           /\ SumFunction(Pendings)' = SumFunction(Pendings) - Pending(t) + Pending(t)'
  <1>1. Allowances \in [Threads -> Nat] /\ Pendings \in [Threads -> Nat]
    BY SumsBounded
  <1>2. Allowances \in [Threads -> Int] /\ Pendings \in [Threads -> Int] /\ IsFiniteSet(Threads)
    BY <1>1, FutexAssumption
  <1>3. PICK f, g : f = Allowances' /\ g = Pendings'
    OBVIOUS
  <1>4. f = [u \in Threads |-> Allowance(u)'] /\ g = [u \in Threads |-> Pending(u)']
    BY <1>3 DEF Allowances, Pendings
  <1>5. \A u \in Threads : Allowances[u] = Allowance(u) /\ Pendings[u] = Pending(u)
    BY DEF Allowances, Pendings
  <1>6. f[t] = Allowance(t)' /\ g[t] = Pending(t)'
    BY <1>4
  <1>7. ASSUME NEW u \in Threads, u # t PROVE f[u] = Allowances[u] /\ g[u] = Pendings[u]
    BY <1>4, <1>5, <1>7
  <1>8. f \in [Threads -> Int]
    <2>1. ASSUME NEW u \in Threads PROVE f[u] \in Int
      <3>1. CASE u = t
        BY <1>6, <3>1
      <3>2. CASE u # t
        BY <1>2, <1>7, <3>2
      <3> QED
        BY <3>1, <3>2
    <2> QED
      BY <1>4, <2>1
  <1>9. g \in [Threads -> Int]
    <2>1. ASSUME NEW u \in Threads PROVE g[u] \in Int
      <3>1. CASE u = t
        BY <1>6, <3>1
      <3>2. CASE u # t
        BY <1>2, <1>7, <3>2
      <3> QED
        BY <3>1, <3>2
    <2> QED
      BY <1>4, <2>1
  <1>10. SumFunction(f) = SumFunction(Allowances) - Allowances[t] + f[t]
    BY <1>2, <1>7, <1>8, SumChange
  <1>11. SumFunction(g) = SumFunction(Pendings) - Pendings[t] + g[t]
    BY <1>2, <1>7, <1>9, SumChange
  <1> QED
    BY <1>3, <1>5, <1>6, <1>10, <1>11

\* What a step of t starts from.
FutexFacts(t) ==
    /\ pc[t] \in Pcs /\ maxWakes[t] \in Nat /\ maxWakes[t] <= MaxWakes /\ wokenUp[t] \in Nat
    /\ maxAllowedFutexWakeups \in Nat /\ maxAllowedFutexWakeups < Width
    /\ maxAllowedFutexWakeups = SumFunction(Allowances) + leaked
    /\ SumFunction(Allowances) \in Nat /\ Allowance(t) \in Nat /\ Allowance(t) <= SumFunction(Allowances)
    /\ SumFunction(Pendings) \in Nat /\ SumFunction(Pendings) <= SumFunction(Allowances)
    /\ unmatchedFutexWakeups \in Nat /\ leaked \in Nat /\ leaked <= MaxLeaked
    /\ Cardinality(Joining) \in Nat
    /\ ~disturbed => unmatchedFutexWakeups + Cardinality(Joining) = SumFunction(Pendings)
    /\ MaxWakes \in Nat /\ Width \in Nat /\ MaxWakes < Width /\ MaxLeaked \in Nat

\* The facts about counters and sums follow from the invariant.
LEMMA FactsHold ==
    ASSUME FutexInv, NEW t \in Threads
    PROVE  FutexFacts(t)
  <1>1. FutexTypeOK /\ WokenAllowed
    BY DEF FutexInv
  <1>2. /\ Allowances \in [Threads -> Nat] /\ Allowances[t] <= SumFunction(Allowances)
        /\ SumFunction(Allowances) \in Nat /\ SumFunction(Pendings) \in Nat
        /\ SumFunction(Pendings) <= SumFunction(Allowances)
        /\ SumFunction(Allowances) + MaxLeaked < Width
    BY <1>1, SumsBounded
  <1>3. Allowances[t] = Allowance(t)
    BY DEF Allowances
  <1>4. Allowance(t) \in Nat
    BY <1>2, <1>3
  <1>5. Cardinality(Joining) \in Nat
    BY FutexAssumption, FS_Subset, FS_CardinalityType DEF Joining
  <1>6. /\ pc[t] \in Pcs /\ maxWakes[t] \in Nat /\ maxWakes[t] <= MaxWakes /\ wokenUp[t] \in Nat
        /\ maxAllowedFutexWakeups \in Nat /\ unmatchedFutexWakeups \in Nat /\ leaked \in Nat /\ leaked <= MaxLeaked
        /\ MaxWakes \in Nat /\ Width \in Nat /\ MaxWakes < Width /\ MaxLeaked \in Nat
    BY <1>1, FutexAssumption DEF FutexTypeOK
  <1>7. maxAllowedFutexWakeups = SumFunction(Allowances) + leaked
    BY DEF FutexInv, AllowanceExact, Allowances
  <1>8. ~disturbed => unmatchedFutexWakeups + Cardinality(Joining) = SumFunction(Pendings)
    BY DEF FutexInv, WakesConserved, Pendings
  <1> QED
    BY <1>2, <1>3, <1>4, <1>5, <1>6, <1>7, <1>8 DEF FutexFacts

\* What it has to establish.
FutexAfter(t) ==
    /\ Allowance(t)' \in Nat /\ Pending(t)' \in Nat
    /\ \A u \in Threads : u # t => Allowance(u)' = Allowance(u) /\ Pending(u)' = Pending(u)
    /\ FutexTypeOK' /\ WokenAllowed'
    /\ maxAllowedFutexWakeups' - leaked' = maxAllowedFutexWakeups - leaked - Allowance(t) + Allowance(t)'
    /\ ~disturbed' => /\ ~disturbed
                      /\ Cardinality(Joining)' \in Nat
                      /\ unmatchedFutexWakeups' + Cardinality(Joining)'
                            = unmatchedFutexWakeups + Cardinality(Joining) - Pending(t) + Pending(t)'

\* A step whose effect on the counters matches the share of its thread keeps the invariant.
LEMMA AfterKeeps ==
    ASSUME FutexInv, NEW t \in Threads, FutexAfter(t)
    PROVE  FutexInv'
  <1>1. FutexTypeOK /\ WokenAllowed
    BY DEF FutexInv
  <1>2. FutexFacts(t)
    BY FactsHold
  <1>3. /\ SumFunction(Allowances)' = SumFunction(Allowances) - Allowance(t) + Allowance(t)'
        /\ SumFunction(Pendings)' = SumFunction(Pendings) - Pending(t) + Pending(t)'
    BY <1>1, SumsFollow DEF FutexAfter
  <1>4. leaked' \in Nat /\ maxAllowedFutexWakeups' \in Nat /\ unmatchedFutexWakeups' \in Nat
    BY FutexAssumption DEF FutexAfter, FutexTypeOK
  <1>5. maxAllowedFutexWakeups' = SumFunction(Allowances)' + leaked'
    <2>1. PICK a \in Nat : a = Allowance(t)'
      BY DEF FutexAfter
    <2> QED
      BY <1>2, <1>3, <1>4, <2>1 DEF FutexAfter, FutexFacts
  <1>6. ASSUME ~disturbed' PROVE unmatchedFutexWakeups' + Cardinality(Joining)' = SumFunction(Pendings)'
    <2>1. PICK a \in Nat : a = Pending(t)'
      BY DEF FutexAfter
    <2>2. Pending(t) \in Int
      BY <1>2 DEF Pending, FutexFacts
    <2> QED
      BY <1>2, <1>3, <1>4, <1>6, <2>1, <2>2 DEF FutexAfter, FutexFacts
  <1>7. AllowanceExact'
    BY <1>5 DEF AllowanceExact, Allowances
  <1>8. ~disturbed' => WakesConserved'
    BY <1>6 DEF WakesConserved, Pendings
  <1> QED
    BY <1>7, <1>8 DEF FutexInv, FutexAfter

-----------------------------------------------------------------------------
\* Only t moves, to p, with m and w in its record.
Moves(t, p, m, w) ==
    /\ pc' = [pc EXCEPT ![t] = p]
    /\ maxWakes' = [maxWakes EXCEPT ![t] = m]
    /\ wokenUp' = [wokenUp EXCEPT ![t] = w]

\* A thread moves within the patches, and the others keep their shares.
LEMMA MoveKeeps ==
    ASSUME FutexInv, NEW t \in Threads, NEW p \in Pcs, NEW m \in 0..MaxWakes, NEW w \in Nat, Moves(t, p, m, w),
           p = "wake" => m \in {w, MaxWakes},
           p \in {"woke", "wakeJoin", "matching", "rechecking"} => w <= m
    PROVE  /\ pc'[t] = p /\ maxWakes'[t] = m /\ wokenUp'[t] = w
           /\ \A u \in Threads : u # t => pc'[u] = pc[u] /\ Allowance(u)' = Allowance(u) /\ Pending(u)' = Pending(u)
           /\ pc' \in [Threads -> Pcs] /\ maxWakes' \in [Threads -> 0..MaxWakes] /\ wokenUp' \in [Threads -> Nat]
           /\ WokenAllowed'
  <1>1. pc \in [Threads -> Pcs] /\ maxWakes \in [Threads -> 0..MaxWakes] /\ wokenUp \in [Threads -> Nat] /\ WokenAllowed
    BY DEF FutexInv, FutexTypeOK
  <1>2. pc'[t] = p /\ maxWakes'[t] = m /\ wokenUp'[t] = w
    BY <1>1 DEF Moves
  <1>3. \A u \in Threads : u # t => pc'[u] = pc[u] /\ maxWakes'[u] = maxWakes[u] /\ wokenUp'[u] = wokenUp[u]
    BY <1>1 DEF Moves
  <1>4. pc' \in [Threads -> Pcs] /\ maxWakes' \in [Threads -> 0..MaxWakes] /\ wokenUp' \in [Threads -> Nat]
    BY <1>1 DEF Moves
  <1>5. \A u \in Threads : u # t => Allowance(u)' = Allowance(u) /\ Pending(u)' = Pending(u)
    BY <1>3 DEF Allowance, Pending
  <1>6. ASSUME NEW u \in Threads
        PROVE  /\ pc'[u] = "wake" => maxWakes'[u] \in {wokenUp'[u], MaxWakes}
               /\ pc'[u] \in {"woke", "wakeJoin", "matching", "rechecking"} => wokenUp'[u] <= maxWakes'[u]
    <2>1. CASE u = t
      BY <1>2, <2>1
    <2>2. CASE u # t
      BY <1>1, <1>3, <2>2 DEF WokenAllowed
    <2> QED
      BY <2>1, <2>2
  <1> QED
    BY <1>2, <1>3, <1>4, <1>5, <1>6 DEF WokenAllowed

\* A step that leaves the waiters alone.
LEMMA WakerMoveKeeps ==
    ASSUME FutexInv, NEW t \in Threads, NEW p \in Pcs, NEW m \in 0..MaxWakes, NEW w \in Nat, Moves(t, p, m, w),
           p = "wake" => m \in {w, MaxWakes},
           p \in {"woke", "wakeJoin", "matching", "rechecking"} => w <= m,
           maxAllowedFutexWakeups' \in Nat, unmatchedFutexWakeups' \in Nat,
           leaked' \in 0..MaxLeaked, disturbed' \in BOOLEAN,
           maxAllowedFutexWakeups' - leaked' = maxAllowedFutexWakeups - leaked - Allowance(t) + Allowance(t)',
           ~disturbed' => /\ ~disturbed
                          /\ pc[t] \in {"woken", "waitJoin"} <=> p \in {"woken", "waitJoin"}
                          /\ unmatchedFutexWakeups' = unmatchedFutexWakeups - Pending(t) + Pending(t)'
    PROVE  FutexInv'
  <1>1. /\ pc'[t] = p /\ maxWakes'[t] = m /\ wokenUp'[t] = w
        /\ \A u \in Threads : u # t => pc'[u] = pc[u] /\ Allowance(u)' = Allowance(u) /\ Pending(u)' = Pending(u)
        /\ pc' \in [Threads -> Pcs] /\ maxWakes' \in [Threads -> 0..MaxWakes] /\ wokenUp' \in [Threads -> Nat]
        /\ WokenAllowed'
    BY MoveKeeps
  <1>2. FutexTypeOK'
    BY <1>1 DEF FutexTypeOK
  <1>3. FutexFacts(t)
    BY FactsHold
  <1>4. Allowance(t)' \in Nat /\ Pending(t)' \in Nat /\ Pending(t) \in Nat
    <2>1. m \in Nat
      BY FutexAssumption
    <2> QED
      BY <1>1, <1>3, <2>1 DEF Allowance, Pending, FutexFacts
  <1>5. ASSUME ~disturbed'
        PROVE  /\ ~disturbed
               /\ Cardinality(Joining)' \in Nat
               /\ unmatchedFutexWakeups' + Cardinality(Joining)'
                     = unmatchedFutexWakeups + Cardinality(Joining) - Pending(t) + Pending(t)'
    <2>1. Joining' = Joining
      BY <1>1, <1>5 DEF Joining
    <2>2. PICK a \in Nat : a = Pending(t)'
      BY <1>4
    <2> QED
      BY <1>3, <1>4, <1>5, <2>1, <2>2 DEF FutexFacts
  <1>6. FutexAfter(t)
    BY <1>1, <1>2, <1>4, <1>5 DEF FutexAfter
  <1> QED
    BY <1>6, AfterKeeps

\* The cap of a wake.
LEMMA MinOfTwo ==
    ASSUME NEW a \in Nat, NEW b \in Nat
    PROVE  Min({a, b}) \in {a, b} /\ Min({a, b}) <= a /\ Min({a, b}) <= b
  <1>1. CASE a <= b
    <2>1. a \in {a, b} /\ \A y \in {a, b} : a <= y
      BY <1>1
    <2>2. \A x \in {a, b} : (\A y \in {a, b} : x <= y) => x = a
      BY <1>1
    <2> QED
      BY <1>1, <2>1, <2>2 DEF Min
  <1>2. CASE b < a
    <2>1. b \in {a, b} /\ \A y \in {a, b} : b <= y
      BY <1>2
    <2>2. \A x \in {a, b} : (\A y \in {a, b} : x <= y) => x = b
      BY <1>2
    <2> QED
      BY <1>2, <2>1, <2>2 DEF Min
  <1> QED
    BY <1>1, <1>2

\* notifyFutexWakeStart().
LEMMA WakeStartStep ==
    ASSUME FutexInv, NEW t \in Threads, NEW val \in Vals, notifyFutexWakeStart(t, val)
    PROVE  FutexInv'
  <1>1. FutexFacts(t)
    BY FactsHold
  <1>2. val \in Nat
    BY FutexAssumption
  <1>3. PICK n : n = Min({val, MaxWakes})
    OBVIOUS
  <1>4. n \in Nat /\ n <= MaxWakes /\ n \in {val, MaxWakes}
    BY <1>1, <1>2, <1>3, MinOfTwo DEF FutexFacts
  <1>5. /\ pc[t] = "app" /\ Moves(t, "wake", n, val)
        /\ maxAllowedFutexWakeups' = (maxAllowedFutexWakeups + n) % Width
        /\ unmatchedFutexWakeups' = unmatchedFutexWakeups /\ leaked' = leaked /\ disturbed' = disturbed
    BY <1>3 DEF notifyFutexWakeStart, Go, Moves
  <1>6. maxAllowedFutexWakeups + n < Width
    <2>1. PICK c : c = [u \in Threads |-> IF u = t THEN n ELSE Allowances[u]]
      OBVIOUS
    <2>2. /\ Allowances \in [Threads -> Nat] /\ Allowances[t] = 0
          /\ \A u \in Threads : Allowances[u] <= MaxWakes
      <3>1. FutexTypeOK /\ WokenAllowed
        BY DEF FutexInv
      <3> QED
        BY <1>5, <3>1, SumsBounded DEF Allowances, Allowance
    <2>3. c \in [Threads -> Int] /\ c[t] = n /\ \A u \in Threads : c[u] <= MaxWakes
      BY <1>4, <2>1, <2>2
    <2>4. IsFiniteSet(Threads) /\ Allowances \in [Threads -> Int]
      BY <2>2, FutexAssumption
    <2>5. SumFunction(c) = SumFunction(Allowances) - Allowances[t] + c[t]
      BY <2>1, <2>3, <2>4, SumChange
    <2>6. PICK k : k = [u \in Threads |-> MaxWakes]
      OBVIOUS
    <2>7. k \in [Threads -> Int] /\ \A u \in Threads : k[u] = MaxWakes /\ c[u] <= k[u]
      BY <1>1, <2>3, <2>6 DEF FutexFacts
    <2>8. SumFunction(k) = Cardinality(Threads) * MaxWakes
      BY <1>1, <2>4, <2>7, SumConstant DEF FutexFacts
    <2>9. SumFunction(c) <= SumFunction(k) /\ SumFunction(k) \in Int /\ SumFunction(c) \in Int
      BY <2>3, <2>4, <2>7, SumMonotone
    <2>10. SumFunction(k) + MaxLeaked < Width
      BY <2>8, FutexRoom
    <2> QED
      BY <1>1, <1>4, <2>2, <2>3, <2>5, <2>9, <2>10 DEF FutexFacts
  <1>7. maxAllowedFutexWakeups' = maxAllowedFutexWakeups + n
    <2>1. PICK a \in Nat : a = maxAllowedFutexWakeups + n
      BY <1>1, <1>4 DEF FutexFacts
    <2>2. PICK d \in Nat : d = Width /\ a < d
      BY <1>1, <1>6, <2>1 DEF FutexFacts
    <2>3. a % d = a
      BY <2>2
    <2> QED
      BY <1>5, <2>1, <2>2, <2>3
  <1>8. Allowance(t) = 0 /\ Pending(t) = 0
    BY <1>5 DEF Allowance, Pending
  <1>9. pc'[t] = "wake" /\ maxWakes'[t] = n
    BY <1>5 DEF Moves, FutexInv, FutexTypeOK
  <1>10. Allowance(t)' = n /\ Pending(t)' = 0
    BY <1>9 DEF Allowance, Pending
  <1>11. n \in 0..MaxWakes /\ leaked \in 0..MaxLeaked /\ disturbed \in BOOLEAN
    BY <1>1, <1>4 DEF FutexFacts, FutexInv, FutexTypeOK
  <1>12. "wake" \in Pcs
    BY DEF Pcs
  <1>13. maxAllowedFutexWakeups' \in Nat /\ unmatchedFutexWakeups' \in Nat
         /\ maxAllowedFutexWakeups' - leaked' = maxAllowedFutexWakeups - leaked - Allowance(t) + Allowance(t)'
         /\ unmatchedFutexWakeups' = unmatchedFutexWakeups - Pending(t) + Pending(t)'
    <2>1. unmatchedFutexWakeups' = unmatchedFutexWakeups /\ leaked' = leaked
      BY <1>5
    <2> QED
      BY <1>1, <1>4, <1>7, <1>8, <1>10, <2>1 DEF FutexFacts
  <1> QED
    BY <1>2, <1>4, <1>5, <1>11, <1>12, <1>13, WakerMoveKeeps

\* The kernel wakes up waiters.
LEMMA KernelWakesStep ==
    ASSUME FutexInv, NEW t \in Threads, KernelWakes(t)
    PROVE  FutexInv'
  <1>0. FutexFacts(t)
    BY FactsHold
  <1>1. PICK S \in SUBSET {u \in Threads : pc[u] = "wait"} :
            /\ Cardinality(S) <= wokenUp[t]
            /\ pc' = [u \in Threads |-> IF u = t THEN "woke" ELSE IF u \in S THEN "woken" ELSE pc[u]]
            /\ wokenUp' = [wokenUp EXCEPT ![t] = Min({Cardinality(S), wokenUp[t]})]
    BY DEF KernelWakes
  <1>2. /\ pc[t] = "wake" /\ maxWakes' = maxWakes /\ maxAllowedFutexWakeups' = maxAllowedFutexWakeups
        /\ unmatchedFutexWakeups' = unmatchedFutexWakeups /\ leaked' = leaked /\ disturbed' = disturbed
    BY DEF KernelWakes
  <1>3. /\ IsFiniteSet(Threads) /\ IsFiniteSet(S) /\ Cardinality(S) \in Nat /\ t \notin S
        /\ Cardinality(S) <= Cardinality(Threads) - 1
    <2>1. S \subseteq Threads \ {t} /\ IsFiniteSet(Threads)
      BY <1>2, FutexAssumption
    <2>2. IsFiniteSet(Threads \ {t}) /\ Cardinality(Threads \ {t}) = Cardinality(Threads) - 1
      BY <2>1, FS_RemoveElement
    <2>3. IsFiniteSet(S) /\ Cardinality(S) <= Cardinality(Threads \ {t})
      BY <2>1, <2>2, FS_Subset
    <2> QED
      BY <2>1, <2>2, <2>3, FS_CardinalityType
  <1>4. PICK n \in Nat : n = Cardinality(S)
    BY <1>3
  <1>5. Min({Cardinality(S), wokenUp[t]}) = n
    BY <1>0, <1>1, <1>4, MinOfTwo DEF FutexFacts
  <1>6. n <= MaxWakes /\ n <= maxWakes[t]
    <2>1. Cardinality(Threads) <= MaxWakes + 1 /\ Cardinality(Threads) \in Nat
      BY <1>3, FutexRoom, FS_CardinalityType
    <2>2. maxWakes[t] \in {wokenUp[t], MaxWakes}
      BY <1>2 DEF FutexInv, WokenAllowed
    <2> QED
      BY <1>0, <1>1, <1>3, <1>4, <2>1, <2>2 DEF FutexFacts
  <1>7. pc \in [Threads -> Pcs] /\ maxWakes \in [Threads -> 0..MaxWakes] /\ wokenUp \in [Threads -> Nat] /\ WokenAllowed
    BY DEF FutexInv, FutexTypeOK
  <1>8. wokenUp' = [wokenUp EXCEPT ![t] = n]
    BY <1>1, <1>5
  <1>9. wokenUp' \in [Threads -> Nat] /\ wokenUp'[t] = n /\ \A u \in Threads : u # t => wokenUp'[u] = wokenUp[u]
    BY <1>7, <1>8
  <1>10. /\ pc' \in [Threads -> Pcs] /\ pc'[t] = "woke"
         /\ \A u \in S : pc'[u] = "woken" /\ pc[u] = "wait"
         /\ \A u \in Threads : u # t /\ u \notin S => pc'[u] = pc[u]
    BY <1>1, <1>3, <1>7 DEF Pcs
  <1>11. FutexTypeOK'
    BY <1>2, <1>7, <1>9, <1>10 DEF FutexInv, FutexTypeOK
  <1>12. ASSUME NEW u \in Threads
         PROVE  /\ pc'[u] = "wake" => maxWakes'[u] \in {wokenUp'[u], MaxWakes}
                /\ pc'[u] \in {"woke", "wakeJoin", "matching", "rechecking"} => wokenUp'[u] <= maxWakes'[u]
    <2>1. CASE u = t
      BY <1>2, <1>6, <1>9, <1>10, <2>1
    <2>2. CASE u \in S
      BY <1>10, <2>2
    <2>3. CASE u # t /\ u \notin S
      BY <1>2, <1>7, <1>9, <1>10, <2>3 DEF WokenAllowed
    <2> QED
      BY <2>1, <2>2, <2>3
  <1>13. WokenAllowed'
    BY <1>12 DEF WokenAllowed
  <1>14. ASSUME NEW u \in Threads, u # t PROVE Allowance(u)' = Allowance(u) /\ Pending(u)' = Pending(u)
    <2>1. CASE u \in S
      BY <1>10, <2>1 DEF Allowance, Pending
    <2>2. CASE u \notin S
      BY <1>2, <1>9, <1>10, <1>14, <2>2 DEF Allowance, Pending
    <2> QED
      BY <2>1, <2>2
  <1>15. /\ Allowance(t) = maxWakes[t] /\ Allowance(t)' = maxWakes[t]
         /\ Pending(t) = 0 /\ Pending(t)' = n
    BY <1>2, <1>9, <1>10 DEF Allowance, Pending
  <1>16. Cardinality(Joining)' = Cardinality(Joining) + n
    <2>1. Joining' = Joining \cup S
      BY <1>1, <1>2, <1>10 DEF Joining
    <2>2. Joining \cap S = {}
      BY <1>10 DEF Joining
    <2>3. IsFiniteSet(Joining)
      BY <1>3, FS_Subset DEF Joining
    <2>4. Cardinality(Joining \cup S) = Cardinality(Joining) + Cardinality(S) - Cardinality(Joining \cap S)
      BY <1>3, <2>3, FS_Union
    <2>5. Cardinality(Joining \cap S) = 0
      BY <2>2, FS_EmptySet
    <2> QED
      BY <1>0, <1>4, <2>1, <2>4, <2>5 DEF FutexFacts
  <1>17. FutexAfter(t)
    <2>1. Allowance(t)' \in Nat /\ Pending(t)' \in Nat
      BY <1>0, <1>15 DEF FutexFacts
    <2>2. maxAllowedFutexWakeups' - leaked' = maxAllowedFutexWakeups - leaked - Allowance(t) + Allowance(t)'
      BY <1>0, <1>2, <1>15 DEF FutexFacts
    <2>3. /\ Cardinality(Joining)' \in Nat
          /\ unmatchedFutexWakeups' + Cardinality(Joining)'
               = unmatchedFutexWakeups + Cardinality(Joining) - Pending(t) + Pending(t)'
      BY <1>0, <1>2, <1>15, <1>16 DEF FutexFacts
    <2> QED
      BY <1>2, <1>11, <1>13, <1>14, <2>1, <2>2, <2>3 DEF FutexAfter
  <1> QED
    BY <1>17, AfterKeeps

\* The kernel's wake fails: its allowance is leaked.
LEMMA KernelFailsStep ==
    ASSUME FutexInv, NEW t \in Threads, KernelFails(t)
    PROVE  FutexInv'
  <1>1. FutexFacts(t)
    BY FactsHold
  <1>2. /\ pc[t] = "wake" /\ Moves(t, "app", 0, 0)
        /\ leaked' = leaked + maxWakes[t] /\ leaked' <= MaxLeaked
        /\ maxAllowedFutexWakeups' = maxAllowedFutexWakeups
        /\ unmatchedFutexWakeups' = unmatchedFutexWakeups /\ disturbed' = disturbed
    BY DEF KernelFails, Forget, Go, Moves
  <1>3. Allowance(t) = maxWakes[t] /\ Pending(t) = 0
    BY <1>2 DEF Allowance, Pending
  <1>4. pc'[t] = "app"
    BY <1>2 DEF Moves, FutexInv, FutexTypeOK
  <1>5. Allowance(t)' = 0 /\ Pending(t)' = 0
    BY <1>4 DEF Allowance, Pending
  <1>6. "app" \in Pcs /\ 0 \in 0..MaxWakes /\ disturbed \in BOOLEAN
    BY <1>1 DEF Pcs, FutexFacts, FutexInv, FutexTypeOK
  <1>7. /\ maxAllowedFutexWakeups' \in Nat /\ unmatchedFutexWakeups' \in Nat /\ leaked' \in 0..MaxLeaked
        /\ maxAllowedFutexWakeups' - leaked' = maxAllowedFutexWakeups - leaked - Allowance(t) + Allowance(t)'
        /\ unmatchedFutexWakeups' = unmatchedFutexWakeups - Pending(t) + Pending(t)'
    BY <1>1, <1>2, <1>3, <1>5 DEF FutexFacts
  <1> QED
    BY <1>2, <1>6, <1>7, WakerMoveKeeps

\* The steps that only move t from one function to the next.
LEMMA JustMovesStep ==
    ASSUME FutexInv, NEW t \in Threads,
           \/ notifyFutexWakeEnd(t) \/ FutexWait(t) \/ ExternalWakes(t) \/ notifyFutexWaitWoken(t)
           \/ MatchSeen(t) \/ MatchLost(t)
    PROVE  FutexInv'
  <1>1. FutexFacts(t)
    BY FactsHold
  <1>2. maxWakes \in [Threads -> 0..MaxWakes] /\ wokenUp \in [Threads -> Nat] /\ pc \in [Threads -> Pcs]
    BY DEF FutexInv, FutexTypeOK
  <1>3. /\ maxAllowedFutexWakeups' = maxAllowedFutexWakeups /\ unmatchedFutexWakeups' = unmatchedFutexWakeups
        /\ leaked' = leaked /\ maxWakes' = maxWakes /\ wokenUp' = wokenUp
    BY DEF notifyFutexWakeEnd, FutexWait, ExternalWakes, notifyFutexWaitWoken, MatchSeen, MatchLost
  <1>4. PICK p \in Pcs : /\ pc' = [pc EXCEPT ![t] = p]
                         /\ \/ <<pc[t], p>> = <<"woke", "wakeJoin">> /\ disturbed' = disturbed
                            \/ <<pc[t], p>> = <<"app", "wait">> /\ disturbed' = disturbed
                            \/ <<pc[t], p>> = <<"wait", "woken">> /\ disturbed' = TRUE
                            \/ <<pc[t], p>> = <<"woken", "waitJoin">> /\ disturbed' = disturbed
                            \/ <<pc[t], p>> = <<"matching", "rechecking">> /\ disturbed' = disturbed
                            \/ <<pc[t], p>> = <<"rechecking", "matching">> /\ disturbed' = disturbed
    <2>1. CASE notifyFutexWakeEnd(t)
      BY <2>1 DEF notifyFutexWakeEnd, Go, Pcs
    <2>2. CASE FutexWait(t)
      BY <2>2 DEF FutexWait, Go, Pcs
    <2>3. CASE ExternalWakes(t)
      BY <2>3 DEF ExternalWakes, Go, Pcs
    <2>4. CASE notifyFutexWaitWoken(t)
      BY <2>4 DEF notifyFutexWaitWoken, Go, Pcs
    <2>5. CASE MatchSeen(t)
      BY <2>5 DEF MatchSeen, Go, Pcs
    <2>6. CASE MatchLost(t)
      BY <2>6 DEF MatchLost, Go, Pcs
    <2> QED
      BY <2>1, <2>2, <2>3, <2>4, <2>5, <2>6
  <1>5. Moves(t, p, maxWakes[t], wokenUp[t])
    BY <1>2, <1>3, <1>4 DEF Moves
  <1>6. pc'[t] = p
    BY <1>2, <1>4
  <1>7. Allowance(t)' = Allowance(t) /\ Pending(t)' = Pending(t)
    BY <1>3, <1>4, <1>6 DEF Allowance, Pending
  <1>8. /\ p = "wake" => maxWakes[t] \in {wokenUp[t], MaxWakes}
        /\ p \in {"woke", "wakeJoin", "matching", "rechecking"} => wokenUp[t] <= maxWakes[t]
    BY <1>4 DEF FutexInv, WokenAllowed
  <1>9. /\ maxWakes[t] \in 0..MaxWakes /\ wokenUp[t] \in Nat /\ disturbed' \in BOOLEAN /\ leaked' \in 0..MaxLeaked
        /\ ~disturbed' => ~disturbed /\ (pc[t] \in {"woken", "waitJoin"} <=> p \in {"woken", "waitJoin"})
    BY <1>2, <1>3, <1>4 DEF FutexInv, FutexTypeOK
  <1>10. Allowance(t) \in Int /\ Pending(t) \in Int
    BY <1>1 DEF FutexFacts, Pending
  <1>11. /\ maxAllowedFutexWakeups' \in Nat /\ unmatchedFutexWakeups' \in Nat
         /\ maxAllowedFutexWakeups' - leaked' = maxAllowedFutexWakeups - leaked - Allowance(t) + Allowance(t)'
         /\ unmatchedFutexWakeups' = unmatchedFutexWakeups - Pending(t) + Pending(t)'
    BY <1>1, <1>3, <1>7, <1>10 DEF FutexFacts
  <1> QED
    BY <1>5, <1>8, <1>9, <1>11, WakerMoveKeeps

\* futexWakeJoin().
LEMMA WakeJoinStep ==
    ASSUME FutexInv, NEW t \in Threads, WakeJoinStarts(t)
    PROVE  FutexInv'
  <1>1. FutexFacts(t)
    BY FactsHold
  <1>2. maxWakes \in [Threads -> 0..MaxWakes] /\ wokenUp \in [Threads -> Nat] /\ pc \in [Threads -> Pcs]
    BY DEF FutexInv, FutexTypeOK
  <1>3. /\ pc[t] = "wakeJoin" /\ pc' = [pc EXCEPT ![t] = "matching"] /\ maxAllowedFutexWakeups' = Adjusted(t)
        /\ unmatchedFutexWakeups' = unmatchedFutexWakeups /\ disturbed' = disturbed
        /\ leaked' = leaked /\ maxWakes' = maxWakes /\ wokenUp' = wokenUp
    BY DEF WakeJoinStarts, Go
  <1>4. Moves(t, "matching", maxWakes[t], wokenUp[t])
    BY <1>2, <1>3 DEF Moves
  <1>5. wokenUp[t] <= maxWakes[t]
    BY <1>3 DEF FutexInv, WokenAllowed
  <1>6. Allowance(t) = maxWakes[t] /\ Pending(t) = wokenUp[t]
    BY <1>3 DEF Allowance, Pending
  <1>7. pc'[t] = "matching"
    BY <1>2, <1>3
  <1>8. Allowance(t)' = wokenUp[t] /\ Pending(t)' = wokenUp[t]
    BY <1>3, <1>7 DEF Allowance, Pending
  <1>9. Adjusted(t) = maxAllowedFutexWakeups - (maxWakes[t] - wokenUp[t])
    <2>1. Sub(maxWakes[t], wokenUp[t]) = maxWakes[t] - wokenUp[t]
      BY <1>1, <1>5, SubExact DEF FutexFacts
    <2>2. PICK d \in Nat : d = maxWakes[t] - wokenUp[t]
      BY <1>1, <1>5 DEF FutexFacts
    <2>3. maxAllowedFutexWakeups \in Nat /\ d <= maxAllowedFutexWakeups /\ maxAllowedFutexWakeups < Width
      BY <1>1, <1>5, <1>6, <2>2 DEF FutexFacts
    <2> QED
      BY <2>1, <2>2, <2>3, SubExact DEF Adjusted
  <1>10. /\ maxWakes[t] \in 0..MaxWakes /\ wokenUp[t] \in Nat /\ disturbed' \in BOOLEAN /\ leaked' \in 0..MaxLeaked
         /\ "matching" \in Pcs
    BY <1>2, <1>3 DEF FutexInv, FutexTypeOK, Pcs
  <1>11. /\ maxAllowedFutexWakeups' \in Nat /\ unmatchedFutexWakeups' \in Nat
         /\ maxAllowedFutexWakeups' - leaked' = maxAllowedFutexWakeups - leaked - Allowance(t) + Allowance(t)'
         /\ unmatchedFutexWakeups' = unmatchedFutexWakeups - Pending(t) + Pending(t)'
    BY <1>1, <1>3, <1>5, <1>6, <1>8, <1>9 DEF FutexFacts
  <1> QED
    BY <1>3, <1>4, <1>5, <1>10, <1>11, WakerMoveKeeps

\* Matched or not, a waker takes back what it still counts for.
LEMMA MatchEndsStep ==
    ASSUME FutexInv, NEW t \in Threads, WakeMatched(t) \/ WakeTimesOut(t)
    PROVE  FutexInv'
  <1>1. FutexFacts(t)
    BY FactsHold
  <1>2. /\ pc[t] \in {"matching", "rechecking"} /\ Moves(t, "app", 0, 0) /\ leaked' = leaked
        /\ maxAllowedFutexWakeups' = Sub(maxAllowedFutexWakeups, wokenUp[t])
    BY DEF WakeMatched, WakeTimesOut, Forget, Go, Moves
  <1>3. Allowance(t) = wokenUp[t] /\ Pending(t) = wokenUp[t]
    BY <1>2 DEF Allowance, Pending
  <1>4. pc'[t] = "app"
    BY <1>2 DEF Moves, FutexInv, FutexTypeOK
  <1>5. Allowance(t)' = 0 /\ Pending(t)' = 0
    BY <1>4 DEF Allowance, Pending
  <1>6. maxAllowedFutexWakeups' = maxAllowedFutexWakeups - wokenUp[t]
    <2>1. wokenUp[t] <= maxAllowedFutexWakeups
      BY <1>1, <1>3 DEF FutexFacts
    <2> QED
      BY <1>1, <1>2, <2>1, SubExact DEF FutexFacts
  <1>7. /\ unmatchedFutexWakeups' \in Nat /\ disturbed' \in BOOLEAN
        /\ ~disturbed' => ~disturbed /\ unmatchedFutexWakeups' = unmatchedFutexWakeups - wokenUp[t]
    <2>1. CASE WakeMatched(t)
      <3>1. /\ wokenUp[t] <= unmatchedFutexWakeups /\ disturbed' = disturbed /\ disturbed \in BOOLEAN
            /\ unmatchedFutexWakeups' = Sub(unmatchedFutexWakeups, wokenUp[t])
        BY <2>1 DEF WakeMatched, FutexInv, FutexTypeOK
      <3>2. CASE unmatchedFutexWakeups < Width
        <4>1. unmatchedFutexWakeups' = unmatchedFutexWakeups - wokenUp[t]
          BY <1>1, <3>1, <3>2, SubExact DEF FutexFacts
        <4> QED
          BY <1>1, <3>1, <4>1 DEF FutexFacts
      <3>3. CASE ~(unmatchedFutexWakeups < Width)
        <4>1. disturbed
          BY <1>1, <3>3 DEF FutexFacts
        <4>2. PICK d \in Nat : d = unmatchedFutexWakeups - wokenUp[t]
          BY <1>1, <3>1 DEF FutexFacts
        <4>3. d % Width \in Nat
          BY FutexAssumption
        <4> QED
          BY <3>1, <4>1, <4>2, <4>3 DEF Sub
      <3> QED
        BY <3>2, <3>3
    <2>2. CASE WakeTimesOut(t)
      BY <2>2 DEF WakeTimesOut
    <2> QED
      BY <2>1, <2>2
  <1>8. "app" \in Pcs /\ 0 \in 0..MaxWakes /\ leaked' \in 0..MaxLeaked
    BY <1>1, <1>2 DEF Pcs, FutexFacts, FutexInv, FutexTypeOK
  <1>9. /\ maxAllowedFutexWakeups' \in Nat
        /\ maxAllowedFutexWakeups' - leaked' = maxAllowedFutexWakeups - leaked - Allowance(t) + Allowance(t)'
        /\ ~disturbed' => unmatchedFutexWakeups' = unmatchedFutexWakeups - Pending(t) + Pending(t)'
    <2>1. leaked' = leaked
      BY <1>2
    <2> QED
      BY <1>1, <1>3, <1>5, <1>6, <1>7, <2>1 DEF FutexFacts
  <1> QED
    BY <1>2, <1>7, <1>8, <1>9, WakerMoveKeeps

\* futexWaitJoin().
LEMMA WaitJoinStep ==
    ASSUME FutexInv, NEW t \in Threads, futexWaitJoin(t)
    PROVE  FutexInv'
  <1>1. FutexFacts(t)
    BY FactsHold
  <1>2. maxWakes \in [Threads -> 0..MaxWakes] /\ wokenUp \in [Threads -> Nat] /\ pc \in [Threads -> Pcs]
    BY DEF FutexInv, FutexTypeOK
  <1>3. /\ pc[t] = "waitJoin" /\ pc' = [pc EXCEPT ![t] = "app"]
        /\ maxAllowedFutexWakeups' = maxAllowedFutexWakeups
        /\ unmatchedFutexWakeups' = IF unmatchedFutexWakeups >= maxAllowedFutexWakeups
                                    THEN unmatchedFutexWakeups ELSE unmatchedFutexWakeups + 1
        /\ leaked' = leaked /\ maxWakes' = maxWakes /\ wokenUp' = wokenUp /\ disturbed' = disturbed
    BY DEF futexWaitJoin, Go
  <1>4. Moves(t, "app", maxWakes[t], wokenUp[t])
    BY <1>2, <1>3 DEF Moves
  <1>5. "app" \in Pcs /\ maxWakes[t] \in 0..MaxWakes /\ wokenUp[t] \in Nat
    BY <1>2 DEF Pcs
  <1>6. /\ pc'[t] = "app"
        /\ \A u \in Threads : u # t => pc'[u] = pc[u] /\ Allowance(u)' = Allowance(u) /\ Pending(u)' = Pending(u)
        /\ pc' \in [Threads -> Pcs] /\ maxWakes' \in [Threads -> 0..MaxWakes] /\ wokenUp' \in [Threads -> Nat]
        /\ WokenAllowed'
    BY <1>4, <1>5, MoveKeeps
  <1>7. Allowance(t) = 0 /\ Pending(t) = 0
    BY <1>3 DEF Allowance, Pending
  <1>8. Allowance(t)' = 0 /\ Pending(t)' = 0
    BY <1>6 DEF Allowance, Pending
  <1>9. FutexTypeOK'
    <2>1. unmatchedFutexWakeups' \in Nat
      BY <1>1, <1>3 DEF FutexFacts
    <2> QED
      BY <1>3, <1>6, <2>1 DEF FutexTypeOK, FutexInv
  <1>10. Cardinality(Joining)' = Cardinality(Joining) - 1
    <2>1. t \in Joining /\ Joining' = Joining \ {t}
      BY <1>3, <1>6 DEF Joining
    <2>2. IsFiniteSet(Joining)
      BY FutexAssumption, FS_Subset DEF Joining
    <2> QED
      BY <2>1, <2>2, FS_RemoveElement
  <1>11. Cardinality(Joining) > 0
    <2>1. t \in Joining /\ IsFiniteSet(Joining)
      BY <1>3, FutexAssumption, FS_Subset DEF Joining
    <2> QED
      BY <1>1, <2>1, FS_EmptySet DEF FutexFacts
  <1>12. ~disturbed => unmatchedFutexWakeups' = unmatchedFutexWakeups + 1
    BY <1>1, <1>3, <1>11 DEF FutexFacts
  <1>13. FutexAfter(t)
    BY <1>1, <1>3, <1>6, <1>7, <1>8, <1>9, <1>10, <1>11, <1>12 DEF FutexAfter, FutexFacts
  <1> QED
    BY <1>13, AfterKeeps

-----------------------------------------------------------------------------
\* The allowance for joins is at every time what the wakers in flight account
\* for (and what failed wakes have leaked), so that it never underflows; and as
\* long as no wake times out or comes from outside, joins and wakes balance and
\* the assertion of futexWakeJoin() holds.
THEOREM WakesAreMatched == FutexSpec => []WakesMatched
  <1>1. Init => FutexInv
    <2> SUFFICES ASSUME Init PROVE FutexInv
      OBVIOUS
    <2>1. FutexTypeOK
      <3>1. 0 \in 0..MaxWakes /\ 0 \in 0..MaxLeaked /\ 0 \in Nat /\ "app" \in Pcs
        BY FutexAssumption DEF Pcs
      <3>2. /\ maxWakes \in [Threads -> 0..MaxWakes] /\ wokenUp \in [Threads -> Nat] /\ pc \in [Threads -> Pcs]
        BY <3>1 DEF Init
      <3> QED
        BY <3>1, <3>2 DEF Init, FutexTypeOK
    <2>2. WokenAllowed
      BY DEF Init, WokenAllowed
    <2>3. \A t \in Threads : Allowance(t) = 0 /\ Pending(t) = 0
      BY DEF Init, Allowance, Pending
    <2>4. /\ Allowances \in [Threads -> Int] /\ Pendings \in [Threads -> Int]
          /\ \A t \in Threads : Allowances[t] = 0 /\ Pendings[t] = 0
      BY <2>3 DEF Allowances, Pendings
    <2>5. SumFunction(Allowances) = 0 /\ SumFunction(Pendings) = 0
      <3>1. /\ Cardinality(Threads) \in Nat /\ SumFunction(Allowances) = Cardinality(Threads) * 0
            /\ SumFunction(Pendings) = Cardinality(Threads) * 0
        BY <2>4, FutexAssumption, SumConstant
      <3> QED
        BY <3>1
    <2>6. Joining = {} /\ Cardinality({}) = 0
      BY FS_EmptySet DEF Init, Joining
    <2>7. AllowanceExact
      BY <2>5 DEF Init, AllowanceExact, Allowances
    <2>8. WakesConserved
      BY <2>5, <2>6 DEF Init, WakesConserved, Pendings
    <2> QED
      BY <2>1, <2>2, <2>7, <2>8 DEF FutexInv
  <1>2. FutexInv /\ [Next]_vars => FutexInv'
    <2> SUFFICES ASSUME FutexInv, [Next]_vars PROVE FutexInv'
      OBVIOUS
    <2>1. CASE UNCHANGED vars
      BY <2>1 DEF vars, FutexInv, FutexTypeOK, WokenAllowed, AllowanceExact, WakesConserved, Allowance, Pending, Joining
    <2>2. ASSUME NEW t \in Threads, Step(t) PROVE FutexInv'
      BY <2>2, WakeStartStep, KernelWakesStep, KernelFailsStep, JustMovesStep, WakeJoinStep, MatchEndsStep, WaitJoinStep
         DEF Step, WakeStep
    <2> QED
      BY <2>1, <2>2 DEF Next
  <1>3. FutexInv => WakesMatched
    BY AssertFollows
  <1> QED
    BY <1>1, <1>2, <1>3, PTL DEF FutexSpec

-----------------------------------------------------------------------------
Sockets == [proc : Binders, virt : VirtPorts \cup {AnyPort}, real : RealPorts]

Binds == [pc : {"idle", "kernel", "bound", "refused"},
          virt : VirtPorts \cup {AnyPort}, real : RealPorts \cup {AnyPort}]

PortTypeOK ==
    /\ virtToReal \in [Domains -> [VirtPorts -> RealPorts \cup {AnyPort}]]
    /\ realToVirt \in [Domains -> [RealPorts -> VirtPorts \cup {AnyPort}]]
    /\ pvLock \in [Domains -> Binders \cup {Nobody}]
    /\ bind \in [Binders -> Binds]
    /\ sockets \subseteq Sockets

\* A bind() of a port that a program chose holds the lock of its domain ...
BindLocks ==
    \A p \in Binders : bind[p].pc # "idle" /\ bind[p].virt # AnyPort => pvLock[domain[p]] = p

\* ... so that the translation it has looked up is still the one there is.
LookupFresh ==
    \A p \in Binders : bind[p].virt # AnyPort =>
        /\ bind[p].pc = "kernel" => virtToReal[domain[p]][bind[p].virt] = bind[p].real
        /\ bind[p].pc = "bound" => virtToReal[domain[p]][bind[p].virt] \in {AnyPort, bind[p].real}

\* The system gives no port to two sockets.
RealUnique == \A s, u \in sockets : s.real = u.real => s = u

Registered(s) ==
    /\ virtToReal[domain[s.proc]][s.virt] = s.real
    /\ realToVirt[domain[s.proc]][s.real] = s.virt

\* The socket of a bind() that has been answered and has not returned.
InBind(s) ==
    bind[s.proc].pc = "bound" /\ bind[s.proc].virt = s.virt /\ bind[s.proc].real = s.real

\* A socket with a port of its program is registered both ways, or about to be.
SocketsKnown == \A s \in sockets : s.virt # AnyPort => Registered(s) \/ InBind(s)

\* The socket that a bind() will register is there.
BoundIsOpen ==
    \A p \in Binders : bind[p].pc = "bound" =>
        \E s \in sockets : s.proc = p /\ s.virt = bind[p].virt /\ s.real = bind[p].real

\* The translation of a real port is never stale: it leads back to it.
TranslatesBack ==
    \A d \in Domains, r \in RealPorts :
        realToVirt[d][r] # AnyPort => virtToReal[d][realToVirt[d][r]] = r

PortInv ==
    /\ PortTypeOK /\ BindLocks /\ LookupFresh /\ RealUnique
    /\ SocketsKnown /\ BoundIsOpen /\ TranslatesBack

-----------------------------------------------------------------------------

\* Initially nothing is bound.
LEMMA PortInitInv == PortInit => PortInv
  BY PortsAssumption
     DEF PortInit, PortInv, PortTypeOK, Binds, BindLocks, LookupFresh, RealUnique, SocketsKnown, BoundIsOpen,
         TranslatesBack, NoBind, Registered, InBind

\* A bind() enters: it looks up a translation and takes the lock with it.
LEMMA EnterBindInv ==
    ASSUME PortInv, NEW p \in Binders, NEW v \in VirtPorts \cup {AnyPort}, EnterBind(p, v)
    PROVE  PortInv'
  <1> USE PortsAssumption DEF PortInv
  <1>1. PortTypeOK'
    <2>1. [NoBind EXCEPT !.pc = "kernel"] \in Binds
      BY DEF Binds, NoBind
    <2>2. v # AnyPort => [pc |-> "kernel", virt |-> v, real |-> lookupReal(domain[p], v)] \in Binds
      BY DEF PortTypeOK, Binds, lookupReal
    <2>3. bind' \in [Binders -> Binds]
      BY <2>1, <2>2 DEF EnterBind, PortTypeOK
    <2>4. pvLock' \in [Domains -> Binders \cup {Nobody}]
      BY DEF EnterBind, PortTypeOK
    <2> QED
      BY <2>3, <2>4 DEF EnterBind, PortTypeOK
  <1>2. bind'[p].pc = "kernel" /\ bind[p].pc = "idle"
    BY DEF EnterBind, PortTypeOK, Binds, NoBind
  <1>3. \A q \in Binders \ {p} : bind'[q] = bind[q]
    BY DEF EnterBind, PortTypeOK, Binds
  <1>4. \A q \in Binders \ {p} : bind[q].pc # "idle" /\ bind[q].virt # AnyPort => pvLock'[domain[q]] = q
    BY DEF EnterBind, PortTypeOK, Binds, BindLocks, LockPort
  <1>5. BindLocks'
    <2>1. bind'[p].virt # AnyPort => pvLock'[domain[p]] = p
      BY DEF EnterBind, PortTypeOK, Binds, NoBind
    <2> QED
      BY <2>1, <1>3, <1>4 DEF BindLocks
  <1>6. LookupFresh'
    <2>1. bind'[p].virt # AnyPort => virtToReal[domain[p]][bind'[p].virt] = bind'[p].real
      BY DEF EnterBind, PortTypeOK, Binds, NoBind, lookupReal
    <2> QED
      BY <2>1, <1>2, <1>3 DEF LookupFresh, EnterBind
  <1>7. RealUnique' /\ TranslatesBack'
    BY DEF EnterBind, RealUnique, TranslatesBack
  <1>8. SocketsKnown'
    BY <1>2, <1>3 DEF EnterBind, SocketsKnown, PortTypeOK, Binds, Sockets, Registered, InBind
  <1>9. BoundIsOpen'
    BY <1>2, <1>3 DEF EnterBind, BoundIsOpen
  <1> QED
    BY <1>1, <1>5, <1>6, <1>7, <1>8, <1>9

\* The kernel answers: with a port that no socket has, or not at all.
LEMMA KernelBindInv ==
    ASSUME PortInv, NEW p \in Binders, KernelBind(p)
    PROVE  PortInv'
  <1> USE PortsAssumption DEF PortInv
  <1>1. CASE UNCHANGED sockets /\ bind' = [bind EXCEPT ![p].pc = "refused"]
    <2>1. PortTypeOK'
      BY <1>1 DEF KernelBind, PortTypeOK, Binds
    <2>2. /\ \A q \in Binders : bind'[q].virt = bind[q].virt /\ bind'[q].real = bind[q].real
          /\ \A q \in Binders \ {p} : bind'[q].pc = bind[q].pc
          /\ bind'[p].pc = "refused" /\ bind[p].pc = "kernel"
      BY <1>1 DEF PortTypeOK, Binds, KernelBind
    <2>3. BindLocks' /\ LookupFresh'
      BY <2>2 DEF BindLocks, LookupFresh, KernelBind
    <2>4. RealUnique' /\ TranslatesBack'
      BY <1>1 DEF RealUnique, TranslatesBack, KernelBind
    <2>5. SocketsKnown'
      BY <1>1, <2>2 DEF SocketsKnown, KernelBind, PortTypeOK, Sockets, Registered, InBind
    <2>6. BoundIsOpen'
      BY <1>1, <2>2 DEF BoundIsOpen
    <2> QED
      BY <2>1, <2>3, <2>4, <2>5, <2>6
  <1>2. ASSUME NEW r \in RealPorts,
               r \notin {s.real : s \in sockets},
               bind[p].real \in {AnyPort, r},
               bind' = [bind EXCEPT ![p].pc = "bound", ![p].real = r],
               sockets' = sockets \cup {[proc |-> p, virt |-> bind[p].virt, real |-> r]}
        PROVE  PortInv'
    <2>n. PICK n : n = [proc |-> p, virt |-> bind[p].virt, real |-> r]
      OBVIOUS
    <2>0. n \in Sockets /\ n.proc = p /\ n.virt = bind[p].virt /\ n.real = r
      BY <2>n DEF PortTypeOK, Binds, Sockets
    <2>00. sockets' = sockets \cup {n}
      BY <1>2, <2>n
    <2>1. PortTypeOK'
      <3>1. bind' \in [Binders -> Binds]
        BY <1>2 DEF PortTypeOK, Binds
      <3> QED
        BY <2>0, <2>00, <3>1 DEF KernelBind, PortTypeOK
    <2>2. /\ \A q \in Binders : bind'[q].virt = bind[q].virt
          /\ \A q \in Binders \ {p} : bind'[q].pc = bind[q].pc /\ bind'[q].real = bind[q].real
          /\ bind'[p].pc = "bound" /\ bind'[p].real = r /\ bind[p].pc = "kernel"
      BY <1>2, ZenonT(60) DEF PortTypeOK, Binds, KernelBind
    <2>3. BindLocks'
      BY <2>2 DEF BindLocks, KernelBind
    <2>4. LookupFresh'
      BY <1>2, <2>2, ZenonT(60) DEF LookupFresh, KernelBind
    <2>5. RealUnique'
      BY <1>2, <2>0, <2>00 DEF RealUnique
    <2>6. SocketsKnown'
      <3>1. InBind(n)'
        BY <2>0, <2>2 DEF InBind
      <3>2. ASSUME NEW s \in sockets, s.virt # AnyPort PROVE (Registered(s) \/ InBind(s))'
        <4>1. CASE Registered(s)
          BY <4>1 DEF Registered, KernelBind
        <4>2. CASE InBind(s)
          BY <4>2, <2>2 DEF InBind, PortTypeOK, Sockets
        <4> QED
          BY <3>2, <4>1, <4>2 DEF SocketsKnown
      <3> QED
        BY <3>1, <3>2, <2>00 DEF SocketsKnown
    <2>7. BoundIsOpen'
      <3> SUFFICES ASSUME NEW q \in Binders, bind'[q].pc = "bound"
                   PROVE  \E s \in sockets' : s.proc = q /\ s.virt = bind'[q].virt /\ s.real = bind'[q].real
        BY DEF BoundIsOpen
      <3>1. CASE q = p
        BY <3>1, <2>0, <2>00, <2>2
      <3>2. CASE q # p
        BY <3>2, <2>00, <2>2 DEF BoundIsOpen
      <3> QED
        BY <3>1, <3>2
    <2>8. TranslatesBack'
      BY DEF TranslatesBack, KernelBind
    <2> QED
      BY <2>1, <2>3, <2>4, <2>5, <2>6, <2>7, <2>8
  <1> QED
    BY <1>1, <1>2 DEF KernelBind

\* A bind() registers its translation: only of a port it alone has.
LEMMA RegisterInv ==
    ASSUME PortInv, NEW p \in Binders, ExitBind(p), bind[p].pc = "bound", bind[p].virt # AnyPort
    PROVE  PortInv'
  <1> USE PortsAssumption DEF PortInv
  <1> DEFINE d == domain[p]
             v == bind[p].virt
             r == bind[p].real
  <1>0. d \in Domains /\ v \in VirtPorts /\ pvLock[d] = p
    BY DEF PortTypeOK, Binds, BindLocks
  <1>1. PICK s \in sockets : s.proc = p /\ s.virt = v /\ s.real = r
    BY DEF BoundIsOpen
  <1>2. r \in RealPorts
    BY <1>1 DEF PortTypeOK, Binds, Sockets
  <1>3. /\ virtToReal' = [virtToReal EXCEPT ![d][v] = r]
        /\ realToVirt' = [realToVirt EXCEPT ![d][r] = v]
        /\ bind' = [bind EXCEPT ![p] = NoBind]
        /\ pvLock' = [pvLock EXCEPT ![d] = Nobody]
        /\ sockets' = sockets
    BY DEF ExitBind, registerBind
  <1>4. PortTypeOK'
    BY <1>0, <1>2, <1>3 DEF PortTypeOK, Binds, NoBind
  <1>5. /\ \A q \in Binders \ {p} : bind'[q] = bind[q]
        /\ bind'[p].pc = "idle" /\ bind'[p].virt = AnyPort
    BY <1>3 DEF PortTypeOK, Binds, NoBind
  <1>6. virtToReal[d][v] \in {AnyPort, r}
    BY DEF LookupFresh
  <1>7. \A q \in Binders \ {p} : bind[q].pc # "idle" /\ bind[q].virt # AnyPort => domain[q] # d
    BY <1>0 DEF BindLocks
  <1>8. BindLocks'
    BY <1>0, <1>3, <1>5, <1>7 DEF BindLocks, PortTypeOK, Binds
  <1>9. /\ \A e \in Domains, x \in VirtPorts : virtToReal'[e][x] = IF e = d /\ x = v THEN r ELSE virtToReal[e][x]
        /\ \A e \in Domains, x \in RealPorts : realToVirt'[e][x] = IF e = d /\ x = r THEN v ELSE realToVirt[e][x]
    BY <1>0, <1>2, <1>3 DEF PortTypeOK, Binds
  <1>10. LookupFresh'
    <2> SUFFICES ASSUME NEW q \in Binders, bind'[q].virt # AnyPort, bind'[q].pc # "idle"
                 PROVE  virtToReal'[domain[q]][bind'[q].virt] = virtToReal[domain[q]][bind[q].virt] /\ bind'[q] = bind[q]
      BY DEF LookupFresh
    <2>1. q # p /\ bind'[q] = bind[q]
      BY <1>5
    <2> QED
      BY <2>1, <1>7, <1>9 DEF PortTypeOK, Binds
  <1>11. RealUnique'
    BY <1>3 DEF RealUnique
  <1>12. SocketsKnown'
    <2> SUFFICES ASSUME NEW u \in sockets, u.virt # AnyPort PROVE (Registered(u) \/ InBind(u))'
      BY <1>3 DEF SocketsKnown
    <2>0. u.proc \in Binders /\ domain[u.proc] \in Domains /\ u.virt \in VirtPorts /\ u.real \in RealPorts
      BY DEF PortTypeOK, Binds, Sockets
    <2>1. CASE u = s
      BY <2>0, <2>1, <1>1, <1>9 DEF Registered
    <2>2. CASE u # s
      <3>1. u.real # r
        BY <2>2, <1>1 DEF RealUnique
      <3>2. CASE InBind(u)
        <4>1. u.proc # p
          BY <3>1, <3>2 DEF InBind
        <4> QED
          BY <4>1, <2>0, <3>2, <1>5 DEF InBind
      <3>3. CASE Registered(u)
        <4>1. ~(domain[u.proc] = d /\ u.virt = v)
          BY <3>1, <3>3, <1>6, <2>0 DEF Registered
        <4> QED
          BY <4>1, <3>1, <3>3, <1>9, <2>0 DEF Registered
      <3> QED
        BY <3>2, <3>3 DEF SocketsKnown
    <2> QED
      BY <2>1, <2>2
  <1>13. BoundIsOpen'
    BY <1>3, <1>5 DEF BoundIsOpen
  <1>14. TranslatesBack'
    <2> SUFFICES ASSUME NEW e \in Domains, NEW x \in RealPorts, realToVirt'[e][x] # AnyPort
                 PROVE  virtToReal'[e][realToVirt'[e][x]] = x
      BY DEF TranslatesBack
    <2>1. CASE e = d /\ x = r
      BY <2>1, <1>0, <1>2, <1>9
    <2>2. CASE ~(e = d /\ x = r)
      <3>1. realToVirt'[e][x] = realToVirt[e][x] /\ realToVirt[e][x] \in VirtPorts
        BY <2>2, <1>9 DEF PortTypeOK, Binds
      <3>2. virtToReal[e][realToVirt[e][x]] = x
        BY <3>1 DEF TranslatesBack
      <3>3. ~(e = d /\ realToVirt[e][x] = v)
        BY <2>2, <3>2, <1>6
      <3> QED
        BY <3>1, <3>2, <3>3, <1>9
    <2> QED
      BY <2>1, <2>2
  <1> QED
    BY <1>4, <1>8, <1>10, <1>11, <1>12, <1>13, <1>14

\* A bind() of port 0, or one that has failed, leaves the translations alone.
LEMMA ExitBindInv ==
    ASSUME PortInv, NEW p \in Binders, ExitBind(p)
    PROVE  PortInv'
  <1> USE PortsAssumption DEF PortInv
  <1>1. CASE bind[p].pc = "bound" /\ bind[p].virt # AnyPort
    BY <1>1, RegisterInv
  <1>2. CASE ~(bind[p].pc = "bound" /\ bind[p].virt # AnyPort)
    <2>1. /\ UNCHANGED <<virtToReal, realToVirt, sockets>>
          /\ bind' = [bind EXCEPT ![p] = NoBind]
          /\ pvLock' = IF bind[p].virt = AnyPort THEN pvLock ELSE [pvLock EXCEPT ![domain[p]] = Nobody]
          /\ bind[p].pc # "idle"
      BY <1>2 DEF ExitBind
    <2>2. PortTypeOK'
      BY <2>1 DEF PortTypeOK, Binds, NoBind
    <2>3. /\ \A q \in Binders \ {p} : bind'[q] = bind[q]
          /\ bind'[p].pc = "idle" /\ bind'[p].virt = AnyPort
      BY <2>1 DEF PortTypeOK, Binds, NoBind
    <2>4. BindLocks'
      BY <2>1, <2>3 DEF BindLocks, PortTypeOK, Binds
    <2>5. LookupFresh' /\ RealUnique' /\ TranslatesBack' /\ BoundIsOpen'
      BY <2>1, <2>3 DEF LookupFresh, RealUnique, TranslatesBack, BoundIsOpen
    <2>6. SocketsKnown'
      BY <1>2, <2>1, <2>3 DEF SocketsKnown, PortTypeOK, Binds, Sockets, Registered, InBind
    <2> QED
      BY <2>2, <2>4, <2>5, <2>6
  <1> QED
    BY <1>1, <1>2

\* A close() takes a socket that no bind() is about to register.
LEMMA CloseInv ==
    ASSUME PortInv, NEW s \in sockets, Close(s)
    PROVE  PortInv'
  BY PortsAssumption
     DEF Close, PortInv, PortTypeOK, Binds, BindLocks, LookupFresh, RealUnique, SocketsKnown, BoundIsOpen,
         TranslatesBack, Registered, InBind, Sockets

\* The invariant gives what programs see of the ports.
LEMMA PortInvSuffices == PortInv => PortsExact
  <1> SUFFICES ASSUME PortInv PROVE PortsExact
    OBVIOUS
  <1> USE PortsAssumption DEF PortInv
  <1>1. ASSUME NEW s \in sockets, NEW u \in sockets,
               domain[s.proc] = domain[u.proc], s.virt = u.virt, s.virt # AnyPort
        PROVE  s = u
    <2>0. /\ s.proc \in Binders /\ s.real \in RealPorts
          /\ u.proc \in Binders /\ u.real \in RealPorts
      BY DEF PortTypeOK, Binds, Sockets
    <2>1. (Registered(s) \/ InBind(s)) /\ (Registered(u) \/ InBind(u))
      BY <1>1 DEF SocketsKnown
    <2>2. s.real = u.real
      BY <2>0, <2>1, <1>1 DEF Registered, InBind, LookupFresh, BindLocks
    <2> QED
      BY <2>2 DEF RealUnique
  <1>2. ASSUME NEW s \in sockets, bind[s.proc].pc = "idle"
        PROVE  LET d == domain[s.proc]
                   reported == PatchGetsockname(d, s.real)
               IN  /\ s.virt # AnyPort => reported = s.virt /\ ~Mistaken(d, s.real)
                   /\ ~Mistaken(d, s.real) => PatchConnect(d, reported) = s.real
    <2>0. s.proc \in Binders /\ s.real \in RealPorts /\ domain[s.proc] \in Domains
      BY DEF PortTypeOK, Binds, Sockets
    <2>1. s.virt # AnyPort => Registered(s)
      BY <1>2 DEF SocketsKnown, InBind
    <2> QED
      BY <2>0, <2>1
         DEF Mistaken, PatchGetsockname, PatchConnect, lookupReal, lookupVirt, Registered, TranslatesBack, PortTypeOK, Binds
  <1> QED
    BY <1>1, <1>2 DEF PortsExact

\* Every socket is known by the port that its program bound it to, and is
\* reached by it, whatever was closed, refused, reused or bound at the same
\* time, and whichever numbers are ports of programs and of the system both;
\* one bound to port 0 is reached unless its number is another's.
THEOREM PortsAreExact == PortSpec => []PortsExact
  <1>1. PortInv /\ [PortNext]_portVars => PortInv'
    <2> SUFFICES ASSUME PortInv, [PortNext]_portVars PROVE PortInv'
      OBVIOUS
    <2>1. CASE PortNext
      BY <2>1, EnterBindInv, KernelBindInv, ExitBindInv, CloseInv DEF PortNext
    <2>2. CASE UNCHANGED portVars
      BY <2>2 DEF portVars, PortInv, PortTypeOK, Binds, BindLocks, LookupFresh, RealUnique, SocketsKnown,
                  BoundIsOpen, TranslatesBack, Registered, InBind
    <2> QED
      BY <2>1, <2>2
  <1> QED
    BY <1>1, PortInitInv, PortInvSuffices, PTL DEF PortSpec

-----------------------------------------------------------------------------
(***************************************************************************)
(* Shared libraries.                                                       *)
(***************************************************************************)

PageRecs == [lib : Libs \cup {"0", "none"}, off : Int, perm : {"r-xp", "r--p", "rw-p", "rwxp", "none"}]

MapPcs == {"none", "mmap", "munmap", "mprotect", "test", "renew"}

MapTypeOK ==
    /\ mode \in Modes
    /\ maps \in [MapProcs -> [Pages -> PageRecs]]
    /\ procList \subseteq MapProcs
    /\ perProcessInfo \in [MapProcs -> [Pages -> PageRecs]]
    /\ libSlot \in [Libs -> Nat]
    /\ firstPhase \in BOOLEAN
    /\ mapCall \in [MapProcs -> MapPcs]

\* The first page of a library stays as long as any of it does, and the others
\* are at their offsets from it.
LaidOut(map) ==
    \A l \in Libs : PagesOf(map, l) # {} =>
        \E b \in PagesOf(map, l) : \A a \in PagesOf(map, l) : b <= a /\ map[a].off = a - b

\* The stack is where it was, and all other pages are those of libraries.
StackApart(map) == map[0] = Anon /\ \A a \in Pages \ {0} : map[a] = NoPage \/ map[a].lib \in Libs

\* Libraries have ranges of their own.
UsedSlots == {l \in Libs : libSlot[l] # 0}
SlotsApart ==
    /\ \A l \in Libs : libSlot[l] <= Cardinality(UsedSlots)
    /\ \A l, m \in UsedSlots : libSlot[l] = libSlot[m] => l = m

\* What the copies are good for, although they are stale: the pages of libraries
\* are as the process sees them, unless it was missed.
CopiesGood ==
    \A p \in procList \ missed : (firstPhase \/ phaseEnd # "idle") /\ mapCall[p] \in {"none", "munmap"} =>
        \A a \in Pages : maps[p][a].lib \in Libs => perProcessInfo[p][a] = maps[p][a]

\* The libraries of a copy have ranges.
CopyHasSlots(copy) == \A a \in Pages : copy[a].lib \in Libs => copy[a].lib \in UsedSlots

MapInv ==
    /\ MapTypeOK /\ SlotsApart /\ CopiesGood
    /\ \A p \in MapProcs : LaidOut(maps[p]) /\ StackApart(maps[p])
    /\ \A p \in MapProcs : /\ LaidOut(perProcessInfo[p]) /\ perProcessInfo[p][0].lib \notin Libs
                            /\ CopyHasSlots(perProcessInfo[p])

\* SetToSeq() lists every element of a finite set once.
LEMMA Enumerates ==
    ASSUME NEW S, IsFiniteSet(S), NEW q, q = SetToSeq(S)
    PROVE  /\ Cardinality(S) \in Nat /\ q \in [1..Cardinality(S) -> S]
           /\ \A i, j \in DOMAIN q : q[i] = q[j] => i = j
           /\ \A x \in S : \E i \in DOMAIN q : q[i] = x
  <1>1. Cardinality(S) \in Nat /\ ExistsBijection(1..Cardinality(S), S)
    BY FS_CardinalityType
  <1>2. \E f \in [1..Cardinality(S) -> S] : IsInjective(f)
    BY <1>1 DEF ExistsBijection, Bijection, Injection
  <1>3. q \in [1..Cardinality(S) -> S] /\ IsInjective(q)
    BY <1>2 DEF SetToSeq
  <1>4. IsFiniteSet(1..Cardinality(S)) /\ Cardinality(1..Cardinality(S)) = Cardinality(S)
    BY <1>1, FS_Interval
  <1>5. q \in Injection(1..Cardinality(S), S)
    BY <1>3 DEF Injection
  <1>6. q \in Surjection(1..Cardinality(S), S)
    BY <1>4, <1>5, FS_Injection
  <1>7. \A x \in S : \E i \in 1..Cardinality(S) : q[i] = x
    BY <1>6 DEF Surjection
  <1> QED
    BY <1>1, <1>3, <1>7 DEF IsInjective

\* A renewal gives every library that is mapped a range that no other has.
LEMMA RenewSlots ==
    ASSUME MapTypeOK, SlotsApart, addSharedLib
    PROVE  /\ libSlot' \in [Libs -> Nat] /\ SlotsApart'
           /\ \A l \in UsedSlots : l \in UsedSlots' /\ libSlot'[l] = libSlot[l]
           /\ \A l \in Libs : (\E p \in procList : PagesOf(maps[p], l) # {}) => l \in UsedSlots'
  <1>1. PICK new : new = {l \in Libs : (\E p \in procList : PagesOf(maps[p], l) # {}) /\ libSlot[l] = 0}
    OBVIOUS
  <1>2. PICK q : q = SetToSeq(new)
    OBVIOUS
  <1>3. IsFiniteSet(Libs) /\ IsFiniteSet(new) /\ IsFiniteSet(UsedSlots)
    BY <1>1, MapsAssumption, FS_Subset DEF UsedSlots
  <1>4. /\ Cardinality(new) \in Nat /\ q \in [1..Cardinality(new) -> new]
        /\ \A i, j \in DOMAIN q : q[i] = q[j] => i = j
        /\ \A x \in new : \E i \in DOMAIN q : q[i] = x
    BY <1>2, <1>3, Enumerates
  <1>5. PICK used \in Nat : used = Cardinality(UsedSlots)
    BY <1>3, FS_CardinalityType
  <1>6. libSlot' = [l \in Libs |-> IF \E i \in DOMAIN q : q[i] = l
                                   THEN used + CHOOSE i \in DOMAIN q : q[i] = l
                                   ELSE libSlot[l]]
    BY <1>1, <1>2, <1>5 DEF addSharedLib, UsedSlots
  <1>7. ASSUME NEW l \in new PROVE \E i \in 1..Cardinality(new) : q[i] = l /\ libSlot'[l] = used + i
    <2>1. PICK i : i = CHOOSE j \in DOMAIN q : q[j] = l
      OBVIOUS
    <2>2. i \in DOMAIN q /\ q[i] = l
      BY <1>4, <2>1
    <2>3. l \in Libs
      BY <1>1
    <2>4. libSlot'[l] = used + i
      BY <1>6, <2>1, <2>2, <2>3
    <2> QED
      BY <1>4, <2>2, <2>4
  <1>8. ASSUME NEW l \in Libs, l \notin new PROVE libSlot'[l] = libSlot[l]
    BY <1>4, <1>6, <1>8
  <1>9. \A l \in Libs : libSlot[l] \in Nat
    BY DEF MapTypeOK
  <1>10. ASSUME NEW l \in Libs
         PROVE  libSlot'[l] \in Nat /\ (l \in new => libSlot'[l] > used) /\ libSlot'[l] <= used + Cardinality(new)
    <2>1. CASE l \in new
      BY <1>4, <1>7, <2>1
    <2>2. CASE l \notin new
      BY <1>4, <1>5, <1>8, <1>9, <2>2 DEF SlotsApart
    <2> QED
      BY <2>1, <2>2
  <1>11. libSlot' \in [Libs -> Nat]
    BY <1>6, <1>10
  <1>12. UsedSlots' = UsedSlots \cup new
    <2>1. new \subseteq Libs
      BY <1>1
    <2> QED
      BY <1>8, <1>10, <2>1 DEF UsedSlots
  <1>13. Cardinality(UsedSlots)' = used + Cardinality(new)
    <2>1. UsedSlots \cap new = {}
      BY <1>1 DEF UsedSlots
    <2>2. Cardinality(UsedSlots \cup new) = Cardinality(UsedSlots) + Cardinality(new) - Cardinality(UsedSlots \cap new)
      BY <1>3, FS_Union
    <2>3. Cardinality(UsedSlots \cap new) = 0
      BY <2>1, FS_EmptySet
    <2> QED
      BY <1>4, <1>5, <1>12, <2>2, <2>3
  <1>14. ASSUME NEW l \in UsedSlots', NEW m \in UsedSlots', libSlot'[l] = libSlot'[m] PROVE l = m
    <2>1. l \in Libs /\ m \in Libs
      BY DEF UsedSlots
    <2>2. \A k \in Libs : k \notin new => libSlot'[k] <= used
      BY <1>5, <1>8 DEF SlotsApart
    <2>3. CASE l \in new /\ m \in new
      <3>1. PICK i \in 1..Cardinality(new) : q[i] = l /\ libSlot'[l] = used + i
        BY <1>7, <2>3
      <3>2. PICK j \in 1..Cardinality(new) : q[j] = m /\ libSlot'[m] = used + j
        BY <1>7, <2>3
      <3>3. i \in Int /\ j \in Int
        BY <1>4
      <3>4. used + i = used + j
        BY <1>14, <3>1, <3>2
      <3>5. i = j
        BY <1>5, <3>3, <3>4
      <3> QED
        BY <3>1, <3>2, <3>5
    <2>4. CASE l \notin new /\ m \notin new
      BY <1>8, <1>12, <1>14, <2>1, <2>4 DEF SlotsApart
    <2>5. CASE l \in new /\ m \notin new
      BY <1>10, <1>14, <2>1, <2>2, <2>5
    <2>6. CASE l \notin new /\ m \in new
      BY <1>10, <1>14, <2>1, <2>2, <2>6
    <2> QED
      BY <2>3, <2>4, <2>5, <2>6
  <1>15. SlotsApart'
    BY <1>10, <1>13, <1>14 DEF SlotsApart
  <1>16. \A l \in UsedSlots : l \in UsedSlots' /\ libSlot'[l] = libSlot[l]
    BY <1>1, <1>8, <1>12 DEF UsedSlots
  <1>17. \A l \in Libs : (\E p \in procList : PagesOf(maps[p], l) # {}) => l \in UsedSlots'
    BY <1>1, <1>12 DEF UsedSlots
  <1> QED
    BY <1>11, <1>15, <1>16, <1>17

\* The renewal of the copies of the maps.
LEMMA RenewKeeps ==
    ASSUME MapInv, Renew
    PROVE  /\ phaseEnd = "idle" /\ missed' = {} /\ libSlot' \in [Libs -> Nat] /\ SlotsApart'
           /\ perProcessInfo' \in [MapProcs -> [Pages -> PageRecs]]
           /\ \A p \in procList : perProcessInfo'[p] = maps[p]
           /\ \A p \in MapProcs : /\ LaidOut(perProcessInfo'[p]) /\ perProcessInfo'[p][0].lib \notin Libs
                                   /\ CopyHasSlots(perProcessInfo[p])'
  <1>1. /\ MapTypeOK /\ SlotsApart /\ addSharedLib /\ procList \subseteq MapProcs
        /\ phaseEnd = "idle" /\ missed' = {}
    BY DEF MapInv, Renew, MapTypeOK
  <1>2. /\ libSlot' \in [Libs -> Nat] /\ SlotsApart'
        /\ \A l \in UsedSlots : l \in UsedSlots'
        /\ \A l \in Libs : (\E p \in procList : PagesOf(maps[p], l) # {}) => l \in UsedSlots'
    BY <1>1, RenewSlots
  <1>3. perProcessInfo' = [p \in MapProcs |-> IF p \in procList THEN maps[p] ELSE perProcessInfo[p]]
    BY DEF Renew, populateProcessMaps
  <1>4. perProcessInfo' \in [MapProcs -> [Pages -> PageRecs]]
    BY <1>1, <1>3 DEF MapTypeOK
  <1>5. ASSUME NEW p \in MapProcs
        PROVE  /\ LaidOut(perProcessInfo'[p]) /\ perProcessInfo'[p][0].lib \notin Libs
               /\ CopyHasSlots(perProcessInfo[p])'
    <2>1. CASE p \in procList
      <3>1. perProcessInfo'[p] = maps[p]
        BY <1>3, <2>1
      <3>2. LaidOut(maps[p]) /\ StackApart(maps[p])
        BY DEF MapInv
      <3>3. ASSUME NEW a \in Pages, maps[p][a].lib \in Libs PROVE maps[p][a].lib \in UsedSlots'
        <4>1. a \in PagesOf(maps[p], maps[p][a].lib)
          BY DEF PagesOf
        <4> QED
          BY <1>2, <2>1, <3>3, <4>1
      <3> QED
        BY <3>1, <3>2, <3>3, MapsAssumption DEF CopyHasSlots, StackApart, Anon
    <2>2. CASE p \notin procList
      <3>1. perProcessInfo'[p] = perProcessInfo[p]
        BY <1>3, <2>2
      <3>2. LaidOut(perProcessInfo[p]) /\ perProcessInfo[p][0].lib \notin Libs /\ CopyHasSlots(perProcessInfo[p])
        BY DEF MapInv
      <3> QED
        BY <1>2, <3>1, <3>2 DEF CopyHasSlots
    <2> QED
      BY <2>1, <2>2
  <1> QED
    BY <1>1, <1>2, <1>3, <1>4, <1>5

\* A system call that leaves p with a map as it should be.
LEMMA MapSyscallKeeps ==
    ASSUME MapInv, NEW p \in MapProcs, NEW call \in {"mmap", "munmap", "mprotect"}, NEW map \in [Pages -> PageRecs],
           MapSyscall(p, call, map), LaidOut(map), StackApart(map),
           call = "munmap" => \A a \in Pages : map[a].lib \in Libs => map[a] = maps[p][a]
    PROVE  MapInv'
  <1>1. /\ maps \in [MapProcs -> [Pages -> PageRecs]] /\ mapCall \in [MapProcs -> MapPcs]
        /\ maps' = [maps EXCEPT ![p] = map] /\ mapCall' = [mapCall EXCEPT ![p] = call] /\ mapCall[p] = "none"
        /\ UNCHANGED <<mode, procList, perProcessInfo, libSlot, firstPhase, phaseEnd, missed>>
    BY DEF MapSyscall, MapInv, MapTypeOK
  <1>2. /\ maps' \in [MapProcs -> [Pages -> PageRecs]] /\ mapCall' \in [MapProcs -> MapPcs]
        /\ maps'[p] = map /\ mapCall'[p] = call
        /\ \A q \in MapProcs : q # p => maps'[q] = maps[q] /\ mapCall'[q] = mapCall[q]
    BY <1>1 DEF MapPcs
  <1>3. MapTypeOK'
    BY <1>1, <1>2 DEF MapInv, MapTypeOK
  <1>4. UsedSlots' = UsedSlots /\ SlotsApart'
    BY <1>1 DEF MapInv, SlotsApart, UsedSlots
  <1>5. \A q \in MapProcs : LaidOut(maps'[q]) /\ StackApart(maps'[q])
    BY <1>2 DEF MapInv
  <1>6. \A q \in MapProcs : /\ LaidOut(perProcessInfo'[q]) /\ perProcessInfo'[q][0].lib \notin Libs
                             /\ CopyHasSlots(perProcessInfo[q])'
    BY <1>1, <1>4 DEF MapInv, CopyHasSlots
  <1>7. ASSUME NEW q \in procList \ missed, firstPhase \/ phaseEnd # "idle", mapCall'[q] \in {"none", "munmap"},
               NEW a \in Pages, maps'[q][a].lib \in Libs
        PROVE  perProcessInfo[q][a] = maps'[q][a]
    <2>1. q \in MapProcs
      BY DEF MapInv, MapTypeOK
    <2>2. CASE q = p
      <3>1. map[a] = maps[p][a] /\ maps[p][a].lib \in Libs
        BY <1>2, <1>7, <2>2
      <3> QED
        BY <1>1, <1>2, <1>7, <2>2, <3>1 DEF MapInv, CopiesGood
    <2>3. CASE q # p
      BY <1>2, <1>7, <2>1, <2>3 DEF MapInv, CopiesGood
    <2> QED
      BY <2>2, <2>3
  <1>8. CopiesGood'
    BY <1>1, <1>7 DEF CopiesGood
  <1> QED
    BY <1>3, <1>4, <1>5, <1>6, <1>8 DEF MapInv

\* The invariant's use of the constants.
LEMMA PagesNumbered ==
    /\ Pages \subseteq Nat /\ 0 \in Pages /\ Libs \cap {"0", "none"} = {}
    /\ DOMAIN Segments = 1..3 /\ \A i \in 1..3 : Segments[i] \in {"r-xp", "r--p", "rw-p"}
    /\ SlotPages \in Nat /\ \A a \in Pages : a < SlotPages
  <1>1. DOMAIN Segments = 1..3 /\ Len(Segments) = 3 /\ \A i \in 1..3 : Segments[i] \in {"r-xp", "r--p", "rw-p"}
    BY DEF Segments
  <1>2. NumPages \in Nat /\ SlotPages \in Nat /\ NumPages >= 3 /\ SlotPages >= NumPages
    BY <1>1, MapsAssumption, SegmentsFit
  <1> QED
    BY <1>1, <1>2, MapsAssumption DEF Pages

\* mmap() and its post-patch.
LEMMA MmapStep ==
    ASSUME MapInv, NEW p \in MapProcs, NEW l \in Libs, NEW base \in Pages, Mmap(p, l, base)
    PROVE  MapInv'
  <1>0. /\ Pages \subseteq Nat /\ 0 \in Pages /\ Libs \cap {"0", "none"} = {}
        /\ DOMAIN Segments = 1..3 /\ \A i \in 1..3 : Segments[i] \in {"r-xp", "r--p", "rw-p"}
    BY PagesNumbered
  <1>1. PICK map : map = [a \in Pages |-> IF a - base + 1 \in DOMAIN Segments
                                          THEN [lib |-> l, off |-> a - base, perm |-> Segments[a - base + 1]]
                                          ELSE maps[p][a]]
    OBVIOUS
  <1>2. /\ PagesOf(maps[p], l) = {} /\ MapSyscall(p, "mmap", map)
        /\ \A i \in 1..3 : base + i - 1 \in Pages /\ maps[p][base + i - 1] = NoPage
    BY <1>0, <1>1 DEF Mmap
  <1>3. maps[p] \in [Pages -> PageRecs] /\ LaidOut(maps[p]) /\ StackApart(maps[p])
    BY DEF MapInv, MapTypeOK
  <1>4. ASSUME NEW a \in Pages, base <= a, a <= base + 2
        PROVE  /\ map[a] \in PageRecs /\ map[a].lib = l /\ map[a].off = a - base /\ maps[p][a] = NoPage
    <2>1. PICK i \in 1..3 : i = a - base + 1
      BY <1>0, <1>4
    <2>2. map[a] = [lib |-> l, off |-> a - base, perm |-> Segments[i]]
      BY <1>0, <1>1, <2>1
    <2>3. Segments[i] \in {"r-xp", "r--p", "rw-p"} /\ a - base \in Int
      BY <1>0
    <2>4. maps[p][a] = NoPage
      <3>1. base + i - 1 = a
        BY <1>0, <2>1
      <3> QED
        BY <1>2, <3>1
    <2> QED
      BY <2>2, <2>3, <2>4 DEF PageRecs
  <1>5. ASSUME NEW a \in Pages, ~(base <= a /\ a <= base + 2)
        PROVE  map[a] = maps[p][a]
    <2>1. a - base + 1 \notin 1..3
      BY <1>0, <1>5
    <2> QED
      BY <1>0, <1>1, <2>1
  <1>6. map \in [Pages -> PageRecs]
    <2>1. \A a \in Pages : map[a] \in PageRecs
      BY <1>3, <1>4, <1>5
    <2> QED
      BY <1>1, <2>1
  <1>7. StackApart(map)
    <2>1. base # 0
      <3>1. 1 \in 1..3 /\ base + 1 - 1 = base
        BY <1>0
      <3>2. maps[p][base] = NoPage
        BY <1>2, <3>1
      <3> QED
        BY <1>3, <3>2 DEF StackApart, NoPage, Anon
    <2>2. ~(base <= 0 /\ 0 <= base + 2)
      BY <1>0, <2>1
    <2>3. map[0] = Anon
      BY <1>0, <1>3, <1>5, <2>2 DEF StackApart
    <2>4. ASSUME NEW a \in Pages \ {0} PROVE map[a] = NoPage \/ map[a].lib \in Libs
      BY <1>3, <1>4, <1>5 DEF StackApart
    <2> QED
      BY <2>3, <2>4 DEF StackApart
  <1>8. LaidOut(map)
    <2> SUFFICES ASSUME NEW m \in Libs, PagesOf(map, m) # {}
                 PROVE  \E b \in PagesOf(map, m) : \A a \in PagesOf(map, m) : b <= a /\ map[a].off = a - b
      BY DEF LaidOut
    <2>1. CASE m = l
      <3>1. \A a \in Pages : map[a].lib = l => base <= a /\ map[a].off = a - base
        BY <1>2, <1>4, <1>5 DEF PagesOf
      <3>2. base <= base /\ base <= base + 2
        BY <1>0
      <3>3. base \in PagesOf(map, m)
        BY <1>4, <2>1, <3>2 DEF PagesOf
      <3> QED
        BY <2>1, <3>1, <3>3 DEF PagesOf
    <2>2. CASE m # l
      <3>1. \A a \in Pages : map[a].lib = m <=> maps[p][a].lib = m
        BY <1>0, <1>4, <1>5, <2>2 DEF NoPage
      <3>2. \A a \in Pages : map[a].lib = m => map[a] = maps[p][a]
        BY <1>4, <1>5, <2>2
      <3>3. PagesOf(map, m) = PagesOf(maps[p], m)
        BY <3>1 DEF PagesOf
      <3>4. PICK b \in PagesOf(maps[p], m) : \A a \in PagesOf(maps[p], m) : b <= a /\ maps[p][a].off = a - b
        BY <1>3, <3>3 DEF LaidOut
      <3> QED
        BY <3>2, <3>3, <3>4 DEF PagesOf
    <2> QED
      BY <2>1, <2>2
  <1> QED
    BY <1>2, <1>6, <1>7, <1>8, MapSyscallKeeps

\* munmap() and its post-patch.
LEMMA MunmapStep ==
    ASSUME MapInv, NEW p \in MapProcs, NEW S \in SUBSET Pages, Munmap(p, S)
    PROVE  MapInv'
  <1>0. Pages \subseteq Nat /\ 0 \in Pages /\ Libs \cap {"0", "none"} = {}
    BY PagesNumbered
  <1>1. PICK map : map = [a \in Pages |-> IF a \in S THEN NoPage ELSE maps[p][a]]
    OBVIOUS
  <1>2. MapSyscall(p, "munmap", map)
    BY <1>1 DEF Munmap
  <1>3. PICK l \in Libs : \/ S = PagesOf(maps[p], l)
                          \/ \E a \in PagesOf(maps[p], l) : S = {a} /\ maps[p][a].off # 0
    BY DEF Munmap
  <1>4. maps[p] \in [Pages -> PageRecs] /\ LaidOut(maps[p]) /\ StackApart(maps[p])
    BY DEF MapInv, MapTypeOK
  <1>5. \A a \in Pages : (a \in S => map[a] = NoPage /\ maps[p][a].lib = l) /\ (a \notin S => map[a] = maps[p][a])
    BY <1>1, <1>3 DEF PagesOf
  <1>6. NoPage \in PageRecs /\ NoPage.lib \notin Libs /\ Anon.lib \notin Libs
    BY <1>0 DEF NoPage, Anon, PageRecs
  <1>7. map \in [Pages -> PageRecs] /\ \A a \in Pages : map[a].lib \in Libs => map[a] = maps[p][a]
    BY <1>1, <1>4, <1>5, <1>6
  <1>8. StackApart(map)
    <2>1. 0 \notin S
      BY <1>0, <1>4, <1>5, <1>6 DEF StackApart
    <2> QED
      BY <1>0, <1>4, <1>5, <2>1 DEF StackApart
  <1>9. LaidOut(map)
    <2> SUFFICES ASSUME NEW m \in Libs, PagesOf(map, m) # {}
                 PROVE  \E b \in PagesOf(map, m) : \A a \in PagesOf(map, m) : b <= a /\ map[a].off = a - b
      BY DEF LaidOut
    <2>1. PagesOf(map, m) = PagesOf(maps[p], m) \ S
      BY <1>5, <1>6 DEF PagesOf
    <2>2. PICK b \in PagesOf(maps[p], m) : \A a \in PagesOf(maps[p], m) : b <= a /\ maps[p][a].off = a - b
      BY <1>4, <2>1 DEF LaidOut
    <2>3. b \in Nat /\ maps[p][b].off = 0
      <3>1. b \in Nat
        BY <1>0, <2>2 DEF PagesOf
      <3> QED
        BY <2>2, <3>1
    <2>4. b \notin S
      <3>1. CASE S = PagesOf(maps[p], l)
        <4>1. m # l
          BY <2>1, <3>1
        <4> QED
          BY <1>5, <2>2, <4>1 DEF PagesOf
      <3>2. CASE \E a \in PagesOf(maps[p], l) : S = {a} /\ maps[p][a].off # 0
        BY <2>3, <3>2
      <3> QED
        BY <1>3, <3>1, <3>2
    <2> QED
      BY <1>5, <2>1, <2>2, <2>4 DEF PagesOf
  <1> QED
    BY <1>2, <1>7, <1>8, <1>9, MapSyscallKeeps

\* mprotect() and its post-patch.
LEMMA MprotectStep ==
    ASSUME MapInv, NEW p \in MapProcs, NEW a \in Pages, NEW perm \in {"r--p", "rwxp"}, Mprotect(p, a, perm)
    PROVE  MapInv'
  <1>0. Pages \subseteq Nat /\ 0 \in Pages /\ Libs \cap {"0", "none"} = {}
    BY PagesNumbered
  <1>1. PICK map : map = [maps[p] EXCEPT ![a].perm = perm]
    OBVIOUS
  <1>2. MapSyscall(p, "mprotect", map) /\ maps[p][a].lib \in Libs
    BY <1>1 DEF Mprotect
  <1>3. maps[p] \in [Pages -> PageRecs] /\ LaidOut(maps[p]) /\ StackApart(maps[p])
    BY DEF MapInv, MapTypeOK
  <1>4. map \in [Pages -> PageRecs] /\ \A b \in Pages : b # a => map[b] = maps[p][b]
    BY <1>1, <1>3 DEF PageRecs
  <1>5. map[a].lib = maps[p][a].lib /\ map[a].off = maps[p][a].off
    BY <1>1, <1>3 DEF PageRecs
  <1>6. \A b \in Pages : map[b].lib = maps[p][b].lib /\ map[b].off = maps[p][b].off
    BY <1>4, <1>5
  <1>7. StackApart(map)
    BY <1>0, <1>2, <1>3, <1>4, <1>5 DEF StackApart, Anon
  <1>8. LaidOut(map)
    BY <1>3, <1>6 DEF LaidOut, PagesOf
  <1> QED
    BY <1>2, <1>4, <1>7, <1>8, MapSyscallKeeps

\* A process starts.
LEMMA StartProcessStep ==
    ASSUME MapInv, NEW p \in MapProcs, StartProcess(p)
    PROVE  MapInv'
  <1>1. /\ ~firstPhase' /\ phaseEnd' = "idle" /\ procList' \subseteq MapProcs
        /\ UNCHANGED <<mode, maps, perProcessInfo, libSlot, firstPhase, mapCall>>
    BY DEF StartProcess, MapInv, MapTypeOK
  <1>2. MapTypeOK'
    BY <1>1 DEF MapInv, MapTypeOK
  <1>3. CopiesGood' /\ SlotsApart' /\ UsedSlots' = UsedSlots
    BY <1>1 DEF MapInv, CopiesGood, SlotsApart, UsedSlots
  <1> QED
    BY <1>1, <1>2, <1>3 DEF MapInv, CopyHasSlots

\* A step of p in a post-patch function that leaves the copies alone.
LEMMA PostPatchKeeps ==
    ASSUME MapInv, NEW p \in MapProcs, NEW c \in MapPcs, mapCall' = [mapCall EXCEPT ![p] = c],
           UNCHANGED <<mode, maps, procList, perProcessInfo, libSlot, firstPhase, phaseEnd>>, missed \subseteq missed',
           \/ c \notin {"none", "munmap"} \/ mapCall[p] = "munmap" \/ p \in missed'
           \/ ~firstPhase /\ (phaseEnd # "idle" => perProcessInfo[p] = maps[p])
    PROVE  MapInv'
  <1>1. mapCall \in [MapProcs -> MapPcs] /\ procList \subseteq MapProcs
    BY DEF MapInv, MapTypeOK
  <1>2. mapCall' \in [MapProcs -> MapPcs] /\ mapCall'[p] = c /\ \A q \in MapProcs : q # p => mapCall'[q] = mapCall[q]
    BY <1>1
  <1>3. MapTypeOK' /\ SlotsApart' /\ UsedSlots' = UsedSlots
    BY <1>2 DEF MapInv, MapTypeOK, SlotsApart, UsedSlots
  <1>4. CopiesGood'
    <2> SUFFICES ASSUME NEW q \in procList \ missed', firstPhase \/ phaseEnd # "idle", mapCall'[q] \in {"none", "munmap"},
                        NEW a \in Pages, maps[q][a].lib \in Libs
                 PROVE  perProcessInfo[q][a] = maps[q][a]
      BY DEF CopiesGood
    <2>1. CASE q = p /\ perProcessInfo[p] = maps[p]
      BY <2>1
    <2>2. CASE ~(q = p /\ perProcessInfo[p] = maps[p])
      <3>1. mapCall[q] \in {"none", "munmap"}
        BY <1>1, <1>2, <2>2
      <3> QED
        BY <3>1 DEF MapInv, CopiesGood
    <2> QED
      BY <2>1, <2>2
  <1>5. \A q \in MapProcs : /\ LaidOut(perProcessInfo'[q]) /\ perProcessInfo'[q][0].lib \notin Libs
                             /\ CopyHasSlots(perProcessInfo[q])'
    BY <1>3 DEF MapInv, CopyHasSlots
  <1> QED
    BY <1>3, <1>4, <1>5 DEF MapInv

\* A post-patch function sets the flag, or tests whether the first phase is over.
LEMMA MapPostPatchStep ==
    ASSUME MapInv, NEW p \in MapProcs, MapPostPatch(p) \/ TestFirstPhase(p)
    PROVE  MapInv'
  <1>1. mapCall \in [MapProcs -> MapPcs]
    BY DEF MapInv, MapTypeOK
  <1>2. CASE MapPostPatch(p)
    <2>1. PICK c : c = CASE mapCall[p] = "mmap" -> "renew" [] mapCall[p] = "mprotect" -> "test" [] OTHER -> "none"
      OBVIOUS
    <2>2. c \in {"renew", "test"} \/ (c = "none" /\ mapCall[p] = "munmap")
      <3>1. mapCall[p] \in {"mmap", "mprotect", "munmap"}
        BY <1>2 DEF MapPostPatch
      <3> QED
        BY <2>1, <3>1
    <2>3. mapCall' = [mapCall EXCEPT ![p] = c]
      BY <1>1, <1>2, <2>1 DEF MapPostPatch
    <2> QED
      BY <1>2, <2>2, <2>3, PostPatchKeeps DEF MapPostPatch, MapPcs
  <1>3. CASE TestFirstPhase(p)
    <2>1. /\ mapCall' = [mapCall EXCEPT ![p] = IF firstPhase THEN "renew" ELSE "none"]
          /\ UNCHANGED <<mode, maps, procList, perProcessInfo, libSlot, firstPhase, phaseEnd>>
          /\ missed \subseteq missed'
          /\ ~firstPhase /\ phaseEnd # "idle" /\ perProcessInfo[p] # maps[p] => p \in missed'
      BY <1>3 DEF TestFirstPhase
    <2>2. CASE firstPhase
      BY <2>1, <2>2, PostPatchKeeps DEF MapPcs
    <2>3. CASE ~firstPhase
      BY <2>1, <2>3, PostPatchKeeps DEF MapPcs
    <2> QED
      BY <2>2, <2>3
  <1> QED
    BY <1>2, <1>3

\* The copies are renewed, by a post-patch function or at the end of a phase.
LEMMA RenewStep ==
    ASSUME MapInv, Renew, mapCall' \in [MapProcs -> MapPcs], UNCHANGED <<mode, maps, procList, firstPhase>>
    PROVE  MapInv'
  <1>1. /\ libSlot' \in [Libs -> Nat] /\ SlotsApart'
        /\ perProcessInfo' \in [MapProcs -> [Pages -> PageRecs]]
        /\ \A q \in procList : perProcessInfo'[q] = maps[q]
        /\ \A q \in MapProcs : /\ LaidOut(perProcessInfo'[q]) /\ perProcessInfo'[q][0].lib \notin Libs
                                /\ CopyHasSlots(perProcessInfo[q])'
    BY RenewKeeps
  <1>2. MapTypeOK' /\ CopiesGood'
    BY <1>1 DEF MapInv, MapTypeOK, CopiesGood
  <1>3. \A q \in MapProcs : LaidOut(maps'[q]) /\ StackApart(maps'[q])
    BY DEF MapInv
  <1> QED
    BY <1>1, <1>2, <1>3 DEF MapInv

\* The renewal by a post-patch function.
LEMMA RenewMapsStep ==
    ASSUME MapInv, NEW p \in MapProcs, RenewMaps(p)
    PROVE  MapInv'
  <1>1. Renew /\ UNCHANGED <<mode, maps, procList, firstPhase>> /\ mapCall' = [mapCall EXCEPT ![p] = "none"]
    BY DEF RenewMaps
  <1>2. mapCall' \in [MapProcs -> MapPcs]
    BY <1>1 DEF MapInv, MapTypeOK, MapPcs
  <1> QED
    BY <1>1, <1>2, RenewStep

\* The end of a phase renews the copies if they are due, and writes the flags.
LEMMA EndOfPhaseStep ==
    ASSUME MapInv, EndOfPhaseActions \/ ClearRemake \/ SetFirstPhase
    PROVE  MapInv'
  <1>1. CASE EndOfPhaseActions
    <2>1. Renew /\ UNCHANGED <<mode, maps, procList, firstPhase>> /\ mapCall' \in [MapProcs -> MapPcs]
      BY <1>1 DEF EndOfPhaseActions, MapInv, MapTypeOK
    <2> QED
      BY <2>1, RenewStep
  <1>2. CASE ClearRemake \/ SetFirstPhase
    <2>1. /\ UNCHANGED <<mode, maps, procList, perProcessInfo, libSlot, mapCall, missed>>
          /\ firstPhase' \in BOOLEAN
          /\ firstPhase' \/ phaseEnd' # "idle" => phaseEnd # "idle" \/ firstPhase
      BY <1>2 DEF ClearRemake, SetFirstPhase, MapInv, MapTypeOK
    <2>2. MapTypeOK' /\ SlotsApart' /\ UsedSlots' = UsedSlots /\ CopiesGood'
      BY <2>1 DEF MapInv, MapTypeOK, SlotsApart, UsedSlots, CopiesGood
    <2> QED
      BY <2>1, <2>2 DEF MapInv, CopyHasSlots
  <1> QED
    BY <1>1, <1>2

\* Every step keeps the invariant of the maps.
LEMMA MapNextStep ==
    ASSUME MapInv, [MapNext]_mapVars
    PROVE  MapInv'
  <1>1. CASE UNCHANGED mapVars
    BY <1>1 DEF mapVars, MapInv, MapTypeOK, SlotsApart, UsedSlots, CopiesGood, CopyHasSlots
  <1>2. ASSUME NEW p \in MapProcs, StartProcess(p) \/ MapPostPatch(p) \/ TestFirstPhase(p) \/ RenewMaps(p)
        PROVE  MapInv'
    BY <1>2, StartProcessStep, MapPostPatchStep, RenewMapsStep
  <1>3. ASSUME NEW p \in MapProcs, NEW l \in Libs, NEW base \in Pages, Mmap(p, l, base)
        PROVE  MapInv'
    BY <1>3, MmapStep
  <1>4. ASSUME NEW p \in MapProcs, NEW l \in Libs, Munmap(p, PagesOf(maps[p], l))
        PROVE  MapInv'
    <2>1. PagesOf(maps[p], l) \in SUBSET Pages
      BY DEF PagesOf
    <2> QED
      BY <1>4, <2>1, MunmapStep
  <1>5. ASSUME NEW p \in MapProcs, NEW a \in Pages, Munmap(p, {a})
        PROVE  MapInv'
    BY <1>5, MunmapStep
  <1>6. ASSUME NEW p \in MapProcs, NEW a \in Pages, NEW perm \in {"r--p", "rwxp"}, Mprotect(p, a, perm)
        PROVE  MapInv'
    BY <1>6, MprotectStep
  <1>7. CASE EndOfPhaseActions \/ ClearRemake \/ SetFirstPhase
    BY <1>7, EndOfPhaseStep
  <1> QED
    BY <1>1, <1>2, <1>3, <1>4, <1>5, <1>6, <1>7 DEF MapNext

\* The invariant of the maps holds initially.
LEMMA MapInitially == MapInit => MapInv
  <1> SUFFICES ASSUME MapInit PROVE MapInv
    OBVIOUS
  <1>0. Pages \subseteq Nat /\ 0 \in Pages /\ Libs \cap {"0", "none"} = {}
    BY PagesNumbered
  <1>1. /\ Anon \in PageRecs /\ NoPage \in PageRecs /\ Anon.lib \notin Libs /\ NoPage.lib \notin Libs
    BY <1>0 DEF Anon, NoPage, PageRecs
  <1>2. /\ \A p \in MapProcs, a \in Pages : maps[p][a] = (IF a = 0 THEN Anon ELSE NoPage) /\ perProcessInfo[p][a] = NoPage
        /\ maps \in [MapProcs -> [Pages -> PageRecs]] /\ perProcessInfo \in [MapProcs -> [Pages -> PageRecs]]
    BY <1>1 DEF MapInit
  <1>3. MapTypeOK
    BY <1>2 DEF MapInit, MapTypeOK, MapPcs
  <1>4. UsedSlots = {} /\ SlotsApart
    <2>1. UsedSlots = {}
      BY DEF MapInit, UsedSlots
    <2>2. Cardinality(UsedSlots) = 0
      BY <2>1, FS_EmptySet
    <2> QED
      BY <2>1, <2>2 DEF MapInit, SlotsApart
  <1>5. CopiesGood
    BY DEF MapInit, CopiesGood
  <1>6. ASSUME NEW p \in MapProcs
        PROVE  /\ LaidOut(maps[p]) /\ StackApart(maps[p]) /\ LaidOut(perProcessInfo[p])
               /\ perProcessInfo[p][0].lib \notin Libs /\ CopyHasSlots(perProcessInfo[p])
    <2>1. \A a \in Pages : maps[p][a].lib \notin Libs /\ perProcessInfo[p][a].lib \notin Libs
      BY <1>1, <1>2
    <2>2. \A l \in Libs : PagesOf(maps[p], l) = {} /\ PagesOf(perProcessInfo[p], l) = {}
      BY <2>1 DEF PagesOf
    <2>3. StackApart(maps[p])
      BY <1>0, <1>2 DEF StackApart
    <2> QED
      BY <1>0, <2>1, <2>2, <2>3 DEF LaidOut, CopyHasSlots
  <1> QED
    BY <1>3, <1>4, <1>5, <1>6 DEF MapInv

\* Pages of ranges that do not overlap are different.
LEMMA RangesApart ==
    ASSUME NEW s \in Nat, NEW t \in Nat, NEW o \in Nat, NEW r \in Nat, NEW d \in Nat,
           o < d, r < d, s * d + o = t * d + r
    PROVE  s = t /\ o = r
  <1>1. \A a, b \in Nat : a < b => a * d + d <= b * d
    BY TimesGrows
  <1>2. PICK x \in Nat : x = s * d
    OBVIOUS
  <1>3. PICK y \in Nat : y = t * d
    OBVIOUS
  <1>4. s < t => x + d <= y
    BY <1>1, <1>2, <1>3
  <1>5. t < s => y + d <= x
    BY <1>1, <1>2, <1>3
  <1>6. x + o = y + r
    BY <1>2, <1>3
  <1>7. s = t
    BY <1>4, <1>5, <1>6
  <1> QED
    BY <1>2, <1>3, <1>6, <1>7

IsPrivate(x) == LineOf(x[1], x[2]) = <<"private", x[1], x[2]>> /\ Content(x[1], x[2]) = <<"memory", x[1], x[2]>>
IsShared(x, l, o) ==
    /\ LineOf(x[1], x[2]) = <<"shared", libSlot[l] * SlotPages + o>>
    /\ Content(x[1], x[2]) = <<"file", l, o>>

\* An access is private, or to a page of a library that has a range.
LEMMA AccessKinds ==
    ASSUME MapInv, NEW x \in Accesses, x[1] \notin missed
    PROVE  IsPrivate(x) \/ \E l \in UsedSlots, o \in Nat : o < SlotPages /\ IsShared(x, l, o)
  <1>0. /\ Pages \subseteq Nat /\ 0 \in Pages /\ Libs \cap {"0", "none"} = {}
        /\ SlotPages \in Nat /\ \A a \in Pages : a < SlotPages
    BY PagesNumbered
  <1>1. PICK p \in MapProcs, a \in Pages : x = <<p, a>> /\ x[1] = p /\ x[2] = a
    BY DEF Accesses
  <1>2. p \in procList \ missed /\ mapCall[p] = "none" /\ maps[p][a] # NoPage
    BY <1>1 DEF Accesses
  <1>3. StackApart(maps[p]) /\ LaidOut(perProcessInfo[p]) /\ perProcessInfo[p][0].lib \notin Libs /\ CopyHasSlots(perProcessInfo[p])
    BY DEF MapInv
  <1>4. Anon.lib \notin Libs
    BY <1>0 DEF Anon
  <1>5. CASE maps[p][a].lib \notin Libs
    <2>1. a = 0
      BY <1>2, <1>3, <1>5 DEF StackApart
    <2> QED
      BY <1>1, <1>3, <1>5, <2>1 DEF IsPrivate, LineOf, Content
  <1>6. CASE ~firstPhase
    BY <1>1, <1>6 DEF IsPrivate, LineOf, Content
  <1>7. CASE maps[p][a].lib \in Libs /\ firstPhase
    <2>1. perProcessInfo[p][a] = maps[p][a]
      BY <1>2, <1>7 DEF MapInv, CopiesGood
    <2>2. CASE ~(mode = "shared" /\ maps[p][a].perm \in ReadOnly)
      BY <1>1, <2>1, <2>2 DEF IsPrivate, LineOf, Content
    <2>3. CASE mode = "shared" /\ maps[p][a].perm \in ReadOnly
      <3>1. PICK l \in Libs : l = maps[p][a].lib
        BY <1>7
      <3>2. PICK map : map = perProcessInfo[p]
        OBVIOUS
      <3>3. a \in PagesOf(map, l) /\ l \in UsedSlots
        BY <1>3, <2>1, <3>1, <3>2 DEF PagesOf, CopyHasSlots
      <3>4. PICK b \in PagesOf(map, l) : \A c \in PagesOf(map, l) : b <= c /\ map[c].off = c - b
        BY <1>3, <3>2, <3>3 DEF LaidOut
      <3>5. PagesOf(map, l) \subseteq Nat
        BY <1>0 DEF PagesOf
      <3>6. Min(PagesOf(map, l)) = b
        <4>1. \A c \in PagesOf(map, l) : (\A d \in PagesOf(map, l) : c <= d) => c = b
          BY <3>4, <3>5
        <4> QED
          BY <3>4, <4>1 DEF Min
      <3>7. PICK o \in Nat : o = a - b
        BY <3>3, <3>4, <3>5
      <3>8. o < SlotPages /\ map[a].off = o
        BY <1>0, <3>3, <3>4, <3>5, <3>7
      <3>9. baseline(map, a) = b
        BY <2>1, <3>1, <3>2, <3>6 DEF baseline
      <3>10. LineOf(p, a) = <<"shared", libSlot[l] * SlotPages + a - b>>
        BY <1>7, <2>1, <2>3, <3>1, <3>2, <3>9 DEF LineOf, checkSharedLib
      <3>11. libSlot[l] * SlotPages + a - b = libSlot[l] * SlotPages + o
        <4>1. libSlot[l] \in Nat
          BY DEF MapInv, MapTypeOK
        <4>2. PICK n \in Nat : n = libSlot[l] * SlotPages
          BY <1>0, <4>1
        <4>3. n + a - b = n + o
          BY <3>3, <3>4, <3>5, <3>7
        <4> QED
          BY <4>2, <4>3
      <3>12. Content(p, a) = <<"file", l, o>>
        BY <1>7, <2>1, <2>3, <3>1, <3>2, <3>8 DEF Content
      <3> QED
        BY <1>1, <3>3, <3>8, <3>10, <3>11, <3>12 DEF IsShared
    <2> QED
      BY <2>2, <2>3
  <1> QED
    BY <1>5, <1>6, <1>7

\* Every access goes to a line that is its content's and no other's.
LEMMA MapInvExact == MapInv => LinesExact
  <1> SUFFICES ASSUME MapInv, NEW x \in Accesses, NEW y \in Accesses, x[1] \notin missed, y[1] \notin missed
               PROVE  (LineOf(x[1], x[2]) = LineOf(y[1], y[2])) = (Content(x[1], x[2]) = Content(y[1], y[2]))
    BY DEF LinesExact
  <1>1. CASE IsPrivate(x) /\ IsPrivate(y)
    BY <1>1 DEF IsPrivate
  <1>2. ASSUME NEW l \in UsedSlots, NEW o \in Nat, NEW m \in UsedSlots, NEW r \in Nat,
               o < SlotPages, r < SlotPages, IsShared(x, l, o), IsShared(y, m, r)
        PROVE  (LineOf(x[1], x[2]) = LineOf(y[1], y[2])) = (Content(x[1], x[2]) = Content(y[1], y[2]))
    <2>1. libSlot[l] \in Nat /\ libSlot[m] \in Nat /\ SlotPages \in Nat
      BY PagesNumbered DEF MapInv, MapTypeOK, UsedSlots
    <2>2. ASSUME libSlot[l] * SlotPages + o = libSlot[m] * SlotPages + r PROVE l = m /\ o = r
      <3>1. libSlot[l] = libSlot[m] /\ o = r
        BY <1>2, <2>1, <2>2, RangesApart, ZenonT(60)
      <3> QED
        BY <3>1 DEF MapInv, SlotsApart
    <2>3. (LineOf(x[1], x[2]) = LineOf(y[1], y[2])) <=> (libSlot[l] * SlotPages + o = libSlot[m] * SlotPages + r)
      BY <1>2 DEF IsShared
    <2>4. (Content(x[1], x[2]) = Content(y[1], y[2])) <=> (l = m /\ o = r)
      BY <1>2 DEF IsShared
    <2> QED
      BY <2>2, <2>3, <2>4
  <1>3. ASSUME NEW l, NEW o, IsShared(x, l, o), IsPrivate(y)
        PROVE  LineOf(x[1], x[2]) # LineOf(y[1], y[2]) /\ Content(x[1], x[2]) # Content(y[1], y[2])
    BY <1>3 DEF IsShared, IsPrivate
  <1>4. ASSUME NEW l, NEW o, IsShared(y, l, o), IsPrivate(x)
        PROVE  LineOf(x[1], x[2]) # LineOf(y[1], y[2]) /\ Content(x[1], x[2]) # Content(y[1], y[2])
    BY <1>4 DEF IsShared, IsPrivate
  <1>5. /\ IsPrivate(x) \/ \E l \in UsedSlots, o \in Nat : o < SlotPages /\ IsShared(x, l, o)
        /\ IsPrivate(y) \/ \E l \in UsedSlots, o \in Nat : o < SlotPages /\ IsShared(y, l, o)
    BY AccessKinds
  <1> QED
    BY <1>1, <1>2, <1>3, <1>4, <1>5

\* Whatever is mapped, unmapped and protected, in whichever process and order,
\* also while a phase ends, two accesses go to one line if and only if they are
\* to one page, but for a permission changed while the first phase ended.
THEOREM LinesAreExact == MapSpec => []LinesExact
  <1>1. MapInit => MapInv
    BY MapInitially
  <1>2. MapInv /\ [MapNext]_mapVars => MapInv'
    BY MapNextStep
  <1>3. MapInv => LinesExact
    BY MapInvExact
  <1> QED
    BY <1>1, <1>2, <1>3, PTL DEF MapSpec

-----------------------------------------------------------------------------
(***************************************************************************)
(* Virtual time.                                                           *)
(***************************************************************************)

TimedCalls == [kind : Clocks \cup Sleeps \cup Waits \cup {"none"}, ns : Nat]

ThreadRecs ==
    [ptrs : {"CORE", "NOP", "JOIN", "RETRY"}, state : {"RUNNING", "SLEEPING", "BLOCKED", "NONE"}, marked : BOOLEAN,
     word : {0, 1}, from : Nat, until : Nat, fake : BOOLEAN, pc : {"app", "marked", "kernel", "exit", "decide", "vdso"},
     call : TimedCalls, post : {"null", "time", "sleep", "timeout"}, res : {"none", "ok", "EINTR", "timeout"}, asleep : BOOLEAN,
     level : Nat, done : TimedCalls]

SimRecs ==
    [phase : Nat, lead : Nat, offset : [ClockIds -> Int], cpu : [Procs -> Nat], ff : [Procs -> BOOLEAN],
     toggles : Nat, calls : Nat]

ReadRecs == {r \in [Clocks -> Int] : \A c \in WallClocks : r[c] \in Nat}

\* The offset of the wall clocks, and the time they tell.
Wall == sim.offset["realtime"]

VirtWall == Wall + SimNs

USE DEF SimRecs, Wall

TimeTypeOK ==
    /\ prog \in TimeSetups
    /\ th \in [Procs -> ThreadRecs]
    /\ sim \in SimRecs
    /\ read \in [Procs -> ReadRecs]

\* Where a thread can be: what it is about to call, and on which side of
\* fast-forward it is.
Control(t, ff) ==
    /\ t.marked = (t.pc = "marked")
    /\ t.ptrs = "CORE" => t.state = "RUNNING"
    /\ t.ptrs = "NOP" => t.state = "NONE" /\ (ff \/ t.pc = "app")
    /\ t.ptrs = "JOIN" => t.state # "NONE"
    /\ t.ptrs = "RETRY" => t.post = "timeout"
    /\ t.pc = "marked" => t.ptrs = "CORE" /\ t.post \in {"sleep", "timeout"}
    /\ t.pc = "vdso" => t.ptrs \in {"CORE", "NOP"} /\ t.post = "null" /\ t.call.kind \in Clocks
    /\ t.pc = "app" /\ t.post # "null" => t.ptrs = "RETRY"
    /\ t.pc = "decide" => t.post = "timeout"
    /\ t.pc \in {"kernel", "exit"} /\ t.post = "null" =>
          t.ptrs \in {"JOIN", "NOP"} /\ (t.call.kind \in Clocks => ff)
    /\ t.post = "time" => t.pc \in {"kernel", "exit"} /\ t.ptrs = "JOIN" /\ t.call.kind \in Clocks
    /\ t.post = "sleep" => /\ t.pc \in {"marked", "kernel", "exit"} /\ (t.pc # "marked" => t.ptrs = "JOIN")
                           /\ t.call.kind \in Sleeps
    /\ t.post = "timeout" => (t.pc # "marked" => t.ptrs \in {"JOIN", "RETRY"}) /\ t.call.kind \in Waits
    /\ t.fake = (t.post = "timeout")

\* Only sleeps of programs without fast-forward are interrupted.
Signalled(t) ==
    /\ t.post = "sleep" => /\ t.call \in prog.args
                           /\ t.pc = "exit" => t.res = "ok" \/ (t.res = "EINTR" /\ prog.signals)
    /\ t.state = "SLEEPING" /\ t.post \in {"null", "time"} => prog.toggles = 0

\* What the wait of a call from one phase until another comes to.
LongEnough(call, from, until, offset) ==
    /\ from <= until
    /\ call.kind = "nanosleep" => cyclesToNs((until - from) * PhaseLength) >= call.ns
    /\ call.kind = "clock_nanosleep" => offset + cyclesToNs(until * PhaseLength) >= call.ns
    /\ call.kind \in {"futex", "poll"} => (until - from + 1) * PhaseLength > nsToCycles(call.ns)
    /\ call.kind = "futex_realtime" =>
          offset + cyclesToNs(until * PhaseLength) + cyclesToNs(PhaseLength) + 1 >= call.ns

\* A thread is asleep until its phase comes, and its wait is long enough.
Asleep(t, phase, offset) ==
    /\ t.state = "SLEEPING" => t.word = 1 /\ phase < t.until /\ t.ptrs \in {"JOIN", "RETRY"}
    /\ t.pc = "marked" => t.word = 1 /\ phase < t.until
    /\ t.post \in {"sleep", "timeout"} =>
          /\ t.pc # "marked" => t.state \in {"SLEEPING", "BLOCKED"} /\ (t.state = "BLOCKED" => t.until <= phase)
          /\ LongEnough(t.call, t.from, t.until, offset)
    /\ t.pc = "exit" /\ t.post = "sleep" /\ t.res = "ok" => t.state = "BLOCKED"
    /\ t.pc = "decide" /\ ~t.asleep => t.state = "BLOCKED"
    /\ t.done.kind # "none" => t.until <= phase /\ LongEnough(t.done, t.from, t.until, offset)

\* The thread reads the time of the host: it will be told the simulated one
\* only after ExitFastForward().
OnHost(t, ff) == ff /\ (t.ptrs = "NOP" \/ (t.pc \in {"kernel", "exit"} /\ t.post = "null"))

\* What has been read is not above what can be read next.
ReadBefore(t, ff, r, host, virt) ==
    \A c \in WallClocks :
        /\ r[c] <= Told(c, host)
        /\ ~OnHost(t, ff) => r[c] <= Told(c, virt)
        /\ t.pc = "vdso" /\ t.call.kind \in WallClocks => t.call.ns <= host /\ r[c] <= Told(c, t.call.ns)

\* The wall clocks have one offset, and the simulation is slower than the host.
WallOK == sim.offset["monotonic"] = Wall /\ Wall \in Nat /\ Wall <= sim.lead

TimeInv ==
    /\ TimeTypeOK
    /\ ~prog.backToBack
    /\ WallOK
    /\ failed = {}
    /\ \A p \in Procs : /\ prog.toggles = 0 => ~sim.ff[p]
                        /\ Control(th[p], sim.ff[p])
                        /\ Signalled(th[p])
                        /\ Asleep(th[p], sim.phase, Wall)
                        /\ ReadBefore(th[p], sim.ff[p], read[p], HostNs, VirtWall)

\* Converting cycles to nanoseconds is monotone, and exact but for rounding.
LEMMA CyclesToNs ==
    ASSUME NEW c \in Nat, NEW e \in Nat
    PROVE  /\ cyclesToNs(c) \in Nat /\ cyclesToNs(e) \in Nat /\ cyclesToNs(c + e) \in Nat
           /\ c <= e => cyclesToNs(c) <= cyclesToNs(e)
           /\ cyclesToNs(c) + cyclesToNs(e) <= cyclesToNs(c + e)
           /\ cyclesToNs(c + e) <= cyclesToNs(c) + cyclesToNs(e) + 1
  <1>1. FreqMHz \in Nat \ {0}
    BY TimeAssumption
  <1>2. c * 1000 \in Nat /\ e * 1000 \in Nat /\ (c + e) * 1000 = c * 1000 + e * 1000
    OBVIOUS
  <1>3. c <= e => c * 1000 <= e * 1000
    OBVIOUS
  <1>4. c <= e => ((c * 1000) \div FreqMHz) <= ((e * 1000) \div FreqMHz)
    BY <1>1, <1>2, <1>3, DivMonotone
  <1>5. /\ ((c * 1000) \div FreqMHz) + ((e * 1000) \div FreqMHz) <= ((c * 1000 + e * 1000) \div FreqMHz)
        /\ ((c * 1000 + e * 1000) \div FreqMHz) <= ((c * 1000) \div FreqMHz) + ((e * 1000) \div FreqMHz) + 1
    BY <1>1, <1>2, DivSum
  <1>6. /\ ((c * 1000) \div FreqMHz) \in Nat /\ ((e * 1000) \div FreqMHz) \in Nat
        /\ ((c * 1000 + e * 1000) \div FreqMHz) \in Nat
    BY <1>1, <1>2, DivFacts
  <1> QED
    BY <1>2, <1>4, <1>5, <1>6 DEF cyclesToNs

\* More cycles than n nanoseconds convert to take at least those.
LEMMA MoreCycles ==
    ASSUME NEW n \in Nat, NEW c \in Nat
    PROVE  nsToCycles(n) \in Nat /\ (c > nsToCycles(n) => cyclesToNs(c) >= n)
  <1>1. FreqMHz \in Nat \ {0}
    BY TimeAssumption
  <1>2. PICK m \in Nat : m = n * FreqMHz
    BY <1>1
  <1>3. PICK q \in Nat : q = m \div 1000 /\ m < q * 1000 + 1000
    BY <1>2
  <1>4. nsToCycles(n) = q
    BY <1>2, <1>3 DEF nsToCycles
  <1>5. ASSUME c > q PROVE cyclesToNs(c) >= n
    <2>1. c * 1000 >= n * FreqMHz
      BY <1>2, <1>3, <1>5
    <2>2. c * 1000 \in Nat
      OBVIOUS
    <2> QED
      BY <1>1, <2>1, <2>2, DivAtLeast DEF cyclesToNs
  <1> QED
    BY <1>4, <1>5

\* So many whole phases, and one more, are more than c cycles.
LEMMA WholePhases ==
    ASSUME NEW c \in Nat
    PROVE  (c \div PhaseLength) \in Nat /\ ((c \div PhaseLength) + 1) * PhaseLength > c
  <1>1. PhaseLength \in Nat \ {0}
    BY TimeAssumption
  <1>2. PICK q \in Nat : q = c \div PhaseLength /\ c < q * PhaseLength + PhaseLength
    BY <1>1, DivFacts
  <1>3. (q + 1) * PhaseLength = q * PhaseLength + PhaseLength
    BY <1>1
  <1> QED
    BY <1>2, <1>3

\* The time of the simulation and what it is made of.
LEMMA Times ==
    ASSUME TimeInv
    PROVE  /\ sim.phase \in Nat /\ Wall \in Nat /\ sim.lead \in Nat /\ SimNs \in Nat
           /\ HostNs \in Nat /\ VirtWall \in Nat /\ VirtWall <= HostNs
  <1>1. sim.phase \in Nat /\ Wall \in Nat /\ sim.lead \in Nat /\ Wall <= sim.lead
    BY DEF TimeInv, TimeTypeOK, WallOK
  <1>2. sim.phase * PhaseLength \in Nat
    BY <1>1, TimeAssumption
  <1>3. PICK s \in Nat : s = SimNs
    BY <1>2, CyclesToNs DEF SimNs
  <1> QED
    BY <1>1, <1>3 DEF HostNs, VirtWall

\* PatchNanosleep() asks for a sleep that is long enough.
LEMMA SleepLongEnough ==
    ASSUME TimeInv, NEW call \in TimedCalls, call.kind \in Sleeps
    PROVE  /\ SleepPhases(call) \in Nat \ {0}
           /\ LongEnough(call, sim.phase, sim.phase + SleepPhases(call), Wall)
  <1>1. PICK f \in Nat : f = sim.phase
    BY Times
  <1>2. PICK v \in Nat : v = VirtWall
    BY Times
  <1>3. PICK w \in Nat : w = Wall
    BY Times
  <1>4. call.ns \in Nat /\ PhaseLength \in Nat \ {0}
    BY TimeAssumption DEF TimedCalls
  <1>5. PICK n \in Nat : n = IF call.kind = "nanosleep" THEN call.ns
                            ELSE IF call.ns >= v THEN call.ns - v ELSE 0
    BY <1>4
  <1>6. nsToCycles(n) \in Nat
    BY MoreCycles
  <1>7. PICK k \in Nat \ {0} : k = nsToCycles(n) \div PhaseLength + 1 /\ k * PhaseLength > nsToCycles(n)
    BY <1>6, WholePhases
  <1>8. SleepPhases(call) = k
    BY <1>2, <1>5, <1>7 DEF SleepPhases, VirtNs, VirtWall, ClockId, ClockIds
  <1>9. PICK a \in Nat : a = f * PhaseLength
    BY <1>4
  <1>10. PICK b \in Nat : b = k * PhaseLength
    BY <1>4
  <1>11. (f + k) * PhaseLength = a + b /\ (f + k) - f = k
    BY <1>4, <1>9, <1>10
  <1>12. cyclesToNs(b) >= n
    BY <1>6, <1>7, <1>10, MoreCycles
  <1>13. /\ cyclesToNs(a) \in Nat /\ cyclesToNs(b) \in Nat /\ cyclesToNs(a + b) \in Nat
         /\ cyclesToNs(a) + cyclesToNs(b) <= cyclesToNs(a + b)
    BY CyclesToNs
  <1>14. v = w + cyclesToNs(a)
    BY <1>1, <1>2, <1>3, <1>9 DEF VirtWall, SimNs
  <1>15. CASE call.kind = "nanosleep"
    <2>1. cyclesToNs(((f + k) - f) * PhaseLength) >= call.ns
      BY <1>5, <1>10, <1>11, <1>12, <1>15
    <2> QED
      BY <1>1, <1>3, <1>8, <1>15, <2>1 DEF LongEnough
  <1>16. CASE call.kind = "clock_nanosleep"
    <2>1. v + n >= call.ns
      BY <1>4, <1>5, <1>16
    <2>2. w + cyclesToNs(a + b) >= call.ns
      BY <1>4, <1>12, <1>13, <1>14, <2>1
    <2>3. w + cyclesToNs((f + k) * PhaseLength) >= call.ns
      BY <1>11, <2>2
    <2> QED
      BY <1>1, <1>3, <1>8, <1>16, <2>3 DEF LongEnough
  <1> QED
    BY <1>8, <1>15, <1>16 DEF Sleeps

\* PrePatchTimeoutSyscall() asks for a wait that is long enough but for a phase.
LEMMA WaitLongEnough ==
    ASSUME TimeInv, NEW call \in TimedCalls, call.kind \in Waits, WaitPhases(call) # 0
    PROVE  /\ WaitPhases(call) \in Nat \ {0}
           /\ LongEnough(call, sim.phase, sim.phase + WaitPhases(call), Wall)
  <1>1. PICK f \in Nat : f = sim.phase
    BY Times
  <1>2. PICK v \in Nat : v = VirtWall
    BY Times
  <1>3. PICK w \in Nat : w = Wall
    BY Times
  <1>4. call.ns \in Nat /\ PhaseLength \in Nat \ {0}
    BY TimeAssumption DEF TimedCalls
  <1>5. PICK n \in Nat : n = IF call.kind # "futex_realtime" THEN call.ns
                            ELSE IF call.ns > v THEN call.ns - v ELSE 0
    BY <1>4
  <1>6. nsToCycles(n) \in Nat
    BY MoreCycles
  <1>7. PICK q \in Nat : q = nsToCycles(n) \div PhaseLength /\ (q + 1) * PhaseLength > nsToCycles(n)
    BY <1>6, WholePhases
  <1>8. PICK k \in Nat \ {0} : k = (IF q < 2 THEN 2 ELSE q)
    OBVIOUS
  <1>9. WaitPhases(call) = k
    BY <1>2, <1>5, <1>7, <1>8 DEF WaitPhases, VirtNs, VirtWall, ClockId, ClockIds
  <1>10. PICK a \in Nat : a = f * PhaseLength
    BY <1>4
  <1>11. PICK b \in Nat : b = k * PhaseLength
    BY <1>4
  <1>12. (f + k) * PhaseLength = a + b /\ ((f + k) - f + 1) * PhaseLength = b + PhaseLength
    BY <1>4, <1>10, <1>11
  <1>13. b + PhaseLength > nsToCycles(n)
    <2>1. PICK e \in Nat : k = q + e
      <3>1. k - q \in Nat /\ k = q + (k - q)
        BY <1>8
      <3> QED
        BY <3>1
    <2>2. PICK x \in Nat : x = (q + 1) * PhaseLength /\ x > nsToCycles(n)
      BY <1>4, <1>7
    <2>3. PICK y \in Nat : y = e * PhaseLength
      BY <1>4
    <2>4. b + PhaseLength = x + y
      BY <1>4, <1>11, <2>1, <2>2, <2>3
    <2> QED
      BY <1>6, <2>2, <2>4
  <1>14. CASE call.kind \in {"futex", "poll"}
    <2>1. ((f + k) - f + 1) * PhaseLength > nsToCycles(call.ns)
      BY <1>5, <1>12, <1>13, <1>14
    <2> QED
      BY <1>1, <1>3, <1>9, <1>14, <2>1 DEF LongEnough
  <1>15. CASE call.kind = "futex_realtime"
    <2>1. cyclesToNs(b + PhaseLength) >= n
      BY <1>4, <1>13, MoreCycles
    <2>2. /\ cyclesToNs(a) \in Nat /\ cyclesToNs(b) \in Nat /\ cyclesToNs(a + b) \in Nat
          /\ cyclesToNs(PhaseLength) \in Nat
          /\ cyclesToNs(a) + cyclesToNs(b) <= cyclesToNs(a + b)
          /\ cyclesToNs(b + PhaseLength) \in Nat
          /\ cyclesToNs(b + PhaseLength) <= cyclesToNs(b) + cyclesToNs(PhaseLength) + 1
      BY <1>4, CyclesToNs
    <2>3. v = w + cyclesToNs(a)
      BY <1>1, <1>2, <1>3, <1>10 DEF VirtWall, SimNs
    <2>4. v + n >= call.ns
      BY <1>4, <1>5, <1>15
    <2>5. w + cyclesToNs(a + b) + cyclesToNs(PhaseLength) + 1 >= call.ns
      BY <1>4, <2>1, <2>2, <2>3, <2>4
    <2>6. w + cyclesToNs((f + k) * PhaseLength) + cyclesToNs(PhaseLength) + 1 >= call.ns
      BY <1>12, <2>5
    <2> QED
      BY <1>1, <1>3, <1>9, <1>15, <2>6 DEF LongEnough
  <1> QED
    BY <1>9, <1>14, <1>15 DEF Waits

\* Times are not told to go back by a clock of any resolution.
LEMMA ToldMonotone ==
    ASSUME NEW c \in WallClocks, NEW m \in Nat, NEW n \in Nat, m <= n
    PROVE  Told(c, m) \in Nat /\ Told(c, n) \in Nat /\ Told(c, m) <= Told(c, n)
  <1>1. Resolution(c) \in Nat \ {0}
    BY DEF Resolution, WallClocks, Clocks, ClockIds
  <1> QED
    BY <1>1, DivMonotone, DivFacts DEF Told

\* A later time keeps what was read before it.
LEMMA ReadBeforeLater ==
    ASSUME NEW t \in ThreadRecs, NEW ff \in BOOLEAN, NEW r \in ReadRecs,
           NEW h \in Nat, NEW v \in Nat, NEW i \in Nat, NEW w \in Nat, h <= i, v <= w,
           ReadBefore(t, ff, r, h, v)
    PROVE  ReadBefore(t, ff, r, i, w)
  <1> SUFFICES ASSUME NEW c \in WallClocks
               PROVE  /\ r[c] <= Told(c, i)
                      /\ ~OnHost(t, ff) => r[c] <= Told(c, w)
                      /\ t.pc = "vdso" /\ t.call.kind \in WallClocks => t.call.ns <= i /\ r[c] <= Told(c, t.call.ns)
    BY DEF ReadBefore
  <1>1. /\ Told(c, h) \in Nat /\ Told(c, i) \in Nat /\ Told(c, h) <= Told(c, i)
        /\ Told(c, v) \in Nat /\ Told(c, w) \in Nat /\ Told(c, v) <= Told(c, w)
    BY ToldMonotone
  <1>2. /\ r[c] \in Nat /\ r[c] <= Told(c, h)
        /\ ~OnHost(t, ff) => r[c] <= Told(c, v)
        /\ t.pc = "vdso" /\ t.call.kind \in WallClocks => t.call.ns <= h /\ r[c] <= Told(c, t.call.ns)
    BY DEF ReadBefore, ReadRecs
  <1>3. t.call.ns \in Nat
    BY DEF ThreadRecs, TimedCalls
  <1> QED
    BY <1>1, <1>2, <1>3

\* A later offset keeps a wait long enough.
LEMMA LongEnoughLater ==
    ASSUME NEW call \in TimedCalls, NEW from \in Nat, NEW until \in Nat, NEW w \in Nat, NEW x \in Nat, w <= x,
           LongEnough(call, from, until, w)
    PROVE  LongEnough(call, from, until, x)
  <1>1. until * PhaseLength \in Nat /\ PhaseLength \in Nat
    BY TimeAssumption
  <1>2. PICK u \in Nat : u = cyclesToNs(until * PhaseLength)
    BY <1>1, CyclesToNs
  <1>3. PICK l \in Nat : l = cyclesToNs(PhaseLength)
    BY <1>1, CyclesToNs
  <1>4. call.ns \in Nat
    BY DEF TimedCalls
  <1> QED
    BY <1>2, <1>3, <1>4 DEF LongEnough

-----------------------------------------------------------------------------

\* Thread p has become t, and read r.
Moved(p, t, r) ==
    /\ prog' = prog
    /\ th' = [q \in Procs |-> IF q = p THEN t ELSE th[q]]
    /\ read' = [q \in Procs |-> IF q = p THEN r ELSE read[q]]
    /\ sim'.phase = sim.phase /\ sim'.lead = sim.lead /\ sim'.offset = sim.offset /\ sim'.cpu = sim.cpu /\ sim'.ff = sim.ff
    /\ sim' \in SimRecs

Fits(t, p, r) ==
    /\ t \in ThreadRecs /\ r \in ReadRecs
    /\ Control(t, sim.ff[p])
    /\ Signalled(t)
    /\ Asleep(t, sim.phase, Wall)
    /\ ReadBefore(t, sim.ff[p], r, HostNs, VirtWall)
    /\ \A c \in WallClocks : r[c] >= read[p][c]

ReadsGrow == \A p \in Procs, c \in WallClocks : read'[p][c] >= read[p][c]

\* One thread moves to a record that fits; the others keep theirs.
LEMMA MovedKeeps ==
    ASSUME TimeInv, NEW p \in Procs, NEW t, NEW r, Moved(p, t, r), failed' = {}, Fits(t, p, r)
    PROVE  TimeInv' /\ ReadsGrow
  <1>1. /\ \A q \in Procs : th'[q] = (IF q = p THEN t ELSE th[q]) /\ read'[q] = (IF q = p THEN r ELSE read[q])
        /\ th' \in [Procs -> ThreadRecs] /\ read' \in [Procs -> ReadRecs]
        /\ \A q \in Procs : read[q] \in ReadRecs
    BY DEF Moved, Fits, TimeInv, TimeTypeOK
  <1>2. TimeTypeOK'
    BY <1>1 DEF Moved, TimeInv, TimeTypeOK
  <1>3. WallOK'
    BY DEF Moved, TimeInv, WallOK
  <1>4. HostNs' = HostNs /\ VirtWall' = VirtWall
    BY DEF HostNs, VirtWall, SimNs, Moved
  <1>5. ASSUME NEW q \in Procs
        PROVE  /\ prog'.toggles = 0 => ~sim'.ff[q]
               /\ Control(th'[q], sim'.ff[q])
               /\ Signalled(th[q])'
               /\ Asleep(th'[q], sim'.phase, Wall')
               /\ ReadBefore(th'[q], sim'.ff[q], read'[q], HostNs', VirtWall')
               /\ \A c \in WallClocks : read'[q][c] >= read[q][c]
    <2>1. prog' = prog /\ sim'.phase = sim.phase /\ sim'.offset = sim.offset /\ sim'.cpu = sim.cpu /\ sim'.ff = sim.ff
      BY DEF Moved
    <2>2. CASE q = p
      BY <1>1, <1>4, <2>1, <2>2 DEF TimeInv, Fits, Signalled
    <2>3. CASE q # p
      <3>1. th'[q] = th[q] /\ read'[q] = read[q]
        BY <1>1, <2>3
      <3>2. \A c \in WallClocks : read[q][c] \in Nat
        BY <1>1 DEF ReadRecs
      <3> QED
        BY <1>4, <2>1, <3>1, <3>2 DEF TimeInv, Signalled
    <2> QED
      BY <2>2, <2>3
  <1> QED
    BY <1>2, <1>3, <1>5 DEF TimeInv, ReadsGrow, Moved

\* What is known of a thread.
LEMMA ThreadKnown ==
    ASSUME TimeInv, NEW p \in Procs
    PROVE  /\ th[p] \in ThreadRecs /\ read[p] \in ReadRecs /\ sim.ff[p] \in BOOLEAN
           /\ Fits(th[p], p, read[p])
           /\ sim \in SimRecs
  <1>1. th[p] \in ThreadRecs /\ read[p] \in ReadRecs
    BY DEF TimeInv, TimeTypeOK
  <1>2. \A c \in WallClocks : read[p][c] \in Nat
    BY <1>1 DEF ReadRecs
  <1> QED
    BY <1>1, <1>2 DEF TimeInv, TimeTypeOK, Fits

\* A patched call is retried.
LEMMA SyscallRetryStep ==
    ASSUME TimeInv, NEW p \in Procs, SyscallRetry(p)
    PROVE  TimeInv' /\ ReadsGrow
  <1>1. /\ th[p] \in ThreadRecs /\ read[p] \in ReadRecs /\ Fits(th[p], p, read[p])
    BY ThreadKnown
  <1>2. PICK t : t = [th[p] EXCEPT !.pc = "kernel"]
    OBVIOUS
  <1>3. Moved(p, t, read[p]) /\ failed' = {}
    BY <1>2 DEF SyscallRetry, Moved, TimeInv, TimeTypeOK
  <1>4. t \in ThreadRecs /\ Control(t, sim.ff[p])
    BY <1>1, <1>2 DEF SyscallRetry, Fits, Control, ThreadRecs
  <1>5. Signalled(t)
    BY <1>1, <1>2 DEF SyscallRetry, Fits, Signalled, ThreadRecs, Control
  <1>6. Asleep(t, sim.phase, Wall)
    BY <1>1, <1>2 DEF SyscallRetry, Fits, Asleep, ThreadRecs, Control
  <1>7. ReadBefore(t, sim.ff[p], read[p], HostNs, VirtWall)
    BY <1>1, <1>2 DEF SyscallRetry, Fits, ReadBefore, OnHost, ThreadRecs, Control
  <1> QED
    BY <1>1, <1>3, <1>4, <1>5, <1>6, <1>7, MovedKeeps DEF Fits

\* The record of a thread that is in no call has its type.
LEMMA NoCallTimed == NoCall \in TimedCalls
  BY DEF NoCall, TimedCalls

\* A call that is not patched, or only after it.
LEMMA EnterPlainStep ==
    ASSUME TimeInv, NEW p \in Procs, NEW call \in TimedCalls, NEW post \in {"null", "time"},
           AtInstruction(p), EnterPlain(p, call, post), prog' = prog, read' = read,
           sim' = [sim EXCEPT !.calls = @ + 1],
           post = "null" => (call.kind \in Clocks => sim.ff[p]),
           post = "time" => call.kind \in Clocks /\ ~SkipVirt(p)
    PROVE  TimeInv' /\ ReadsGrow
  <1>1. /\ th[p] \in ThreadRecs /\ read[p] \in ReadRecs /\ sim.ff[p] \in BOOLEAN /\ Fits(th[p], p, read[p])
        /\ sim \in SimRecs
    BY ThreadKnown
  <1>2. PICK ptrs : ptrs = IF th[p].ptrs = "NOP" THEN "NOP" ELSE "JOIN"
    OBVIOUS
  <1>3. PICK t : t = [th[p] EXCEPT !.pc = "kernel", !.call = call, !.post = post, !.done = NoCall, !.ptrs = ptrs]
    OBVIOUS
  <1>4. Moved(p, t, read[p]) /\ failed' = {}
    <2>1. th' = [q \in Procs |-> IF q = p THEN t ELSE th[q]]
      BY <1>1, <1>2, <1>3 DEF EnterPlain, TimeInv, TimeTypeOK, ThreadRecs
    <2>2. /\ sim'.phase = sim.phase /\ sim'.lead = sim.lead /\ sim'.offset = sim.offset /\ sim'.cpu = sim.cpu /\ sim'.ff = sim.ff
          /\ sim' \in SimRecs
      <3>1. PICK n \in Nat : n = sim.calls + 1
        BY <1>1
      <3>2. sim' = [sim EXCEPT !.calls = n]
        BY <3>1
      <3> QED
        BY <1>1, <3>2
    <2>3. read' = [q \in Procs |-> IF q = p THEN read[p] ELSE read[q]]
      BY DEF TimeInv, TimeTypeOK
    <2>4. failed' = {}
      BY DEF EnterPlain, TimeInv
    <2> QED
      BY <2>1, <2>2, <2>3, <2>4 DEF Moved
  <1>5. /\ t \in ThreadRecs /\ t.pc = "kernel" /\ t.call = call /\ t.post = post /\ t.done = NoCall /\ t.ptrs = ptrs
        /\ t.state = th[p].state /\ t.fake = th[p].fake /\ t.marked = th[p].marked /\ t.word = th[p].word
        /\ t.from = th[p].from /\ t.until = th[p].until
    BY <1>1, <1>2, <1>3, NoCallTimed DEF ThreadRecs
  <1>6. th[p].pc = "app" /\ th[p].ptrs \in {"CORE", "NOP", "JOIN"} /\ (th[p].ptrs = "NOP" => sim.ff[p]) /\ th[p].post = "null"
    BY <1>1 DEF AtInstruction, Fits, Control
  <1>7. /\ Control(th[p], sim.ff[p]) /\ Signalled(th[p]) /\ Asleep(th[p], sim.phase, Wall)
        /\ ReadBefore(th[p], sim.ff[p], read[p], HostNs, VirtWall)
    BY <1>1 DEF Fits
  <1>8. Control(t, sim.ff[p])
    BY <1>2, <1>5, <1>6, <1>7 DEF Control, SkipVirt
  <1>9. Signalled(t)
    BY <1>5, <1>6, <1>7 DEF Signalled
  <1>10. Asleep(t, sim.phase, Wall)
    <2>1. t.done.kind = "none"
      BY <1>5 DEF NoCall
    <2>2. t.state = "SLEEPING" => t.word = 1 /\ sim.phase < t.until /\ t.ptrs = "JOIN"
      BY <1>2, <1>5, <1>6, <1>7 DEF Asleep
    <2> QED
      BY <1>5, <2>1, <2>2 DEF Asleep
  <1>11. ReadBefore(t, sim.ff[p], read[p], HostNs, VirtWall)
    BY <1>2, <1>5, <1>6, <1>7 DEF ReadBefore, OnHost, SkipVirt
  <1> QED
    BY <1>1, <1>4, <1>5, <1>8, <1>9, <1>10, <1>11, MovedKeeps DEF Fits

\* A call that puts the thread to sleep.
LEMMA EnterSleepStep ==
    ASSUME TimeInv, NEW p \in Procs, NEW call \in TimedCalls, NEW post \in {"sleep", "timeout"}, NEW n \in Nat \ {0},
           AtInstruction(p), ~SkipVirt(p), EnterSleep(p, call, post, n), prog' = prog, read' = read,
           sim' = [sim EXCEPT !.calls = @ + 1],
           post = "sleep" => call.kind \in Sleeps /\ call \in prog.args,
           post = "timeout" => call.kind \in Waits,
           LongEnough(call, sim.phase, sim.phase + n, Wall)
    PROVE  TimeInv' /\ ReadsGrow
  <1>1. /\ th[p] \in ThreadRecs /\ read[p] \in ReadRecs /\ sim.ff[p] \in BOOLEAN /\ Fits(th[p], p, read[p])
        /\ sim \in SimRecs
    BY ThreadKnown
  <1>2. PICK f \in Nat : f = sim.phase
    BY <1>1
  <1>3. PICK u \in Nat : u = f + n
    OBVIOUS
  <1>4. PICK b \in BOOLEAN : b = (post = "timeout")
    OBVIOUS
  <1>5. PICK t : t = [th[p] EXCEPT !.pc = "marked", !.call = call, !.post = post, !.done = NoCall,
                        !.marked = TRUE, !.word = 1, !.fake = b, !.from = f, !.until = u]
    OBVIOUS
  <1>6. /\ th[p].pc = "app" /\ th[p].ptrs = "CORE" /\ ~sim.ff[p] /\ th[p].post = "null" /\ th[p].fake = FALSE
        /\ th[p].marked = FALSE /\ th[p].state = "RUNNING"
    <2>1. ~prog.backToBack /\ Control(th[p], sim.ff[p])
      BY <1>1 DEF TimeInv, Fits
    <2>2. th[p].pc = "app" /\ th[p].ptrs = "CORE" /\ ~sim.ff[p]
      BY <2>1 DEF AtInstruction, SkipVirt, EnterSleep
    <2> QED
      BY <2>1, <2>2 DEF Control
  <1>7. Moved(p, t, read[p]) /\ failed' = {}
    <2>1. th' = [q \in Procs |-> IF q = p THEN t ELSE th[q]]
      BY <1>1, <1>2, <1>3, <1>4, <1>5, ZenonT(60) DEF EnterSleep, TimeInv, TimeTypeOK, ThreadRecs
    <2>2. /\ sim'.phase = sim.phase /\ sim'.lead = sim.lead /\ sim'.offset = sim.offset /\ sim'.cpu = sim.cpu /\ sim'.ff = sim.ff
          /\ sim' \in SimRecs
      <3>1. PICK k \in Nat : k = sim.calls + 1
        BY <1>1
      <3>2. sim' = [sim EXCEPT !.calls = k]
        BY <3>1
      <3> QED
        BY <1>1, <3>2
    <2>3. read' = [q \in Procs |-> IF q = p THEN read[p] ELSE read[q]]
      BY DEF TimeInv, TimeTypeOK
    <2>4. failed' = {}
      BY <1>6 DEF EnterSleep, Fail, Broken, TimeInv
    <2> QED
      BY <2>1, <2>2, <2>3, <2>4 DEF Moved
  <1>8. /\ t \in ThreadRecs /\ t.pc = "marked" /\ t.call = call /\ t.post = post /\ t.done = NoCall /\ t.ptrs = "CORE"
        /\ t.state = "RUNNING" /\ t.marked = TRUE /\ t.word = 1 /\ t.fake = b /\ t.from = f /\ t.until = u
    BY <1>1, <1>5, <1>6, NoCallTimed DEF ThreadRecs
  <1>9. ReadBefore(th[p], sim.ff[p], read[p], HostNs, VirtWall)
    BY <1>1 DEF Fits
  <1>10. Control(t, sim.ff[p])
    BY <1>4, <1>8 DEF Control
  <1>11. Signalled(t)
    BY <1>8 DEF Signalled
  <1>12. Asleep(t, sim.phase, Wall)
    <2>1. f < u
      BY <1>3
    <2>2. LongEnough(call, f, u, Wall)
      BY <1>2, <1>3
    <2> QED
      BY <1>2, <1>8, <2>1, <2>2 DEF Asleep, NoCall
  <1>13. ReadBefore(t, sim.ff[p], read[p], HostNs, VirtWall)
    BY <1>6, <1>8, <1>9 DEF ReadBefore, OnHost
  <1>14. \A c \in WallClocks : read[p][c] >= read[p][c]
    BY <1>1 DEF Fits
  <1> QED
    BY <1>1, <1>7, <1>8, <1>10, <1>11, <1>12, <1>13, <1>14, MovedKeeps DEF Fits

\* A step that changes nothing but p, which reads nothing.
LEMMA MovedOnly ==
    ASSUME TimeInv, NEW p \in Procs, NEW t, th' = [q \in Procs |-> IF q = p THEN t ELSE th[q]],
           prog' = prog, sim' = sim, read' = read
    PROVE  Moved(p, t, read[p])
  BY DEF Moved, TimeInv, TimeTypeOK

\* The thread that was marked for sleep leaves.
LEMMA LeaveMarkedStep ==
    ASSUME TimeInv, NEW p \in Procs, LeaveMarked(p)
    PROVE  TimeInv' /\ ReadsGrow
  <1>1. /\ th[p] \in ThreadRecs /\ read[p] \in ReadRecs /\ sim.ff[p] \in BOOLEAN /\ Fits(th[p], p, read[p])
    BY ThreadKnown
  <1>2. /\ th[p].pc = "marked" /\ Control(th[p], sim.ff[p]) /\ Signalled(th[p]) /\ Asleep(th[p], sim.phase, Wall)
        /\ ReadBefore(th[p], sim.ff[p], read[p], HostNs, VirtWall)
    BY <1>1 DEF LeaveMarked, Fits
  <1>3. th[p].ptrs = "CORE" /\ th[p].state = "RUNNING" /\ th[p].post \in {"sleep", "timeout"}
    BY <1>2 DEF Control
  <1>4. PICK t : t = [th[p] EXCEPT !.pc = "kernel", !.ptrs = "JOIN", !.marked = FALSE, !.state = "SLEEPING"]
    OBVIOUS
  <1>5. /\ t \in ThreadRecs /\ t.pc = "kernel" /\ t.ptrs = "JOIN" /\ t.marked = FALSE /\ t.state = "SLEEPING"
        /\ t.word = th[p].word /\ t.from = th[p].from /\ t.until = th[p].until /\ t.fake = th[p].fake
        /\ t.call = th[p].call /\ t.post = th[p].post /\ t.done = th[p].done
    BY <1>1, <1>4, ZenonT(60) DEF ThreadRecs
  <1>6. Moved(p, t, read[p]) /\ failed' = {}
    <2>1. th' = [q \in Procs |-> IF q = p THEN t ELSE th[q]]
      BY <1>3, <1>4 DEF LeaveMarked, TimeInv, TimeTypeOK
    <2>2. failed' = {}
      BY <1>3 DEF LeaveMarked, Fail, Broken, TimeInv
    <2> QED
      BY <2>1, <2>2, MovedOnly DEF LeaveMarked
  <1>7. Control(t, sim.ff[p])
    BY <1>2, <1>3, <1>5 DEF Control
  <1>8. Signalled(t)
    BY <1>2, <1>3, <1>5 DEF Signalled
  <1>9. Asleep(t, sim.phase, Wall)
    BY <1>2, <1>3, <1>5 DEF Asleep
  <1>10. ReadBefore(t, sim.ff[p], read[p], HostNs, VirtWall)
    BY <1>2, <1>3, <1>5 DEF ReadBefore, OnHost
  <1> QED
    BY <1>1, <1>5, <1>6, <1>7, <1>8, <1>9, <1>10, MovedKeeps DEF Fits

\* A system call is entered, and patched.
LEMMA SyscallEnterStep ==
    ASSUME TimeInv, NEW p \in Procs, NEW call \in prog.args, SyscallEnter(p, call)
    PROVE  TimeInv' /\ ReadsGrow
  <1>1. call \in TimedCalls /\ call.kind \in Clocks \cup Sleeps \cup Waits
    <2>1. prog.args \subseteq [kind : Clocks \cup Sleeps \cup Waits, ns : Nat]
      BY TimeAssumption DEF TimeInv, TimeTypeOK
    <2> QED
      BY <2>1 DEF TimedCalls
  <1>2. AtInstruction(p) /\ sim' = [sim EXCEPT !.calls = @ + 1] /\ prog' = prog /\ read' = read
    BY DEF SyscallEnter
  <1>3. CASE SkipVirt(p)
    <2>1. EnterPlain(p, call, "null") /\ sim.ff[p]
      BY <1>3 DEF SyscallEnter, SkipVirt, AtInstruction
    <2> QED
      BY <1>1, <1>2, <2>1, EnterPlainStep
  <1>4. CASE ~SkipVirt(p) /\ call.kind \in Clocks
    <2>1. EnterPlain(p, call, "time")
      BY <1>4 DEF SyscallEnter
    <2> QED
      BY <1>1, <1>2, <1>4, <2>1, EnterPlainStep
  <1>5. CASE ~SkipVirt(p) /\ call.kind \in Sleeps
    <2>1. EnterSleep(p, call, "sleep", SleepPhases(call))
      BY <1>5 DEF SyscallEnter, Clocks, ClockIds, Sleeps
    <2>2. /\ SleepPhases(call) \in Nat \ {0}
          /\ LongEnough(call, sim.phase, sim.phase + SleepPhases(call), Wall)
      BY <1>1, <1>5, SleepLongEnough
    <2> QED
      BY <1>1, <1>2, <1>5, <2>1, <2>2, EnterSleepStep
  <1>6. CASE ~SkipVirt(p) /\ call.kind \in Waits /\ WaitPhases(call) = 0
    <2>1. EnterPlain(p, call, "null") /\ call.kind \notin Clocks
      BY <1>6 DEF SyscallEnter, Clocks, ClockIds, Sleeps, Waits
    <2> QED
      BY <1>1, <1>2, <2>1, EnterPlainStep
  <1>7. CASE ~SkipVirt(p) /\ call.kind \in Waits /\ WaitPhases(call) # 0
    <2>1. EnterSleep(p, call, "timeout", WaitPhases(call))
      BY <1>7 DEF SyscallEnter, Clocks, ClockIds, Sleeps, Waits
    <2>2. /\ WaitPhases(call) \in Nat \ {0}
          /\ LongEnough(call, sim.phase, sim.phase + WaitPhases(call), Wall)
      BY <1>1, <1>7, WaitLongEnough
    <2> QED
      BY <1>1, <1>2, <1>7, <2>1, <2>2, EnterSleepStep
  <1> QED
    BY <1>1, <1>3, <1>4, <1>5, <1>6, <1>7

\* A clock that is read: if it is a wall clock, it shows n.
LEMMA ReadRaised ==
    ASSUME NEW rd \in ReadRecs, NEW k \in Clocks, NEW n \in Nat, \A c \in WallClocks : rd[c] <= Told(c, n),
           NEW v \in Int, k \in WallClocks => v = Told(k, n), NEW r, r = [rd EXCEPT ![k] = v]
    PROVE  r \in ReadRecs /\ \A c \in WallClocks : rd[c] <= r[c] /\ r[c] <= Told(c, n)
  <1>1. /\ rd \in [Clocks -> Int] /\ r \in [Clocks -> Int] /\ r[k] = v /\ \A c \in Clocks : c # k => r[c] = rd[c]
        /\ \A c \in WallClocks : c \in Clocks
    BY DEF ReadRecs, WallClocks
  <1>2. ASSUME NEW c \in WallClocks PROVE r[c] \in Nat /\ rd[c] <= r[c] /\ r[c] <= Told(c, n)
    <2>1. rd[c] \in Nat /\ rd[c] <= Told(c, n) /\ Told(c, n) \in Nat
      BY ToldMonotone DEF ReadRecs
    <2> QED
      BY <1>1, <2>1
  <1> QED
    BY <1>1, <1>2 DEF ReadRecs

\* What a clock shows is a number, and a wall clock shows the wall time.
LEMMA ClocksShow ==
    ASSUME TimeInv, NEW p \in Procs, NEW k \in Clocks
    PROVE  /\ HostTime(p, k) \in Nat /\ VirtNs(k) \in Int
           /\ Told(k, HostTime(p, k)) \in Int /\ Told(k, VirtNs(k)) \in Int
           /\ k \in WallClocks => HostTime(p, k) = HostNs /\ VirtNs(k) = VirtWall
  <1>1. HostNs \in Nat /\ SimNs \in Nat /\ VirtWall \in Nat
    BY Times
  <1>2. sim.offset \in [ClockIds -> Int] /\ sim.cpu[p] \in Nat /\ sim.offset["monotonic"] = Wall
    BY DEF TimeInv, TimeTypeOK, WallOK
  <1>3. ClockId(k) \in ClockIds /\ (k \in WallClocks => ClockId(k) \in {"realtime", "monotonic"})
    BY DEF ClockId, ClockIds, WallClocks, Clocks
  <1>4. HostTime(p, k) \in Nat /\ (k \in WallClocks => HostTime(p, k) = HostNs)
    BY <1>1, <1>2, <1>3 DEF HostTime
  <1>5. PICK o \in Int : o = sim.offset[ClockId(k)]
    BY <1>2, <1>3
  <1>6. VirtNs(k) \in Int
    BY <1>1, <1>5 DEF VirtNs
  <1>7. k \in WallClocks => VirtNs(k) = VirtWall
    BY <1>2, <1>3 DEF VirtNs, VirtWall
  <1>8. \A n \in Int : Told(k, n) \in Int
    <2>1. Resolution(k) \in Nat \ {0}
      BY DEF Resolution, Clocks, ClockIds
    <2> QED
      BY <2>1 DEF Told
  <1> QED
    BY <1>4, <1>6, <1>7, <1>8

\* The kernel answers.
LEMMA KernelStep ==
    ASSUME TimeInv, NEW p \in Procs, Kernel(p)
    PROVE  TimeInv' /\ ReadsGrow
  <1>1. /\ th[p] \in ThreadRecs /\ read[p] \in ReadRecs /\ sim.ff[p] \in BOOLEAN /\ Fits(th[p], p, read[p])
    BY ThreadKnown
  <1>2. PICK a \in Answers(p) : th' = [th EXCEPT ![p].pc = "exit", ![p].res = a]
    BY DEF Kernel
  <1>3. /\ a \in {"ok", "EINTR", "timeout"}
        /\ th[p].post = "sleep" /\ a = "ok" => th[p].word = 0
        /\ th[p].post = "sleep" => a = "ok" \/ (a = "EINTR" /\ prog.signals)
    <2>1. CASE th[p].post = "sleep"
      BY <1>2, <2>1 DEF Answers
    <2>2. CASE th[p].post = "timeout"
      BY <1>2, <2>2 DEF Answers
    <2>3. CASE th[p].post \notin {"sleep", "timeout"}
      BY <1>2, <2>3 DEF Answers
    <2> QED
      BY <2>1, <2>2, <2>3
  <1>4. PICK t : t = [th[p] EXCEPT !.pc = "exit", !.res = a]
    OBVIOUS
  <1>5. /\ t \in ThreadRecs /\ t.pc = "exit" /\ t.res = a /\ t.ptrs = th[p].ptrs /\ t.state = th[p].state
        /\ t.word = th[p].word /\ t.from = th[p].from /\ t.until = th[p].until /\ t.fake = th[p].fake
        /\ t.call = th[p].call /\ t.post = th[p].post /\ t.done = th[p].done /\ t.marked = th[p].marked
    BY <1>1, <1>3, <1>4, ZenonT(60) DEF ThreadRecs
  <1>6. th' = [q \in Procs |-> IF q = p THEN t ELSE th[q]]
    BY <1>2, <1>4 DEF TimeInv, TimeTypeOK
  <1>7. /\ th[p].pc = "kernel" /\ Control(th[p], sim.ff[p]) /\ Signalled(th[p]) /\ Asleep(th[p], sim.phase, Wall)
        /\ ReadBefore(th[p], sim.ff[p], read[p], HostNs, VirtWall)
    BY <1>1 DEF Kernel, Fits
  <1>8. Control(t, sim.ff[p])
    BY <1>5, <1>7 DEF Control
  <1>9. Signalled(t)
    BY <1>3, <1>5, <1>7 DEF Signalled
  <1>10. Asleep(t, sim.phase, Wall)
    BY <1>3, <1>5, <1>7 DEF Asleep
  <1>11. failed' = {} /\ prog' = prog /\ sim' = sim
    BY DEF Kernel, TimeInv
  <1>12. CASE th[p].post = "null" /\ th[p].call.kind \in Clocks
    <2>1. PICK k \in Clocks : k = th[p].call.kind
      BY <1>12
    <2>2. \A c \in WallClocks : read[p][c] <= Told(c, HostNs)
      BY <1>7 DEF ReadBefore
    <2>3. PICK r : r = [read[p] EXCEPT ![k] = Told(k, HostTime(p, k))]
      OBVIOUS
    <2>4. r \in ReadRecs /\ \A c \in WallClocks : read[p][c] <= r[c] /\ r[c] <= Told(c, HostNs)
      <3>1. PICK v \in Int : v = Told(k, HostTime(p, k)) /\ (k \in WallClocks => v = Told(k, HostNs))
        BY ClocksShow
      <3> QED
        BY <1>1, <2>2, <2>3, <3>1, Times, ReadRaised
    <2>5. read' = [q \in Procs |-> IF q = p THEN r ELSE read[q]]
      BY <1>12, <2>1, <2>3 DEF Kernel, TimeInv, TimeTypeOK
    <2>6. Moved(p, t, r)
      BY <1>6, <1>11, <2>5 DEF Moved, TimeInv, TimeTypeOK
    <2>7. sim.ff[p] /\ OnHost(t, sim.ff[p])
      BY <1>5, <1>7, <1>12 DEF Control, OnHost
    <2>8. ReadBefore(t, sim.ff[p], r, HostNs, VirtWall)
      BY <1>5, <2>4, <2>7 DEF ReadBefore
    <2>9. \A c \in WallClocks : r[c] >= read[p][c]
      BY <1>1, <2>4 DEF ReadRecs
    <2> QED
      BY <1>5, <1>8, <1>9, <1>10, <1>11, <2>4, <2>6, <2>8, <2>9, MovedKeeps DEF Fits
  <1>13. CASE ~(th[p].post = "null" /\ th[p].call.kind \in Clocks)
    <2>1. Moved(p, t, read[p])
      BY <1>6, <1>11, <1>13, MovedOnly DEF Kernel
    <2>2. ReadBefore(t, sim.ff[p], read[p], HostNs, VirtWall)
      BY <1>5, <1>7 DEF ReadBefore, OnHost
    <2> QED
      BY <1>1, <1>5, <1>8, <1>9, <1>10, <1>11, <2>1, <2>2, MovedKeeps DEF Fits
  <1> QED
    BY <1>12, <1>13

\* The end of SyscallExit(), for a thread t that has read r.
LEMMA ReturnStep ==
    ASSUME TimeInv, NEW p \in Procs, NEW t \in ThreadRecs, NEW r \in ReadRecs, NEW broken,
           Return(p, t, broken), broken = {},
           read' = [q \in Procs |-> IF q = p THEN r ELSE read[q]],
           t.pc = "app", t.ptrs = "JOIN" => t.post = "null", t.ptrs = "JOIN" /\ sim.ff[p] => t.state # "SLEEPING",
           Control(t, sim.ff[p]), Signalled(t), Asleep(t, sim.phase, Wall),
           \A c \in WallClocks : /\ read[p][c] <= r[c] /\ r[c] <= Told(c, HostNs)
                                 /\ ~(sim.ff[p] /\ t.ptrs \in {"JOIN", "NOP"}) => r[c] <= Told(c, VirtWall)
    PROVE  TimeInv' /\ ReadsGrow
  <1>1. sim.ff[p] \in BOOLEAN /\ failed = {} /\ read[p] \in ReadRecs
    BY ThreadKnown DEF TimeInv
  <1>2. PICK out \in BOOLEAN : out = (t.ptrs = "JOIN" /\ sim.ff[p])
    OBVIOUS
  <1>3. PICK u : u = IF out THEN [t EXCEPT !.ptrs = "NOP", !.state = "NONE", !.marked = FALSE] ELSE t
    OBVIOUS
  <1>4. /\ th' = [th EXCEPT ![p] = u] /\ prog' = prog /\ sim' = sim
        /\ failed' = failed \cup (broken \cup Broken("finish", out => t.state # "SLEEPING"))
    BY <1>2, <1>3 DEF Return, Fail
  <1>5. failed' = {}
    BY <1>1, <1>2, <1>4 DEF Broken
  <1>6. Moved(p, u, r)
    BY <1>4 DEF Moved, TimeInv, TimeTypeOK
  <1>7. \A c \in WallClocks : r[c] >= read[p][c]
    BY <1>1 DEF ReadRecs
  <1>8. CASE ~out
    <2>1. u = t /\ ~(t.ptrs = "JOIN" /\ sim.ff[p])
      BY <1>2, <1>3, <1>8
    <2>2. ReadBefore(t, sim.ff[p], r, HostNs, VirtWall)
      BY <2>1 DEF ReadBefore, OnHost
    <2> QED
      BY <1>5, <1>6, <1>7, <2>1, <2>2, MovedKeeps DEF Fits
  <1>9. CASE out
    <2>1. t.ptrs = "JOIN" /\ sim.ff[p] /\ t.post = "null"
      BY <1>2, <1>9
    <2>2. /\ u \in ThreadRecs /\ u.ptrs = "NOP" /\ u.state = "NONE" /\ u.pc = "app" /\ u.post = "null"
          /\ u.call = t.call /\ u.fake = t.fake /\ u.done = t.done /\ u.until = t.until /\ u.from = t.from
          /\ u.marked = FALSE
      BY <1>3, <1>9, <2>1 DEF ThreadRecs
    <2>3. Control(u, sim.ff[p]) /\ Signalled(u)
      BY <2>1, <2>2 DEF Control, Signalled
    <2>4. Asleep(u, sim.phase, Wall)
      BY <2>2 DEF Asleep
    <2>5. ReadBefore(u, sim.ff[p], r, HostNs, VirtWall)
      BY <2>1, <2>2 DEF ReadBefore, OnHost
    <2> QED
      BY <1>5, <1>6, <1>7, <2>2, <2>3, <2>4, <2>5, MovedKeeps DEF Fits
  <1> QED
    BY <1>8, <1>9

\* The fields of a thread that is back in the program.
LEMMA AppKnown ==
    ASSUME NEW p, th[p] \in ThreadRecs, NEW t, t \in {App(p), Done(p)}
    PROVE  /\ t \in ThreadRecs /\ t.pc = "app" /\ t.call = NoCall /\ t.post = "null" /\ t.res = "none"
           /\ t.ptrs = th[p].ptrs /\ t.state = th[p].state /\ t.word = th[p].word /\ t.from = th[p].from
           /\ t.until = th[p].until /\ t.fake = th[p].fake /\ t.marked = th[p].marked /\ t.asleep = th[p].asleep /\ t.level = th[p].level
           /\ t.done = (IF t = Done(p) THEN th[p].call ELSE th[p].done)
  <1>1. PICK s : s = App(p)
    OBVIOUS
  <1>2. /\ s \in ThreadRecs /\ s.pc = "app" /\ s.call = NoCall /\ s.post = "null" /\ s.res = "none"
        /\ s.ptrs = th[p].ptrs /\ s.state = th[p].state /\ s.word = th[p].word /\ s.from = th[p].from
        /\ s.until = th[p].until /\ s.fake = th[p].fake /\ s.marked = th[p].marked /\ s.asleep = th[p].asleep /\ s.level = th[p].level
        /\ s.done = th[p].done
    BY <1>1, NoCallTimed DEF App, ThreadRecs
  <1>3. PICK d : d = Done(p)
    OBVIOUS
  <1>4. d = [s EXCEPT !.done = th[p].call] /\ th[p].call \in TimedCalls
    BY <1>1, <1>3 DEF Done, ThreadRecs
  <1>5. /\ d \in ThreadRecs /\ d.pc = "app" /\ d.call = NoCall /\ d.post = "null" /\ d.res = "none"
        /\ d.ptrs = th[p].ptrs /\ d.state = th[p].state /\ d.word = th[p].word /\ d.from = th[p].from
        /\ d.until = th[p].until /\ d.fake = th[p].fake /\ d.marked = th[p].marked /\ d.asleep = th[p].asleep /\ d.level = th[p].level
        /\ d.done = th[p].call
    BY <1>2, <1>4 DEF ThreadRecs
  <1> QED
    BY <1>1, <1>2, <1>3, <1>5

\* The exit of a call that is not a timed wait.
LEMMA ExitPlainStep ==
    ASSUME TimeInv, NEW p \in Procs, ExitPlain(p)
    PROVE  TimeInv' /\ ReadsGrow
  <1>1. /\ th[p] \in ThreadRecs /\ read[p] \in ReadRecs /\ sim.ff[p] \in BOOLEAN /\ Fits(th[p], p, read[p])
    BY ThreadKnown
  <1>2. PICK t : t = App(p)
    OBVIOUS
  <1>3. /\ t \in ThreadRecs /\ t.pc = "app" /\ t.call = NoCall /\ t.post = "null" /\ t.res = "none"
        /\ t.ptrs = th[p].ptrs /\ t.state = th[p].state /\ t.word = th[p].word /\ t.from = th[p].from
        /\ t.until = th[p].until /\ t.fake = th[p].fake /\ t.marked = th[p].marked
        /\ (t.done = th[p].done \/ t.done = th[p].call)
    BY <1>1, <1>2, AppKnown
  <1>4. th[p].pc = "exit" /\ th[p].post = "null" /\ Return(p, t, {}) /\ read' = read
    BY <1>2 DEF ExitPlain
  <1>5. /\ Control(th[p], sim.ff[p]) /\ Signalled(th[p]) /\ Asleep(th[p], sim.phase, Wall)
        /\ ReadBefore(th[p], sim.ff[p], read[p], HostNs, VirtWall)
    BY <1>1 DEF Fits
  <1>6. t.done = th[p].done
    BY <1>1, <1>2 DEF App, ThreadRecs
  <1>7. Control(t, sim.ff[p]) /\ Signalled(t)
    BY <1>3, <1>4, <1>5 DEF Control, Signalled
  <1>8. Asleep(t, sim.phase, Wall)
    BY <1>3, <1>4, <1>5, <1>6 DEF Asleep
  <1>9. sim.ff[p] => t.state # "SLEEPING"
    BY <1>3, <1>4, <1>5 DEF Signalled, TimeInv
  <1>10. \A c \in WallClocks : /\ read[p][c] <= read[p][c] /\ read[p][c] <= Told(c, HostNs)
                               /\ ~(sim.ff[p] /\ t.ptrs \in {"JOIN", "NOP"}) => read[p][c] <= Told(c, VirtWall)
    BY <1>1, <1>3, <1>4, <1>5 DEF ReadBefore, OnHost, Control, ReadRecs
  <1>11. read' = [q \in Procs |-> IF q = p THEN read[p] ELSE read[q]]
    BY <1>4 DEF TimeInv, TimeTypeOK
  <1> QED
    BY <1>1, <1>3, <1>4, <1>7, <1>8, <1>9, <1>10, <1>11, ReturnStep

\* VirtGettimeofday(), VirtTime(), VirtClockGettime(): the thread has not read
\* the host's time since the simulated one.
LEMMA ExitTimeStep ==
    ASSUME TimeInv, NEW p \in Procs, ExitTime(p)
    PROVE  TimeInv' /\ ReadsGrow
  <1>1. /\ th[p] \in ThreadRecs /\ read[p] \in ReadRecs /\ sim.ff[p] \in BOOLEAN /\ Fits(th[p], p, read[p])
    BY ThreadKnown
  <1>2. PICK t : t = App(p)
    OBVIOUS
  <1>3. /\ t \in ThreadRecs /\ t.pc = "app" /\ t.call = NoCall /\ t.post = "null" /\ t.res = "none"
        /\ t.ptrs = th[p].ptrs /\ t.state = th[p].state /\ t.word = th[p].word /\ t.from = th[p].from
        /\ t.until = th[p].until /\ t.fake = th[p].fake /\ t.marked = th[p].marked
    BY <1>1, <1>2, AppKnown
  <1>4. th[p].pc = "exit" /\ th[p].post = "time" /\ Return(p, t, {})
    BY <1>2 DEF ExitTime
  <1>5. /\ Control(th[p], sim.ff[p]) /\ Signalled(th[p]) /\ Asleep(th[p], sim.phase, Wall)
        /\ ReadBefore(th[p], sim.ff[p], read[p], HostNs, VirtWall)
    BY <1>1 DEF Fits
  <1>6. t.done = th[p].done
    BY <1>1, <1>2 DEF App, ThreadRecs
  <1>7. Control(t, sim.ff[p]) /\ Signalled(t)
    BY <1>3, <1>4, <1>5 DEF Control, Signalled
  <1>8. Asleep(t, sim.phase, Wall) /\ (sim.ff[p] => t.state # "SLEEPING")
    BY <1>3, <1>4, <1>5, <1>6 DEF Asleep, Signalled, TimeInv
  <1>9. PICK k \in Clocks : k = th[p].call.kind
    BY <1>4, <1>5 DEF Control
  <1>10. PICK r : r = [read[p] EXCEPT ![k] = Told(k, VirtNs(k))]
    OBVIOUS
  <1>11. \A c \in WallClocks : read[p][c] <= Told(c, VirtWall)
    BY <1>4, <1>5 DEF ReadBefore, OnHost, Control
  <1>12. r \in ReadRecs /\ \A c \in WallClocks : read[p][c] <= r[c] /\ r[c] <= Told(c, VirtWall)
    <2>1. PICK v \in Int : v = Told(k, VirtNs(k)) /\ (k \in WallClocks => v = Told(k, VirtWall))
      BY ClocksShow
    <2> QED
      BY <1>1, <1>10, <1>11, <2>1, Times, ReadRaised
  <1>13. read' = [q \in Procs |-> IF q = p THEN r ELSE read[q]]
    BY <1>9, <1>10 DEF ExitTime, TimeInv, TimeTypeOK
  <1>14. ASSUME NEW c \in WallClocks PROVE r[c] <= Told(c, HostNs)
    <2>1. Told(c, VirtWall) \in Nat /\ Told(c, HostNs) \in Nat /\ Told(c, VirtWall) <= Told(c, HostNs)
      BY Times, ToldMonotone
    <2> QED
      BY <1>12, <2>1 DEF ReadRecs
  <1> QED
    BY <1>3, <1>4, <1>7, <1>8, <1>12, <1>13, <1>14, ReturnStep

\* The post-patch of PatchNanosleep(): the sleep is over, or was interrupted.
LEMMA ExitSleepStep ==
    ASSUME TimeInv, NEW p \in Procs, ExitSleep(p)
    PROVE  TimeInv' /\ ReadsGrow
  <1>1. /\ th[p] \in ThreadRecs /\ read[p] \in ReadRecs /\ sim.ff[p] \in BOOLEAN /\ Fits(th[p], p, read[p])
    BY ThreadKnown
  <1>2. PICK t : t = IF th[p].res = "ok" THEN Done(p) ELSE App(p)
    OBVIOUS
  <1>3. /\ t \in ThreadRecs /\ t.pc = "app" /\ t.call = NoCall /\ t.post = "null" /\ t.res = "none"
        /\ t.ptrs = th[p].ptrs /\ t.state = th[p].state /\ t.word = th[p].word /\ t.from = th[p].from
        /\ t.until = th[p].until /\ t.fake = th[p].fake /\ t.marked = th[p].marked
        /\ t.done = (IF t = Done(p) THEN th[p].call ELSE th[p].done)
    BY <1>1, <1>2, AppKnown
  <1>4. PICK broken : broken = Broken("wakeupPhase", (prog.rem /\ th[p].res = "EINTR") => th[p].until >= sim.phase)
    OBVIOUS
  <1>5. th[p].pc = "exit" /\ th[p].post = "sleep" /\ Return(p, t, broken) /\ read' = read
    BY <1>2, <1>4 DEF ExitSleep
  <1>6. /\ Control(th[p], sim.ff[p]) /\ Signalled(th[p]) /\ Asleep(th[p], sim.phase, Wall)
        /\ ReadBefore(th[p], sim.ff[p], read[p], HostNs, VirtWall)
    BY <1>1 DEF Fits
  <1>7. th[p].ptrs = "JOIN" /\ th[p].fake = FALSE
    BY <1>5, <1>6 DEF Control
  <1>8. th[p].res = "EINTR" => ~prog.rem /\ ~sim.ff[p] /\ prog.toggles = 0
    <2>1. th[p].res = "EINTR" => prog.signals /\ \E call \in prog.args : call.kind \in Sleeps
      BY <1>5, <1>6 DEF Signalled, Control
    <2>2. th[p].res = "EINTR" => prog.toggles = 0 /\ ~prog.rem
      BY <2>1, TimeAssumption DEF TimeInv, TimeTypeOK
    <2> QED
      BY <2>2 DEF TimeInv
  <1>9. broken = {}
    BY <1>4, <1>8 DEF Broken
  <1>10. t.done.kind # "none" => t.until <= sim.phase /\ LongEnough(t.done, t.from, t.until, Wall)
    <2>1. CASE th[p].res = "ok"
      <3>1. th[p].state = "BLOCKED" /\ th[p].until <= sim.phase /\ LongEnough(th[p].call, th[p].from, th[p].until, Wall)
        BY <1>5, <1>6, <2>1 DEF Asleep
      <3>2. t.done = th[p].call
        BY <1>2, <1>3, <2>1
      <3> QED
        BY <1>3, <3>1, <3>2
    <2>2. CASE th[p].res # "ok"
      <3>1. t.done = th[p].done
        BY <1>1, <1>2, <2>2 DEF App, ThreadRecs
      <3> QED
        BY <1>3, <1>6, <3>1 DEF Asleep
    <2> QED
      BY <2>1, <2>2
  <1>11. Control(t, sim.ff[p]) /\ Signalled(t)
    <2>1. t.state # "NONE"
      BY <1>3, <1>6, <1>7 DEF Control
    <2>2. t.state = "SLEEPING" => prog.toggles = 0
      BY <1>3, <1>5, <1>6, <1>8 DEF Signalled, Asleep
    <2>3. t.marked = FALSE
      BY <1>3, <1>5, <1>6 DEF Control
    <2> QED
      BY <1>3, <1>7, <2>1, <2>2, <2>3 DEF Control, Signalled
  <1>12. Asleep(t, sim.phase, Wall)
    BY <1>3, <1>6, <1>10 DEF Asleep
  <1>13. sim.ff[p] => t.state # "SLEEPING"
    <2>1. th[p].res = "ok" => th[p].state # "SLEEPING"
      BY <1>5, <1>6 DEF Asleep
    <2> QED
      BY <1>3, <1>5, <1>6, <1>8, <2>1 DEF Signalled
  <1>14. \A c \in WallClocks : /\ read[p][c] <= read[p][c] /\ read[p][c] <= Told(c, HostNs)
                               /\ read[p][c] <= Told(c, VirtWall)
    BY <1>1, <1>5, <1>6, <1>7 DEF ReadBefore, OnHost, ReadRecs
  <1>15. read' = [q \in Procs |-> IF q = p THEN read[p] ELSE read[q]]
    BY <1>5 DEF TimeInv, TimeTypeOK
  <1> QED
    BY <1>1, <1>3, <1>5, <1>9, <1>11, <1>12, <1>13, <1>14, <1>15, ReturnStep

\* The exit of a timed wait.
LEMMA ExitTimeoutStep ==
    ASSUME TimeInv, NEW p \in Procs, ExitTimeout(p)
    PROVE  TimeInv' /\ ReadsGrow
  <1>1. /\ th[p] \in ThreadRecs /\ read[p] \in ReadRecs /\ Fits(th[p], p, read[p])
    BY ThreadKnown
  <1>2. PICK b \in BOOLEAN : b = (th[p].state = "SLEEPING")
    OBVIOUS
  <1>3. PICK t : t = [th[p] EXCEPT !.pc = "decide", !.asleep = b]
    OBVIOUS
  <1>4. /\ t \in ThreadRecs /\ t.pc = "decide" /\ t.asleep = b /\ t.ptrs = th[p].ptrs /\ t.state = th[p].state
        /\ t.word = th[p].word /\ t.from = th[p].from /\ t.until = th[p].until /\ t.fake = th[p].fake
        /\ t.call = th[p].call /\ t.post = th[p].post /\ t.done = th[p].done /\ t.marked = th[p].marked
    BY <1>1, <1>3 DEF ThreadRecs
  <1>5. th' = [q \in Procs |-> IF q = p THEN t ELSE th[q]]
    BY <1>2, <1>3 DEF ExitTimeout, TimeInv, TimeTypeOK
  <1>6. /\ th[p].pc = "exit" /\ th[p].post = "timeout"
        /\ Control(th[p], sim.ff[p]) /\ Asleep(th[p], sim.phase, Wall)
        /\ ReadBefore(th[p], sim.ff[p], read[p], HostNs, VirtWall)
    BY <1>1 DEF ExitTimeout, Fits
  <1>7. th[p].fake = TRUE
    BY <1>6 DEF Control
  <1>8. Moved(p, t, read[p]) /\ failed' = {}
    BY <1>5, <1>7, MovedOnly DEF ExitTimeout, Fail, Broken, TimeInv
  <1>9. Control(t, sim.ff[p])
    BY <1>4, <1>6 DEF Control
  <1>10. Signalled(t)
    BY <1>4, <1>6 DEF Signalled
  <1>11. Asleep(t, sim.phase, Wall)
    BY <1>2, <1>4, <1>6 DEF Asleep
  <1>12. ReadBefore(t, sim.ff[p], read[p], HostNs, VirtWall)
    BY <1>4, <1>6 DEF ReadBefore, OnHost
  <1> QED
    BY <1>1, <1>4, <1>8, <1>9, <1>10, <1>11, <1>12, MovedKeeps DEF Fits

\* Back to the system call, or on in the program, awake.
LEMMA EndTimeoutStep ==
    ASSUME TimeInv, NEW p \in Procs, EndTimeout(p)
    PROVE  TimeInv' /\ ReadsGrow
  <1>1. /\ th[p] \in ThreadRecs /\ read[p] \in ReadRecs /\ sim.ff[p] \in BOOLEAN /\ Fits(th[p], p, read[p])
    BY ThreadKnown
  <1>2. /\ th[p].pc = "decide" /\ Control(th[p], sim.ff[p]) /\ Asleep(th[p], sim.phase, Wall)
        /\ ReadBefore(th[p], sim.ff[p], read[p], HostNs, VirtWall)
    BY <1>1 DEF EndTimeout, Fits
  <1>3. th[p].post = "timeout" /\ th[p].ptrs \in {"JOIN", "RETRY"} /\ th[p].fake = TRUE /\ th[p].marked = FALSE
    BY <1>2 DEF Control
  <1>4. \A c \in WallClocks : /\ read[p][c] <= read[p][c] /\ read[p][c] <= Told(c, HostNs)
                              /\ read[p][c] <= Told(c, VirtWall)
    BY <1>1, <1>2, <1>3 DEF ReadBefore, OnHost, ReadRecs
  <1>5. read' = [q \in Procs |-> IF q = p THEN read[p] ELSE read[q]]
    BY DEF EndTimeout, TimeInv, TimeTypeOK
  <1>6. /\ th[p].state \in {"SLEEPING", "BLOCKED"} /\ (th[p].state = "BLOCKED" => th[p].until <= sim.phase)
        /\ LongEnough(th[p].call, th[p].from, th[p].until, Wall)
        /\ ~th[p].asleep => th[p].state = "BLOCKED"
        /\ th[p].done.kind # "none" => th[p].until <= sim.phase /\ LongEnough(th[p].done, th[p].from, th[p].until, Wall)
        /\ th[p].state = "SLEEPING" => th[p].word = 1 /\ sim.phase < th[p].until
    BY <1>2, <1>3 DEF Asleep
  <1>7. CASE Retries(p) /\ ~sim.ff[p] /\ Return(p, [th[p] EXCEPT !.pc = "app", !.ptrs = "RETRY"], {})
    <2>1. PICK t : t = [th[p] EXCEPT !.pc = "app", !.ptrs = "RETRY"]
      OBVIOUS
    <2>2. /\ t \in ThreadRecs /\ t.pc = "app" /\ t.ptrs = "RETRY" /\ t.state = th[p].state
          /\ t.word = th[p].word /\ t.from = th[p].from /\ t.until = th[p].until /\ t.fake = th[p].fake
          /\ t.call = th[p].call /\ t.post = th[p].post /\ t.done = th[p].done /\ t.marked = th[p].marked
      BY <1>1, <2>1 DEF ThreadRecs
    <2>3. Control(t, sim.ff[p]) /\ Signalled(t)
      BY <1>2, <1>3, <2>2 DEF Control, Signalled
    <2>4. Asleep(t, sim.phase, Wall)
      BY <1>3, <1>6, <2>2 DEF Asleep
    <2>5. Return(p, t, {})
      BY <1>7, <2>1
    <2> QED
      BY <1>1, <1>4, <1>5, <2>2, <2>3, <2>4, <2>5, ReturnStep
  <1>8. ASSUME NEW s \in ThreadRecs, NEW t, t = Finished(s), NEW broken, broken = {}, Return(p, t, broken),
               s.pc = "app", s.post = "null", s.state = "BLOCKED", s.marked = FALSE,
               s.done.kind # "none" => s.until <= sim.phase /\ LongEnough(s.done, s.from, s.until, Wall)
        PROVE  TimeInv' /\ ReadsGrow
    <2>1. /\ t \in ThreadRecs /\ t.pc = "app" /\ t.ptrs = "JOIN" /\ t.state = "BLOCKED" /\ t.post = "null"
          /\ t.from = s.from /\ t.until = s.until /\ t.fake = FALSE /\ t.done = s.done /\ t.marked = FALSE
      BY <1>8 DEF ThreadRecs, Finished
    <2>2. Control(t, sim.ff[p]) /\ Signalled(t)
      BY <2>1 DEF Control, Signalled
    <2>3. Asleep(t, sim.phase, Wall)
      BY <1>8, <2>1 DEF Asleep
    <2> QED
      BY <1>1, <1>4, <1>5, <1>8, <2>1, <2>2, <2>3, ReturnStep
  <1>9. CASE /\ th[p].asleep
             /\ Return(p, Finished(notifySleepEnd(App(p))), Broken("notifySleepEnd", th[p].state \in {"SLEEPING", "BLOCKED"} /\ ~th[p].marked))
    <2>1. PICK a : a = App(p)
      OBVIOUS
    <2>2. a \in ThreadRecs /\ a.pc = "app" /\ a.post = "null" /\ a.from = th[p].from /\ a.until = th[p].until /\ a.done = th[p].done
          /\ a.marked = FALSE
      BY <1>1, <1>3, <2>1, NoCallTimed DEF App, ThreadRecs
    <2>3. PICK s : s = notifySleepEnd(a)
      OBVIOUS
    <2>4. /\ s \in ThreadRecs /\ s.pc = "app" /\ s.post = "null" /\ s.state = "BLOCKED"
          /\ s.from = th[p].from /\ s.until = th[p].until /\ s.done = th[p].done /\ s.marked = FALSE
      BY <2>2, <2>3 DEF notifySleepEnd, ThreadRecs
    <2>5. Broken("notifySleepEnd", th[p].state \in {"SLEEPING", "BLOCKED"} /\ ~th[p].marked) = {}
      BY <1>3, <1>6 DEF Broken
    <2>6. Return(p, Finished(s), {})
      BY <1>9, <2>1, <2>3, <2>5
    <2> QED
      BY <1>6, <1>8, <2>4, <2>6
  <1>10. CASE ~th[p].asleep /\ Return(p, Finished(IF th[p].res = "timeout" THEN Done(p) ELSE App(p)), {})
    <2>1. PICK s : s = IF th[p].res = "timeout" THEN Done(p) ELSE App(p)
      OBVIOUS
    <2>2. /\ s \in ThreadRecs /\ s.pc = "app" /\ s.post = "null" /\ s.state = th[p].state
          /\ s.from = th[p].from /\ s.until = th[p].until /\ s.marked = FALSE
          /\ s.done = (IF s = Done(p) THEN th[p].call ELSE th[p].done)
      BY <1>1, <1>3, <2>1, AppKnown
    <2>3. Return(p, Finished(s), {})
      BY <1>10, <2>1
    <2>4. s.state = "BLOCKED" /\ (s.done.kind # "none" => s.until <= sim.phase /\ LongEnough(s.done, s.from, s.until, Wall))
      BY <1>6, <1>10, <2>2
    <2> QED
      BY <1>8, <2>2, <2>3, <2>4
  <1> QED
    BY <1>7, <1>9, <1>10 DEF EndTimeout

\* The host's time is kept as the vDSO reads it.
LEMMA VdsoEntryStep ==
    ASSUME TimeInv, NEW p \in Procs, NEW c \in prog.vdso, VdsoEntryPoint(p, c)
    PROVE  TimeInv' /\ ReadsGrow
  <1>1. /\ th[p] \in ThreadRecs /\ read[p] \in ReadRecs /\ sim.ff[p] \in BOOLEAN /\ Fits(th[p], p, read[p])
        /\ sim \in SimRecs
    BY ThreadKnown
  <1>2. c \in Clocks /\ HostNs \in Nat /\ HostTime(p, c) \in Nat /\ (c \in WallClocks => HostTime(p, c) = HostNs)
    <2>1. c \in Clocks
      BY TimeAssumption DEF TimeInv, TimeTypeOK
    <2> QED
      BY <2>1, Times, ClocksShow
  <1>3. PICK call : call = [kind |-> c, ns |-> HostTime(p, c)]
    OBVIOUS
  <1>4. call \in TimedCalls /\ call.kind = c /\ call.ns = HostTime(p, c)
    BY <1>2, <1>3 DEF TimedCalls
  <1>5. PICK t : t = [th[p] EXCEPT !.pc = "vdso", !.level = 1, !.call = call]
    OBVIOUS
  <1>6. /\ t \in ThreadRecs /\ t.pc = "vdso" /\ t.call = call /\ t.post = th[p].post /\ t.done = th[p].done
        /\ t.ptrs = th[p].ptrs /\ t.from = th[p].from /\ t.until = th[p].until
        /\ t.state = th[p].state /\ t.fake = th[p].fake /\ t.marked = th[p].marked
    BY <1>1, <1>4, <1>5 DEF ThreadRecs
  <1>7. Moved(p, t, read[p]) /\ failed' = {}
    <2>1. th' = [q \in Procs |-> IF q = p THEN t ELSE th[q]]
      BY <1>1, <1>3, <1>5 DEF VdsoEntryPoint, TimeInv, TimeTypeOK
    <2>2. /\ sim'.phase = sim.phase /\ sim'.lead = sim.lead /\ sim'.offset = sim.offset /\ sim'.cpu = sim.cpu /\ sim'.ff = sim.ff
          /\ sim' \in SimRecs
      <3>1. PICK n \in Nat : n = sim.calls + 1
        BY <1>1
      <3>2. sim' = [sim EXCEPT !.calls = n]
        BY <3>1 DEF VdsoEntryPoint
      <3> QED
        BY <1>1, <3>2
    <2>3. read' = [q \in Procs |-> IF q = p THEN read[p] ELSE read[q]] /\ failed' = {} /\ prog' = prog
      BY DEF VdsoEntryPoint, TimeInv, TimeTypeOK
    <2> QED
      BY <2>1, <2>2, <2>3 DEF Moved
  <1>8. /\ th[p].pc = "app" /\ th[p].ptrs \in {"CORE", "NOP"} /\ (th[p].ptrs = "NOP" => sim.ff[p]) /\ th[p].post = "null"
        /\ Control(th[p], sim.ff[p]) /\ Asleep(th[p], sim.phase, Wall)
        /\ ReadBefore(th[p], sim.ff[p], read[p], HostNs, VirtWall)
    BY <1>1 DEF AtInstruction, VdsoEntryPoint, Fits, Control
  <1>9. Control(t, sim.ff[p]) /\ Signalled(t)
    BY <1>2, <1>4, <1>6, <1>8 DEF Control, Signalled
  <1>10. Asleep(t, sim.phase, Wall)
    BY <1>6, <1>8 DEF Asleep
  <1>11. ReadBefore(t, sim.ff[p], read[p], HostNs, VirtWall)
    BY <1>2, <1>4, <1>6, <1>8 DEF ReadBefore, OnHost
  <1> QED
    BY <1>1, <1>6, <1>7, <1>9, <1>10, <1>11, MovedKeeps DEF Fits

\* A call or a return within the vDSO.
LEMMA VdsoLevelStep ==
    ASSUME TimeInv, NEW p \in Procs, th[p].pc = "vdso", NEW n \in Nat,
           th' = [th EXCEPT ![p].level = n], UNCHANGED <<prog, sim, read, failed>>
    PROVE  TimeInv' /\ ReadsGrow
  <1>1. /\ th[p] \in ThreadRecs /\ read[p] \in ReadRecs /\ Fits(th[p], p, read[p])
    BY ThreadKnown
  <1>2. PICK t : t = [th[p] EXCEPT !.level = n]
    OBVIOUS
  <1>3. /\ t \in ThreadRecs /\ t.pc = th[p].pc /\ t.call = th[p].call /\ t.post = th[p].post /\ t.done = th[p].done
        /\ t.ptrs = th[p].ptrs /\ t.from = th[p].from /\ t.until = th[p].until /\ t.word = th[p].word
        /\ t.state = th[p].state /\ t.fake = th[p].fake /\ t.marked = th[p].marked
        /\ t.res = th[p].res /\ t.asleep = th[p].asleep
    BY <1>1, <1>2 DEF ThreadRecs
  <1>4. th' = [q \in Procs |-> IF q = p THEN t ELSE th[q]]
    BY <1>2 DEF TimeInv, TimeTypeOK
  <1>5. Moved(p, t, read[p]) /\ failed' = {}
    BY <1>4, MovedOnly DEF TimeInv
  <1>6. Control(t, sim.ff[p])
    BY <1>1, <1>3 DEF Fits, Control
  <1>7. Signalled(t)
    BY <1>1, <1>3 DEF Fits, Signalled
  <1>8. Asleep(t, sim.phase, Wall)
    BY <1>1, <1>3 DEF Fits, Asleep
  <1>9. ReadBefore(t, sim.ff[p], read[p], HostNs, VirtWall)
    BY <1>1, <1>3 DEF Fits, ReadBefore, OnHost
  <1> QED
    BY <1>1, <1>3, <1>5, <1>6, <1>7, <1>8, <1>9, MovedKeeps DEF Fits

\* The outermost return: a fast-forwarded thread keeps the host's time that was
\* read, and every other one is told the simulated time.
LEMMA VdsoRetStep ==
    ASSUME TimeInv, NEW p \in Procs, VdsoRetPoint(p)
    PROVE  TimeInv' /\ ReadsGrow
  <1>1. /\ th[p] \in ThreadRecs /\ read[p] \in ReadRecs /\ sim.ff[p] \in BOOLEAN /\ Fits(th[p], p, read[p])
    BY ThreadKnown
  <1>2. /\ th[p].pc = "vdso" /\ Control(th[p], sim.ff[p]) /\ Asleep(th[p], sim.phase, Wall)
        /\ ReadBefore(th[p], sim.ff[p], read[p], HostNs, VirtWall)
        /\ UNCHANGED <<prog, sim, failed>> /\ failed = {}
    BY <1>1 DEF VdsoRetPoint, Fits, TimeInv
  <1>3. CASE th[p].level > 1 /\ th' = [th EXCEPT ![p].level = @ - 1] /\ read' = read
    <2>1. PICK n \in Nat : n = th[p].level - 1
      BY <1>1, <1>3 DEF ThreadRecs
    <2>2. th' = [th EXCEPT ![p].level = n]
      BY <1>3, <2>1
    <2> QED
      BY <1>2, <1>3, <2>2, VdsoLevelStep
  <1>4. CASE ~(th[p].level > 1 /\ th' = [th EXCEPT ![p].level = @ - 1] /\ read' = read)
    <2>1. PICK k \in Clocks : k = th[p].call.kind
      BY <1>2 DEF Control
    <2>2. PICK v \in Int : v = Told(k, IF th[p].ptrs = "NOP" THEN th[p].call.ns ELSE VirtNs(k))
      <3>1. th[p].call.ns \in Nat /\ VirtNs(k) \in Int
        BY <1>1, ClocksShow DEF ThreadRecs, TimedCalls
      <3>2. Resolution(k) \in Nat \ {0}
        BY DEF Resolution, Clocks, ClockIds
      <3> QED
        BY <3>1, <3>2 DEF Told
    <2>3. PICK a : a = App(p)
      OBVIOUS
    <2>4. PICK t : t = [a EXCEPT !.level = 0]
      OBVIOUS
    <2>5. th' = [q \in Procs |-> IF q = p THEN t ELSE th[q]]
      BY <1>4, <2>3, <2>4 DEF VdsoRetPoint, TimeInv, TimeTypeOK
    <2>6. PICK r : r = [read[p] EXCEPT ![k] = v]
      OBVIOUS
    <2>7. read' = [q \in Procs |-> IF q = p THEN r ELSE read[q]]
      BY <1>4, <2>1, <2>2, <2>6 DEF VdsoRetPoint, TimeInv, TimeTypeOK
    <2>8. /\ a \in ThreadRecs /\ a.pc = "app" /\ a.post = "null" /\ a.ptrs = th[p].ptrs /\ a.state = th[p].state
          /\ a.from = th[p].from /\ a.until = th[p].until /\ a.fake = th[p].fake /\ a.done = th[p].done /\ a.word = th[p].word
          /\ a.marked = th[p].marked
      BY <1>1, <2>3, NoCallTimed DEF App, ThreadRecs
    <2>9. /\ t \in ThreadRecs /\ t.pc = "app" /\ t.post = "null" /\ t.ptrs = th[p].ptrs /\ t.state = th[p].state
          /\ t.from = th[p].from /\ t.until = th[p].until /\ t.fake = th[p].fake /\ t.done = th[p].done /\ t.word = th[p].word
          /\ t.marked = th[p].marked
      BY <2>4, <2>8 DEF ThreadRecs
    <2>10. Moved(p, t, r) /\ failed' = {}
      BY <1>2, <2>5, <2>7 DEF Moved, TimeInv, TimeTypeOK
    <2>11. th[p].post = "null" /\ th[p].ptrs \in {"CORE", "NOP"} /\ (th[p].ptrs = "NOP" => sim.ff[p])
      BY <1>2 DEF Control
    <2>12. PICK n \in Nat : /\ n <= HostNs /\ (th[p].ptrs # "NOP" => n = VirtWall)
                            /\ k \in WallClocks => v = Told(k, n)
                            /\ \A c \in WallClocks : read[p][c] <= Told(c, n)
      <3>1. CASE th[p].ptrs = "NOP" /\ k \in WallClocks
        <4>1. th[p].call.ns \in Nat
          BY <1>1 DEF ThreadRecs, TimedCalls
        <4>2. "realtime" \in WallClocks
          BY DEF WallClocks, Clocks, ClockIds
        <4>3. th[p].call.ns <= HostNs /\ \A c \in WallClocks : read[p][c] <= Told(c, th[p].call.ns)
          BY <1>2, <2>1, <3>1, <4>2 DEF ReadBefore
        <4> QED
          BY <2>2, <3>1, <4>1, <4>3
      <3>2. CASE th[p].ptrs = "NOP" /\ k \notin WallClocks
        <4>1. HostNs \in Nat /\ \A c \in WallClocks : read[p][c] <= Told(c, HostNs)
          BY <1>2, Times DEF ReadBefore
        <4> QED
          BY <3>2, <4>1
      <3>3. CASE th[p].ptrs # "NOP"
        <4>1. ~OnHost(th[p], sim.ff[p])
          BY <1>2, <3>3 DEF OnHost
        <4>2. \A c \in WallClocks : read[p][c] <= Told(c, VirtWall)
          BY <1>2, <4>1 DEF ReadBefore
        <4>3. k \in WallClocks => v = Told(k, VirtWall)
          BY <2>2, <3>3, ClocksShow
        <4> QED
          BY <4>2, <4>3, Times
      <3> QED
        BY <3>1, <3>2, <3>3
    <2>13. r \in ReadRecs /\ \A c \in WallClocks : read[p][c] <= r[c] /\ r[c] <= Told(c, n)
      BY <1>1, <2>6, <2>12, ReadRaised
    <2>14. ASSUME NEW c \in WallClocks
           PROVE  r[c] >= read[p][c] /\ r[c] <= Told(c, HostNs) /\ (~OnHost(t, sim.ff[p]) => r[c] <= Told(c, VirtWall))
      <3>1. Told(c, n) \in Nat /\ Told(c, HostNs) \in Nat /\ Told(c, n) <= Told(c, HostNs)
        BY <2>12, Times, ToldMonotone
      <3>2. ~OnHost(t, sim.ff[p]) => n = VirtWall
        BY <2>9, <2>11, <2>12 DEF OnHost
      <3>3. r[c] \in Nat /\ read[p][c] \in Nat
        BY <1>1, <2>13 DEF ReadRecs
      <3> QED
        BY <2>13, <3>1, <3>2, <3>3
    <2>15. ReadBefore(t, sim.ff[p], r, HostNs, VirtWall)
      BY <2>9, <2>14 DEF ReadBefore
    <2>16. Control(t, sim.ff[p]) /\ Signalled(t)
      BY <1>2, <2>9, <2>11 DEF Control, Signalled
    <2>17. Asleep(t, sim.phase, Wall)
      BY <1>2, <2>9, <2>11 DEF Asleep
    <2> QED
      BY <2>9, <2>10, <2>13, <2>14, <2>15, <2>16, <2>17, MovedKeeps DEF Fits
  <1> QED
    BY <1>3, <1>4

\* join() after a call.
LEMMA JoinStep ==
    ASSUME TimeInv, NEW p \in Procs, Join(p)
    PROVE  TimeInv' /\ ReadsGrow
  <1>1. /\ th[p] \in ThreadRecs /\ read[p] \in ReadRecs /\ Fits(th[p], p, read[p])
    BY ThreadKnown
  <1>2. PICK t : t = NewThread
    OBVIOUS
  <1>3. /\ t \in ThreadRecs /\ t.pc = "app" /\ t.post = "null" /\ t.done = NoCall /\ t.ptrs = "CORE"
        /\ t.state = "RUNNING" /\ t.fake = FALSE /\ t.marked = FALSE
    BY <1>2, NoCallTimed DEF NewThread, ThreadRecs
  <1>4. Moved(p, t, read[p]) /\ failed' = {}
    <2>1. th[p].marked = FALSE /\ th[p].state \in {"RUNNING", "SLEEPING", "BLOCKED"}
      BY <1>1 DEF Join, Fits, Control, ThreadRecs
    <2>2. t = [t EXCEPT !.marked = FALSE]
      BY <1>3 DEF ThreadRecs
    <2>3. th' = [q \in Procs |-> IF q = p THEN t ELSE th[q]]
      BY <1>2, <2>1, <2>2 DEF Join, TimeInv, TimeTypeOK
    <2>4. failed' = {}
      BY <2>1 DEF Join, JoinAssert, Fail, Broken, TimeInv
    <2> QED
      BY <2>3, <2>4, MovedOnly DEF Join
  <1>5. ReadBefore(t, sim.ff[p], read[p], HostNs, VirtWall)
    BY <1>1, <1>3 DEF Fits, ReadBefore, OnHost, Join
  <1>6. Control(t, sim.ff[p]) /\ Signalled(t)
    BY <1>3 DEF Control, Signalled
  <1>7. Asleep(t, sim.phase, Wall)
    <2>1. t.done.kind = "none"
      BY <1>3 DEF NoCall
    <2> QED
      BY <1>3, <2>1 DEF Asleep
  <1> QED
    BY <1>1, <1>3, <1>4, <1>5, <1>6, <1>7, MovedKeeps DEF Fits

\* TakeBarrier() and FFBasicBlock(): the thread is in the program or the vDSO,
\* and in the program only when it is back.
LEMMA FastForwardThreadStep ==
    ASSUME TimeInv, NEW p \in Procs, EnterFF(p) \/ LeaveFF(p)
    PROVE  TimeInv' /\ ReadsGrow
  <1>1. /\ th[p] \in ThreadRecs /\ read[p] \in ReadRecs /\ sim.ff[p] \in BOOLEAN /\ Fits(th[p], p, read[p])
    BY ThreadKnown
  <1>2. PICK e \in BOOLEAN : e = sim.ff[p]
    BY <1>1
  <1>3. PICK t : t = [th[p] EXCEPT !.ptrs = IF e THEN "NOP" ELSE "CORE", !.state = IF e THEN "NONE" ELSE "RUNNING",
                                   !.marked = FALSE]
    OBVIOUS
  <1>4. /\ t \in ThreadRecs /\ t.pc = th[p].pc /\ t.call = th[p].call /\ t.post = th[p].post /\ t.done = th[p].done
        /\ t.ptrs = (IF e THEN "NOP" ELSE "CORE") /\ t.from = th[p].from /\ t.until = th[p].until
        /\ t.state = (IF e THEN "NONE" ELSE "RUNNING") /\ t.fake = th[p].fake /\ t.marked = FALSE
    BY <1>1, <1>3 DEF ThreadRecs
  <1>5. th' = [q \in Procs |-> IF q = p THEN t ELSE th[q]]
    <2>1. CASE EnterFF(p)
      BY <1>2, <1>3, <2>1 DEF EnterFF, TimeInv, TimeTypeOK
    <2>2. CASE LeaveFF(p)
      <3>1. th[p].marked = FALSE /\ ~e
        BY <1>1, <1>2, <2>2 DEF LeaveFF, Fits, Control
      <3>2. [th[p] EXCEPT !.ptrs = "CORE", !.state = "RUNNING"] = t
        BY <1>1, <1>3, <3>1 DEF ThreadRecs
      <3> QED
        BY <2>2, <3>2 DEF LeaveFF, TimeInv, TimeTypeOK
    <2> QED
      BY <2>1, <2>2
  <1>6. Moved(p, t, read[p]) /\ failed' = {}
    BY <1>5, MovedOnly DEF EnterFF, LeaveFF, TimeInv
  <1>7. /\ Control(th[p], e) /\ Asleep(th[p], sim.phase, Wall)
        /\ ReadBefore(th[p], e, read[p], HostNs, VirtWall)
    BY <1>1, <1>2 DEF Fits
  <1>8. th[p].ptrs \in {"CORE", "NOP"} /\ th[p].pc \in {"app", "vdso"} /\ th[p].post = "null" /\ (~e => th[p].pc = "app")
    BY <1>1, <1>2, <1>7 DEF EnterFF, LeaveFF, Control, ThreadRecs
  <1>9. Control(t, sim.ff[p]) /\ Signalled(t)
    BY <1>2, <1>4, <1>7, <1>8 DEF Control, Signalled
  <1>10. Asleep(t, sim.phase, Wall)
    BY <1>4, <1>7, <1>8 DEF Asleep
  <1>11. ReadBefore(t, sim.ff[p], read[p], HostNs, VirtWall)
    BY <1>2, <1>4, <1>7, <1>8 DEF ReadBefore, OnHost
  <1> QED
    BY <1>1, <1>4, <1>6, <1>9, <1>10, <1>11, MovedKeeps DEF Fits

-----------------------------------------------------------------------------

\* A step of the simulation, which reads no clock.
LEMMA SimKeeps ==
    ASSUME TimeInv, prog' = prog, read' = read, failed' = {}, th' \in [Procs -> ThreadRecs],
           sim' \in SimRecs,
           WallOK',
           \A p \in Procs : /\ prog.toggles = 0 => ~sim'.ff[p]
                            /\ Control(th'[p], sim'.ff[p])
                            /\ Signalled(th'[p])
                            /\ Asleep(th'[p], sim'.phase, Wall')
                            /\ ReadBefore(th'[p], sim'.ff[p], read[p], HostNs', VirtWall')
    PROVE  TimeInv' /\ ReadsGrow
  <1>1. TimeTypeOK'
    BY DEF TimeInv, TimeTypeOK
  <1>2. \A p \in Procs : Signalled(th[p])'
    BY DEF Signalled
  <1>3. ReadsGrow
    BY DEF ReadsGrow, TimeInv, TimeTypeOK, ReadRecs
  <1> QED
    BY <1>1, <1>2, <1>3 DEF TimeInv

\* A process enters fast-forward.
LEMMA EnterFastForwardStep ==
    ASSUME TimeInv, NEW p \in Procs, EnterFastForward(p)
    PROVE  TimeInv' /\ ReadsGrow
  <1>1. /\ sim \in SimRecs
        /\ failed = {} /\ WallOK
    BY DEF TimeInv, TimeTypeOK
  <1>2. prog.toggles # 0 /\ UNCHANGED <<prog, th, read, failed>> /\ th' \in [Procs -> ThreadRecs]
    BY <1>1 DEF EnterFastForward, TimeInv, TimeTypeOK
  <1>3. PICK n \in Nat : n = sim.toggles + 1
    BY <1>1
  <1>4. sim' = [sim EXCEPT !.ff[p] = TRUE, !.toggles = n]
    BY <1>3 DEF EnterFastForward
  <1>5. /\ sim' \in SimRecs
        /\ sim'.phase = sim.phase /\ sim'.lead = sim.lead /\ sim'.offset = sim.offset
        /\ sim'.ff[p] = TRUE /\ \A q \in Procs : q # p => sim'.ff[q] = sim.ff[q]
    BY <1>1, <1>4
  <1>6. HostNs' = HostNs /\ VirtWall' = VirtWall
    BY <1>5 DEF HostNs, VirtWall, SimNs
  <1>7. ASSUME NEW q \in Procs
        PROVE  /\ Control(th'[q], sim'.ff[q]) /\ Signalled(th'[q])
               /\ Asleep(th'[q], sim'.phase, Wall')
               /\ ReadBefore(th'[q], sim'.ff[q], read[q], HostNs', VirtWall')
    <2>1. Fits(th[q], q, read[q]) /\ th'[q] = th[q] /\ (sim.ff[q] => sim'.ff[q])
      BY <1>2, <1>5, ThreadKnown
    <2>2. Control(th[q], sim'.ff[q])
      BY <2>1 DEF Fits, Control
    <2>3. ReadBefore(th[q], sim'.ff[q], read[q], HostNs, VirtWall)
      BY <2>1 DEF Fits, ReadBefore, OnHost
    <2> QED
      BY <1>5, <1>6, <2>1, <2>2, <2>3 DEF Fits
  <1>8. WallOK'
    BY <1>1, <1>5 DEF WallOK
  <1> QED
    BY <1>1, <1>2, <1>5, <1>7, <1>8, SimKeeps

\* The offset goes up to the host's lead, and with it the time of all processes.
LEMMA ExitFastForwardStep ==
    ASSUME TimeInv, NEW p \in Procs, ExitFastForward(p)
    PROVE  TimeInv' /\ ReadsGrow
  <1>1. /\ sim \in SimRecs
        /\ failed = {} /\ WallOK
    BY DEF TimeInv, TimeTypeOK
  <1>2. UNCHANGED <<prog, th, read, failed>> /\ th' \in [Procs -> ThreadRecs]
    BY DEF ExitFastForward, TimeInv, TimeTypeOK
  <1>3. PICK l \in Nat : l = sim.lead
    BY <1>1
  <1>4. PICK o \in [ClockIds -> Int] : o = Captured(p) /\ o["realtime"] = l /\ o["monotonic"] = l
    <2>1. PICK s \in Nat : s = SimNs
      BY Times
    <2>2. (s + l) - s = l /\ HostNs = s + l
      BY <1>3, <2>1 DEF HostNs
    <2>3. \A c \in ClockIds : HostTime(p, c) \in Nat
      BY ClocksShow DEF Clocks
    <2>4. \A c \in ClockIds : HostTime(p, c) - s \in Int
      BY <2>3
    <2>5. Captured(p) \in [ClockIds -> Int]
      BY <2>1, <2>4 DEF Captured
    <2>6. HostTime(p, "realtime") = HostNs /\ HostTime(p, "monotonic") = HostNs
      BY DEF HostTime, ClockId, ClockIds
    <2>7. Captured(p)["realtime"] = l /\ Captured(p)["monotonic"] = l
      BY <2>1, <2>2, <2>6 DEF Captured, ClockIds
    <2> QED
      BY <2>5, <2>7
  <1>5. sim' = [sim EXCEPT !.ff[p] = FALSE, !.offset = o]
    BY <1>4 DEF ExitFastForward
  <1>6. /\ sim' \in SimRecs
        /\ sim'.phase = sim.phase /\ sim'.lead = l /\ sim'.offset = o
        /\ sim'.ff[p] = FALSE /\ \A q \in Procs : q # p => sim'.ff[q] = sim.ff[q]
    BY <1>1, <1>3, <1>5
  <1>7. HostNs' = HostNs /\ VirtWall' = HostNs /\ HostNs \in Nat /\ VirtWall \in Nat /\ VirtWall <= HostNs
    <2>1. SimNs' = SimNs
      BY <1>6 DEF SimNs
    <2>2. PICK s \in Nat : s = SimNs
      BY Times
    <2>3. HostNs' = s + l /\ VirtWall' = l + s /\ HostNs = s + l
      BY <1>3, <1>4, <1>6, <2>1, <2>2 DEF HostNs, VirtWall
    <2> QED
      BY <2>2, <2>3, Times
  <1>8. ASSUME NEW q \in Procs
        PROVE  /\ prog.toggles = 0 => ~sim'.ff[q]
               /\ Control(th'[q], sim'.ff[q]) /\ Signalled(th'[q])
               /\ Asleep(th'[q], sim'.phase, Wall')
               /\ ReadBefore(th'[q], sim'.ff[q], read[q], HostNs', VirtWall')
    <2>1. /\ th[q] \in ThreadRecs /\ read[q] \in ReadRecs /\ sim.ff[q] \in BOOLEAN /\ Fits(th[q], q, read[q])
          /\ th'[q] = th[q]
      BY <1>2, ThreadKnown
    <2>2. Control(th[q], sim'.ff[q])
      <3>1. CASE q = p
        BY <1>6, <2>1, <3>1 DEF Fits, Control, ExitFastForward
      <3>2. CASE q # p
        BY <1>6, <2>1, <3>2 DEF Fits
      <3> QED
        BY <3>1, <3>2
    <2>3. Asleep(th[q], sim'.phase, Wall')
      <3>1. Asleep(th[q], sim.phase, Wall)
        BY <2>1 DEF Fits
      <3>2. /\ th[q].call \in TimedCalls /\ th[q].done \in TimedCalls /\ th[q].from \in Nat /\ th[q].until \in Nat
        BY <2>1 DEF ThreadRecs
      <3>3. Wall \in Nat /\ Wall <= l
        BY <1>1, <1>3 DEF WallOK
      <3>4. /\ LongEnough(th[q].call, th[q].from, th[q].until, Wall) => LongEnough(th[q].call, th[q].from, th[q].until, l)
            /\ LongEnough(th[q].done, th[q].from, th[q].until, Wall) => LongEnough(th[q].done, th[q].from, th[q].until, l)
        BY <3>2, <3>3, LongEnoughLater
      <3> QED
        BY <1>4, <1>6, <3>1, <3>4 DEF Asleep
    <2>4. ReadBefore(th[q], sim'.ff[q], read[q], HostNs, HostNs)
      BY <2>1 DEF Fits, ReadBefore
    <2>5. prog.toggles = 0 => ~sim'.ff[q]
      BY <1>6 DEF TimeInv
    <2> QED
      BY <1>7, <2>1, <2>2, <2>3, <2>4, <2>5 DEF Fits
  <1>9. WallOK'
    BY <1>3, <1>4, <1>6 DEF WallOK
  <1> QED
    BY <1>1, <1>2, <1>6, <1>8, <1>9, SimKeeps

\* The time of the host goes on.
LEMMA HostTickStep ==
    ASSUME TimeInv, HostTick
    PROVE  TimeInv' /\ ReadsGrow
  <1>1. /\ sim \in SimRecs
        /\ failed = {} /\ WallOK
    BY DEF TimeInv, TimeTypeOK
  <1>2. UNCHANGED <<prog, th, read, failed>> /\ th' \in [Procs -> ThreadRecs]
    BY DEF HostTick, TimeInv, TimeTypeOK
  <1>3. PICK l \in Nat : l = sim.lead + 1
    BY <1>1
  <1>4. sim' = [sim EXCEPT !.lead = l]
    BY <1>3 DEF HostTick
  <1>5. /\ sim' \in SimRecs
        /\ sim'.phase = sim.phase /\ sim'.lead = l /\ sim'.offset = sim.offset /\ sim'.cpu = sim.cpu /\ sim'.ff = sim.ff
    BY <1>1, <1>4
  <1>6. VirtWall' = VirtWall /\ HostNs' \in Nat /\ HostNs \in Nat /\ HostNs <= HostNs' /\ VirtWall \in Nat
    <2>1. SimNs' = SimNs
      BY <1>5 DEF SimNs
    <2>2. PICK s \in Nat : s = SimNs
      BY Times
    <2>3. HostNs' = s + l /\ HostNs = s + sim.lead /\ VirtWall' = VirtWall
      BY <1>5, <2>1, <2>2 DEF HostNs, VirtWall
    <2> QED
      BY <1>1, <1>3, <2>2, <2>3, Times
  <1>7. ASSUME NEW q \in Procs
        PROVE  /\ prog.toggles = 0 => ~sim'.ff[q]
               /\ Control(th'[q], sim'.ff[q]) /\ Signalled(th'[q])
               /\ Asleep(th'[q], sim'.phase, Wall')
               /\ ReadBefore(th'[q], sim'.ff[q], read[q], HostNs', VirtWall')
    <2>1. /\ th[q] \in ThreadRecs /\ read[q] \in ReadRecs /\ sim.ff[q] \in BOOLEAN /\ Fits(th[q], q, read[q])
          /\ th'[q] = th[q]
      BY <1>2, ThreadKnown
    <2>2. ReadBefore(th[q], sim.ff[q], read[q], HostNs', VirtWall)
      BY <1>6, <2>1, ReadBeforeLater DEF Fits
    <2> QED
      BY <1>5, <1>6, <2>1, <2>2 DEF Fits, TimeInv
  <1>8. WallOK'
    BY <1>1, <1>3, <1>5 DEF WallOK
  <1> QED
    BY <1>1, <1>2, <1>5, <1>7, <1>8, SimKeeps

\* A process uses CPU time of the host.
LEMMA CpuTickStep ==
    ASSUME TimeInv, NEW p \in Procs, CpuTick(p)
    PROVE  TimeInv' /\ ReadsGrow
  <1>1. sim \in SimRecs /\ failed = {} /\ WallOK
    BY DEF TimeInv, TimeTypeOK
  <1>2. UNCHANGED <<prog, th, read, failed>> /\ th' \in [Procs -> ThreadRecs]
    BY DEF CpuTick, TimeInv, TimeTypeOK
  <1>3. PICK n \in Nat : n = sim.cpu[p] + 1
    BY <1>1
  <1>4. sim' = [sim EXCEPT !.cpu[p] = n]
    BY <1>3 DEF CpuTick
  <1>5. /\ sim' \in SimRecs
        /\ sim'.phase = sim.phase /\ sim'.lead = sim.lead /\ sim'.offset = sim.offset /\ sim'.ff = sim.ff
    BY <1>1, <1>4
  <1>6. HostNs' = HostNs /\ VirtWall' = VirtWall
    BY <1>5 DEF HostNs, VirtWall, SimNs
  <1>7. ASSUME NEW q \in Procs
        PROVE  /\ prog.toggles = 0 => ~sim'.ff[q]
               /\ Control(th'[q], sim'.ff[q]) /\ Signalled(th'[q])
               /\ Asleep(th'[q], sim'.phase, Wall')
               /\ ReadBefore(th'[q], sim'.ff[q], read[q], HostNs', VirtWall')
    <2>1. Fits(th[q], q, read[q]) /\ th'[q] = th[q]
      BY <1>2, ThreadKnown
    <2> QED
      BY <1>5, <1>6, <2>1 DEF Fits, TimeInv
  <1>8. WallOK'
    BY <1>1, <1>5 DEF WallOK
  <1> QED
    BY <1>1, <1>2, <1>5, <1>7, <1>8, SimKeeps

\* Those whose phase has come are woken, and nobody was due before.
LEMMA EndPhaseStep ==
    ASSUME TimeInv, EndPhase
    PROVE  TimeInv' /\ ReadsGrow
  <1>1. /\ sim \in SimRecs
        /\ failed = {} /\ WallOK
    BY DEF TimeInv, TimeTypeOK
  <1>2. PICK n \in Nat : n = sim.phase + 1
    BY <1>1
  <1>3. /\ UNCHANGED <<prog, read>> /\ sim' = [sim EXCEPT !.phase = n]
        /\ th' = [p \in Procs |-> IF Due(th[p], n) THEN wakeup(th[p]) ELSE th[p]]
    BY <1>2 DEF EndPhase
  <1>4. /\ sim' \in SimRecs
        /\ sim'.phase = n /\ sim'.lead = sim.lead /\ sim'.offset = sim.offset /\ sim'.cpu = sim.cpu /\ sim'.ff = sim.ff
    BY <1>1, <1>3
  <1>5. ASSUME NEW q \in Procs, Due(th[q], n) PROVE th[q].word = 1 /\ th[q].until = n
    <2>1. th[q].until \in Nat /\ Asleep(th[q], sim.phase, Wall)
      BY ThreadKnown DEF ThreadRecs, Fits
    <2>2. th[q].word = 1 /\ sim.phase < th[q].until /\ th[q].until <= n
      BY <1>5, <2>1 DEF Due, Asleep
    <2> QED
      BY <1>1, <1>2, <2>1, <2>2
  <1>6. failed' = {}
    <2>1. \A q \in {q \in Procs : Due(th[q], sim.phase + 1)} : Broken("wakeup", th[q].word = 1 /\ th[q].until = sim.phase + 1) = {}
      BY <1>2, <1>5 DEF Broken
    <2>2. ASSUME NEW q \in Procs PROVE Broken("sync", th[q].ptrs = "CORE" => ~th[q].marked) = {}
      <3>1. Control(th[q], sim.ff[q]) /\ ~Entering(th[q])
        BY ThreadKnown DEF Fits, EndPhase
      <3>2. th[q].ptrs = "CORE" => ~th[q].marked
        BY <3>1 DEF Control, Entering
      <3> QED
        BY <3>2 DEF Broken
    <2>3. UNION {Broken("sync", th[q].ptrs = "CORE" => ~th[q].marked) : q \in Procs} = {}
      BY <2>2, ZenonT(60)
    <2>4. UNION {Broken("wakeup", th[q].word = 1 /\ th[q].until = sim.phase + 1) :
                     q \in {q \in Procs : Due(th[q], sim.phase + 1)}} = {}
      BY <2>1, ZenonT(60)
    <2> QED
      BY <1>1, <2>3, <2>4 DEF EndPhase, Fail
  <1>7. HostNs' \in Nat /\ VirtWall' \in Nat /\ HostNs \in Nat /\ VirtWall \in Nat /\ HostNs <= HostNs' /\ VirtWall <= VirtWall'
    <2>1. PhaseLength \in Nat
      BY TimeAssumption
    <2>2. PICK a \in Nat : a = sim.phase * PhaseLength
      BY <1>1, <2>1
    <2>3. PICK b \in Nat : b = n * PhaseLength
      BY <2>1
    <2>4. b = a + PhaseLength
      BY <1>1, <1>2, <2>1, <2>2, <2>3
    <2>5. cyclesToNs(a) \in Nat /\ cyclesToNs(b) \in Nat /\ cyclesToNs(a) <= cyclesToNs(b)
      BY <2>1, <2>4, CyclesToNs
    <2>6. SimNs = cyclesToNs(a) /\ SimNs' = cyclesToNs(b)
      BY <1>4, <2>2, <2>3 DEF SimNs
    <2> QED
      BY <1>1, <1>4, <2>5, <2>6 DEF HostNs, VirtWall, WallOK
  <1>8. ASSUME NEW q \in Procs
        PROVE  /\ th'[q] \in ThreadRecs
               /\ prog.toggles = 0 => ~sim'.ff[q]
               /\ Control(th'[q], sim'.ff[q]) /\ Signalled(th'[q])
               /\ Asleep(th'[q], sim'.phase, Wall')
               /\ ReadBefore(th'[q], sim'.ff[q], read[q], HostNs', VirtWall')
    <2>1. /\ th[q] \in ThreadRecs /\ read[q] \in ReadRecs /\ sim.ff[q] \in BOOLEAN /\ Fits(th[q], q, read[q])
      BY ThreadKnown
    <2>2. PICK t : t = IF Due(th[q], n) THEN wakeup(th[q]) ELSE th[q]
      OBVIOUS
    <2>3. /\ t \in ThreadRecs /\ t.pc = th[q].pc /\ t.call = th[q].call /\ t.post = th[q].post /\ t.done = th[q].done
          /\ t.ptrs = th[q].ptrs /\ t.from = th[q].from /\ t.until = th[q].until /\ t.res = th[q].res
          /\ t.asleep = th[q].asleep /\ t.fake = th[q].fake /\ t.marked = th[q].marked
          /\ (Due(th[q], n) => t.state = "BLOCKED") /\ (~Due(th[q], n) => t.state = th[q].state /\ t.word = th[q].word)
      BY <2>1, <2>2 DEF wakeup, ThreadRecs
    <2>4. Due(th[q], n) => th[q].state = "SLEEPING" /\ th[q].until <= n
      BY DEF Due
    <2>5. ~Due(th[q], n) /\ th[q].state = "SLEEPING" => n < th[q].until
      BY <1>2, <2>1 DEF Due, ThreadRecs
    <2>6. /\ Control(th[q], sim.ff[q]) /\ Signalled(th[q]) /\ Asleep(th[q], sim.phase, Wall)
          /\ ReadBefore(th[q], sim.ff[q], read[q], HostNs, VirtWall)
      BY <2>1 DEF Fits
    <2>7. Control(t, sim.ff[q])
      BY <2>3, <2>4, <2>6 DEF Control, Asleep
    <2>8. Signalled(t) /\ t.pc # "marked"
      <3>1. ~Entering(th[q])
        BY DEF EndPhase
      <3> QED
        BY <2>3, <2>4, <2>6, <3>1 DEF Signalled, Control, Entering
    <2>9. \A i \in Nat : i <= sim.phase => i <= n
      BY <1>1, <1>2
    <2>10. th[q].until \in Nat
      BY <2>1 DEF ThreadRecs
    <2>11. Asleep(t, n, Wall)
      BY <2>3, <2>4, <2>5, <2>6, <2>8, <2>9, <2>10 DEF Asleep
    <2>12. ReadBefore(t, sim.ff[q], read[q], HostNs, VirtWall)
      BY <2>3, <2>6 DEF ReadBefore, OnHost
    <2>13. ReadBefore(t, sim.ff[q], read[q], HostNs', VirtWall')
      BY <1>7, <2>1, <2>3, <2>12, ReadBeforeLater
    <2>14. th'[q] = t
      BY <1>3, <2>2
    <2> QED
      BY <1>4, <2>3, <2>7, <2>8, <2>11, <2>13, <2>14 DEF TimeInv
  <1>9. th' \in [Procs -> ThreadRecs]
    BY <1>3, <1>8
  <1>10. WallOK'
    BY <1>1, <1>4 DEF WallOK
  <1> QED
    BY <1>1, <1>3, <1>4, <1>6, <1>8, <1>9, <1>10, SimKeeps

-----------------------------------------------------------------------------

\* The invariant of time holds initially.
LEMMA TimeInitially == TimeInit /\ ~prog.backToBack => TimeInv
  <1> SUFFICES ASSUME TimeInit, ~prog.backToBack PROVE TimeInv
    OBVIOUS
  <1>1. PICK t : t = NewThread
    OBVIOUS
  <1>2. /\ t \in ThreadRecs /\ t.pc = "app" /\ t.post = "null" /\ t.done = NoCall /\ t.ptrs = "CORE"
        /\ t.state = "RUNNING" /\ t.fake = FALSE /\ t.marked = FALSE
    BY <1>1, NoCallTimed DEF NewThread, ThreadRecs
  <1>3. TimeTypeOK /\ WallOK /\ failed = {} /\ \A p \in Procs : th[p] = t /\ ~sim.ff[p]
    <2>1. sim \in SimRecs /\ WallOK /\ \A p \in Procs : ~sim.ff[p]
      BY DEF TimeInit, WallOK, ClockIds
    <2>2. read \in [Procs -> ReadRecs]
      BY DEF TimeInit, ReadRecs, WallClocks
    <2> QED
      BY <1>1, <1>2, <2>1, <2>2 DEF TimeInit, TimeTypeOK
  <1>4. HostNs \in Nat /\ VirtWall \in Nat
    <2>1. sim.phase = 0 /\ Wall = 0 /\ sim.lead = 0 /\ PhaseLength \in Nat
      BY TimeAssumption DEF TimeInit, ClockIds
    <2>2. sim.phase * PhaseLength \in Nat
      BY <2>1
    <2>3. SimNs \in Nat
      BY <2>2, CyclesToNs DEF SimNs
    <2> QED
      BY <2>1, <2>3 DEF HostNs, VirtWall
  <1>5. ASSUME NEW p \in Procs
        PROVE  /\ Control(t, sim.ff[p]) /\ Signalled(t) /\ Asleep(t, sim.phase, Wall)
               /\ ReadBefore(t, sim.ff[p], read[p], HostNs, VirtWall)
    <2>1. Control(t, sim.ff[p]) /\ Signalled(t)
      BY <1>2 DEF Control, Signalled
    <2>2. t.done.kind = "none"
      BY <1>2 DEF NoCall
    <2>3. Asleep(t, sim.phase, Wall)
      BY <1>2, <2>2 DEF Asleep
    <2>4. \A c \in WallClocks : read[p][c] = 0 /\ Told(c, HostNs) \in Nat /\ Told(c, VirtWall) \in Nat
      BY <1>4, ToldMonotone DEF TimeInit, WallClocks
    <2>5. ReadBefore(t, sim.ff[p], read[p], HostNs, VirtWall)
      BY <1>2, <2>4 DEF ReadBefore
    <2> QED
      BY <2>1, <2>3, <2>5
  <1> QED
    BY <1>3, <1>5 DEF TimeInv

\* Every step keeps the invariant of time.
LEMMA TimeNextStep ==
    ASSUME TimeInv, [TimeNext]_timeVars
    PROVE  TimeInv' /\ ReadsGrow
  <1>1. CASE UNCHANGED timeVars
    <2>1. HostNs' = HostNs /\ VirtWall' = VirtWall
      BY <1>1 DEF timeVars, HostNs, VirtWall, SimNs
    <2>2. ReadsGrow
      BY <1>1 DEF timeVars, ReadsGrow, TimeInv, TimeTypeOK, ReadRecs
    <2> QED
      BY <1>1, <2>1, <2>2 DEF timeVars, TimeInv, TimeTypeOK, Signalled, WallOK
  <1>2. ASSUME NEW p \in Procs, NEW call \in prog.args, SyscallEnter(p, call)
        PROVE  TimeInv' /\ ReadsGrow
    BY <1>2, SyscallEnterStep
  <1>3. ASSUME NEW p \in Procs, TimeStep(p)
        PROVE  TimeInv' /\ ReadsGrow
    BY <1>3, KernelStep, ExitPlainStep, ExitTimeStep, ExitSleepStep, ExitTimeoutStep, EndTimeoutStep,
       SyscallRetryStep, JoinStep, LeaveMarkedStep DEF TimeStep
  <1>4. ASSUME NEW p \in Procs, NEW c \in prog.vdso, VdsoEntryPoint(p, c)
        PROVE  TimeInv' /\ ReadsGrow
    BY <1>4, VdsoEntryStep
  <1>5. ASSUME NEW p \in Procs, VdsoCallPoint(p)
        PROVE  TimeInv' /\ ReadsGrow
    <2>1. PICK n \in Nat : n = th[p].level + 1
      BY ThreadKnown DEF ThreadRecs
    <2>2. th' = [th EXCEPT ![p].level = n] /\ th[p].pc = "vdso" /\ UNCHANGED <<prog, sim, read, failed>>
      BY <1>5, <2>1 DEF VdsoCallPoint
    <2> QED
      BY <2>2, VdsoLevelStep
  <1>6. ASSUME NEW p \in Procs,
               VdsoRetPoint(p) \/ EnterFF(p) \/ LeaveFF(p) \/ EnterFastForward(p) \/ ExitFastForward(p)
               \/ CpuTick(p)
        PROVE  TimeInv' /\ ReadsGrow
    BY <1>6, VdsoRetStep, FastForwardThreadStep, EnterFastForwardStep, ExitFastForwardStep, CpuTickStep
  <1>7. CASE EndPhase \/ HostTick
    BY <1>7, EndPhaseStep, HostTickStep
  <1> QED
    BY <1>1, <1>2, <1>3, <1>4, <1>5, <1>6, <1>7 DEF TimeNext

\* What was long enough until its phase is so in the phase that there is.
LEMMA TimeInvExact == TimeInv => WaitsExact /\ PatchAsserts
  <1> SUFFICES ASSUME TimeInv PROVE WaitsExact
    BY DEF TimeInv, PatchAsserts
  <1> SUFFICES ASSUME NEW p \in Procs, NEW t, t = th[p]
               PROVE  /\ t.state = "SLEEPING" => sim.phase < t.until
                      /\ t.done.kind = "nanosleep" => cyclesToNs((sim.phase - t.from) * PhaseLength) >= t.done.ns
                      /\ t.done.kind = "clock_nanosleep" => VirtNs("realtime") >= t.done.ns
                      /\ t.done.kind \in {"futex", "poll"} =>
                            (sim.phase - t.from + 1) * PhaseLength > nsToCycles(t.done.ns)
                      /\ t.done.kind = "futex_realtime" => VirtNs("realtime") + cyclesToNs(PhaseLength) + 1 >= t.done.ns
    BY DEF WaitsExact
  <1>1. t \in ThreadRecs /\ Asleep(t, sim.phase, Wall)
    BY ThreadKnown DEF Fits
  <1>2. t.state = "SLEEPING" => sim.phase < t.until
    BY <1>1 DEF Asleep
  <1>3. CASE t.done.kind = "none"
    BY <1>2, <1>3
  <1>4. CASE t.done.kind # "none"
    <2>1. t.until <= sim.phase /\ LongEnough(t.done, t.from, t.until, Wall)
      BY <1>1, <1>4 DEF Asleep
    <2>2. PICK n \in Nat : n = t.done.ns
      BY <1>1 DEF ThreadRecs, TimedCalls
    <2>3. PICK f \in Nat : f = t.from
      BY <1>1 DEF ThreadRecs
    <2>4. PICK u \in Nat : u = t.until
      BY <1>1 DEF ThreadRecs
    <2>5. PICK now \in Nat : now = sim.phase
      BY Times
    <2>6. f <= u /\ u <= now /\ PhaseLength \in Nat
      BY <2>1, <2>3, <2>4, <2>5, TimeAssumption DEF LongEnough
    <2>7. PICK i \in Nat : i = u - f
      BY <2>6
    <2>8. PICK j \in Nat : j = now - u
      BY <2>6
    <2>9. PICK a \in Nat : a = i * PhaseLength
      BY <2>6
    <2>10. PICK b \in Nat : b = j * PhaseLength
      BY <2>6
    <2>11. PICK d \in Nat : d = u * PhaseLength
      BY <2>6
    <2>12. /\ (u - f) * PhaseLength = a /\ (u - f + 1) * PhaseLength = a + PhaseLength
           /\ (now - f) * PhaseLength = a + b /\ (now - f + 1) * PhaseLength = a + b + PhaseLength
           /\ now * PhaseLength = d + b
      <3>1. now - f = i + j /\ now = u + j /\ u - f = i
        BY <2>6, <2>7, <2>8
      <3>2. (i + j) * PhaseLength = a + b /\ (i + j + 1) * PhaseLength = a + b + PhaseLength
        BY <2>6, <2>9, <2>10
      <3>3. (u + j) * PhaseLength = d + b /\ (i + 1) * PhaseLength = a + PhaseLength
        BY <2>6, <2>9, <2>10, <2>11
      <3> QED
        BY <2>9, <3>1, <3>2, <3>3
    <2>13. /\ cyclesToNs(a) \in Nat /\ cyclesToNs(a + b) \in Nat /\ cyclesToNs(a) <= cyclesToNs(a + b)
           /\ cyclesToNs(d) \in Nat /\ cyclesToNs(d + b) \in Nat /\ cyclesToNs(d) <= cyclesToNs(d + b)
           /\ cyclesToNs(PhaseLength) \in Nat /\ nsToCycles(n) \in Nat
      <3>1. PICK x \in Nat : x = a + b /\ a <= x
        OBVIOUS
      <3>2. PICK y \in Nat : y = d + b /\ d <= y
        OBVIOUS
      <3>3. cyclesToNs(a) \in Nat /\ cyclesToNs(x) \in Nat /\ cyclesToNs(a) <= cyclesToNs(x)
        BY <3>1, CyclesToNs
      <3>4. cyclesToNs(d) \in Nat /\ cyclesToNs(y) \in Nat /\ cyclesToNs(d) <= cyclesToNs(y)
        BY <3>2, CyclesToNs
      <3>5. cyclesToNs(PhaseLength) \in Nat /\ nsToCycles(n) \in Nat
        BY <2>6, CyclesToNs, MoreCycles
      <3> QED
        BY <3>1, <3>2, <3>3, <3>4, <3>5
    <2>14. VirtWall = Wall + cyclesToNs(d + b) /\ Wall \in Nat /\ VirtNs("realtime") = VirtWall
      BY <2>5, <2>12, Times DEF VirtWall, VirtNs, SimNs, ClockId, ClockIds
    <2>15. CASE t.done.kind = "nanosleep"
      <3>1. cyclesToNs((u - f) * PhaseLength) >= n
        BY <2>1, <2>2, <2>3, <2>4, <2>15 DEF LongEnough
      <3>2. cyclesToNs(a + b) >= n
        BY <2>12, <2>13, <3>1
      <3> QED
        BY <1>2, <2>2, <2>3, <2>5, <2>12, <2>15, <3>2
    <2>16. CASE t.done.kind = "clock_nanosleep"
      <3>1. Wall + cyclesToNs(d) >= n
        BY <2>1, <2>2, <2>4, <2>11, <2>16 DEF LongEnough
      <3>2. VirtWall >= n
        BY <2>13, <2>14, <3>1
      <3> QED
        BY <1>2, <2>2, <2>14, <2>16, <3>2
    <2>17. CASE t.done.kind \in {"futex", "poll"}
      <3>1. (u - f + 1) * PhaseLength > nsToCycles(n)
        BY <2>1, <2>2, <2>3, <2>4, <2>17 DEF LongEnough
      <3>2. a + b + PhaseLength > nsToCycles(n)
        BY <2>6, <2>12, <2>13, <3>1
      <3> QED
        BY <1>2, <2>2, <2>3, <2>5, <2>12, <2>17, <3>2
    <2>18. CASE t.done.kind = "futex_realtime"
      <3>1. Wall + cyclesToNs(d) + cyclesToNs(PhaseLength) + 1 >= n
        BY <2>1, <2>2, <2>4, <2>11, <2>18 DEF LongEnough
      <3>2. VirtWall + cyclesToNs(PhaseLength) + 1 >= n
        BY <2>13, <2>14, <3>1
      <3> QED
        BY <1>2, <2>2, <2>14, <2>18, <3>2
    <2>19. CASE t.done.kind \in Clocks
      BY <1>2, <2>19 DEF Clocks, ClockIds
    <2> QED
      BY <1>1, <1>4, <2>15, <2>16, <2>17, <2>18, <2>19 DEF ThreadRecs, TimedCalls, Sleeps, Waits
  <1> QED
    BY <1>3, <1>4

\* No assertion of the patches, nor one of markForSleep(), leave(), sync(),
\* wakeup(), notifySleepEnd() and join() about the threads they put to sleep,
\* fails in a program that does not sleep again before it has joined.
THEOREM PatchAssertsHold == TimeSpec /\ ~prog.backToBack => []PatchAsserts
  <1>1. TimeInit /\ ~prog.backToBack => TimeInv
    BY TimeInitially
  <1>2. TimeInv /\ [TimeNext]_timeVars => TimeInv'
    BY TimeNextStep
  <1>3. TimeInv => PatchAsserts
    BY TimeInvExact
  <1> QED
    BY <1>1, <1>2, <1>3, PTL DEF TimeSpec

\* Sleeps and timed waits last as long as the program asked, in its own time,
\* if it does not sleep again before it has joined.
THEOREM WaitsAreExact == TimeSpec /\ ~prog.backToBack => []WaitsExact
  <1>1. TimeInit /\ ~prog.backToBack => TimeInv
    BY TimeInitially
  <1>2. TimeInv /\ [TimeNext]_timeVars => TimeInv'
    BY TimeNextStep
  <1>3. TimeInv => WaitsExact
    BY TimeInvExact
  <1> QED
    BY <1>1, <1>2, <1>3, PTL DEF TimeSpec

\* The real and the monotonic time that a program is told never go back, whatever
\* is fast-forwarded.
THEOREM TimeGoesOn == TimeSpec /\ ~prog.backToBack => TimeNeverGoesBack
  <1>1. TimeInit /\ ~prog.backToBack => TimeInv
    BY TimeInitially
  <1>2. TimeInv /\ [TimeNext]_timeVars => TimeInv'
    BY TimeNextStep
  <1>3. TimeInv /\ [TimeNext]_timeVars => [\A p \in Procs, c \in WallClocks : read'[p][c] >= read[p][c]]_timeVars
    BY TimeNextStep DEF ReadsGrow
  <1> QED
    BY <1>1, <1>2, <1>3, PTL DEF TimeSpec, TimeNeverGoesBack
=============================================================================
