--------------------------- MODULE SchedulerProofs ---------------------------
(***************************************************************************)
(* SchedulerSound holds in every reachable state of Scheduler, for all     *)
(* sets of threads and contexts, masks, quanta and barrier parameters.     *)
(***************************************************************************)
EXTENDS Scheduler, ProofFacts

BP == INSTANCE BarrierProofs WITH Tids <- Contexts

SchedType ==
    [ thState : [Threads -> ThreadStates], cid : [Threads -> Contexts],
      handoff : [Threads -> Threads \cup {NoThread}], futex : [Threads -> {0, 1}],
      wakeIn : [Threads -> 0..MaxSleep], curThread : [Contexts -> Threads \cup {NoThread}],
      freeList : Seq(Contexts), runQueue : Seq(Threads), outQueue : Seq(Threads),
      sleepQueue : Seq(Threads), fakeLeaves : Seq(Threads \X Pcs),
      curPhase : 0..(schedQuantum - 1) ]

-----------------------------------------------------------------------------
(***************************************************************************)
(* The inductive invariant, as a predicate of values s of sched: the       *)
(* functions of the scheduler are applied one after the other, and in      *)
(* between there are contexts (the set C) that are in nobody's hands, and  *)
(* threads (the set X) that are QUEUED but not in the queue.               *)
(***************************************************************************)

In(s, ss) == {t \in Threads : s.thState[t] \in ss}

Promised(s) == {s.handoff[t] : t \in Threads} \ {NoThread}

Holds(q, S) == IsInjective(q) /\ ToSet(q) = S

Used(s) ==
    \A t \in Threads, c \in Contexts :
        /\ s.curThread[c] = t <=> s.thState[t] \in {"RUNNING", "OUT"} /\ s.cid[t] = c
        /\ s.curThread[c] = t => c \in mask[t]

Free(s, C) ==
    /\ \A c \in C : s.curThread[c] = NoThread
    /\ Holds(s.freeList, {c \in Contexts : s.curThread[c] = NoThread} \ C)

Out(s) == Holds(s.outQueue, In(s, {"OUT"}))

Asleep(s) ==
    /\ Holds(s.sleepQueue, In(s, {"SLEEPING"}))
    /\ \A i, j \in DOMAIN s.sleepQueue :
         i < j => s.wakeIn[s.sleepQueue[i]] <= s.wakeIn[s.sleepQueue[j]]
    /\ \A t \in In(s, {"SLEEPING"}) : s.wakeIn[t] > 0 /\ s.futex[t] = 1

Queued(s, X) ==
    /\ Holds(s.runQueue, (In(s, {"QUEUED"}) \ Promised(s)) \ X)
    /\ Promised(s) \subseteq In(s, {"QUEUED"}) \ X
    /\ \A t \in In(s, {"QUEUED"}) \ X : s.futex[t] = 1

Promising(s) ==
    /\ \A t, u \in Threads : s.handoff[t] = s.handoff[u] /\ t # u => s.handoff[t] = NoThread
    /\ \A t \in Threads : s.handoff[t] # NoThread
                            => s.thState[t] = "RUNNING" /\ s.cid[t] \in mask[s.handoff[t]]

NoContext(s, C) ==
    \A t \in ToSet(s.runQueue) : \A c \in mask[t] \ C : s.curThread[c] \in In(s, {"RUNNING"})

FakedOnce(s) ==
    \A i, j \in DOMAIN s.fakeLeaves : s.fakeLeaves[i][1] = s.fakeLeaves[j][1] => i = j

Core(s, C, X) ==
    /\ s \in SchedType
    /\ Used(s) /\ Free(s, C) /\ Out(s) /\ Asleep(s)
    /\ Queued(s, X) /\ Promising(s) /\ NoContext(s, C) /\ FakedOnce(s)

\* Where the threads are (p) agrees with their states; u is unfaked.
ThreadAgrees(s, p, u, t) ==
    /\ s.thState[t] = "NONE" <=> p[t] = "none"
    /\ p[t] \in {"app", "marked", "join", "sync"} => s.thState[t] = "RUNNING"
    /\ s.thState[t] = "QUEUED" => p[t] = "ctx"
    /\ p[t] = "ctx" => s.thState[t] \in {"QUEUED", "RUNNING"}
    /\ p[t] = "fini" => s.thState[t] \in {"OUT", "BLOCKED"}
    /\ t \in FakeLeft(s) \/ t = u <=> p[t] = "out" /\ s.thState[t] = "RUNNING"
    /\ ~(t \in FakeLeft(s) /\ t = u)
    /\ p[t] = "marked" => s.wakeIn[t] > 0 /\ s.futex[t] = 1
    /\ s.handoff[t] # NoThread => p[t] = "sync"

Agrees(s, p, u) == \A t \in Threads : ThreadAgrees(s, p, u, t)

\* The barrier (its state st, and syn for synced) agrees with both.
BarrierIs(s, p, st, syn) ==
    /\ \A c \in Contexts : st[c] \in {"WAITING", "RUNNING"}
                              <=> \E t \in In(s, {"RUNNING"}) : s.cid[t] = c
    /\ \A t \in In(s, {"RUNNING"}) :
         /\ p[t] \notin {"join", "sync"} => st[s.cid[t]] = "RUNNING"
         /\ s.cid[t] \in syn => p[t] = "sync" /\ s.handoff[t] = NoThread

IInv ==
    /\ Core(sched, {}, {})
    /\ Agrees(sched, pc, unfaked)
    /\ BarrierIs(sched, pc, state, synced)
    /\ BP!IInv
    /\ pc \in [Threads -> ThreadPcs]
    /\ unfaked \in Threads \cup {NoThread}
    /\ blockingSyscalls \subseteq Pcs

-----------------------------------------------------------------------------
(***************************************************************************)
(* The queues: removal, ordered insertion and the first element of a set.  *)
(***************************************************************************)

\* A set of naturals that is not empty has a least element.
LEMMA LeastIn ==
    ASSUME NEW I \in SUBSET Nat, I # {}
    PROVE  \E i \in I : \A j \in I : i <= j
  <1>1. PICK i \in I : \A j \in I : ~(<<j, i>> \in OpToRel(<, Nat))
    BY NatLessThanWellFounded, WFMin
  <1>2. \A j \in I : ~(j < i)
    BY <1>1 DEF OpToRel
  <1> QED
    BY <1>2

\* FirstIn(): the search of schedThread() and schedContext() along a queue.
LEMMA FirstInFacts ==
    ASSUME NEW T, NEW q \in Seq(T), NEW S
    PROVE  /\ \A x \in FirstIn(q, S) : x \in T /\ x \in ToSet(q) /\ x \in S
           /\ FirstIn(q, S) = {} => \A x \in ToSet(q) : x \notin S
  <1> DEFINE found == {i \in DOMAIN q : q[i] \in S}
  <1>1. FirstIn(q, S) = {q[i] : i \in {i \in found : \A j \in found : i <= j}}
    BY DEF FirstIn
  <1>2. DOMAIN q = 1..Len(q) /\ Len(q) \in Nat /\ found \in SUBSET Nat
    OBVIOUS
  <1>3. \A x \in FirstIn(q, S) : x \in T /\ x \in ToSet(q) /\ x \in S
    BY <1>1, <1>2 DEF ToSet
  <1>4. ASSUME NEW x \in ToSet(q), x \in S PROVE FirstIn(q, S) # {}
    <2>1. found # {}
      BY <1>4 DEF ToSet
    <2>2. PICK i \in found : \A j \in found : i <= j
      BY <2>1, <1>2, LeastIn
    <2> QED
      BY <2>2, <1>1
  <1> QED
    BY <1>3, <1>4

\* What Without() chooses among exists.
IsWithout(r, q, S, n) ==
    /\ r \in Seq(ToSet(q)) /\ IsInjective(r)
    /\ \A x : x \in ToSet(r) <=> x \notin S /\ \E i \in 1..n : x = q[i]
    /\ \A i, j \in DOMAIN r : i < j => \E k, l \in 1..n : k < l /\ r[i] = q[k] /\ r[j] = q[l]

\* One more element of the queue is kept, or removed.
LEMMA WithoutStep ==
    ASSUME NEW T, NEW q \in Seq(T), IsInjective(q), NEW S, NEW n \in Nat, n < Len(q),
           NEW r, IsWithout(r, q, S, n)
    PROVE  \E w : IsWithout(w, q, S, n + 1)
  <1>1. PICK x : x = q[n + 1]
    OBVIOUS
  <1>2. x \in ToSet(q) /\ n + 1 \in DOMAIN q /\ DOMAIN q = 1..Len(q) /\ Len(q) \in Nat
    BY <1>1 DEF ToSet
  <1>3. r \in Seq(ToSet(q)) /\ Len(r) \in Nat /\ DOMAIN r = 1..Len(r)
    BY DEF IsWithout
  <1>4. CASE x \in S
    <2>1. \A y : y \in ToSet(r) <=> y \notin S /\ \E i \in 1..(n + 1) : y = q[i]
      BY <1>1, <1>4 DEF IsWithout
    <2> QED
      BY <2>1 DEF IsWithout
  <1>5. CASE x \notin S
    <2>1. PICK w : w = Append(r, x)
      OBVIOUS
    <2>2. /\ w \in Seq(ToSet(q)) /\ Len(w) = Len(r) + 1 /\ DOMAIN w = 1..(Len(r) + 1)
          /\ \A i \in 1..Len(r) : w[i] = r[i]
          /\ w[Len(r) + 1] = x
      BY <1>2, <1>3, <2>1
    <2>3. \A i \in 1..Len(r) : r[i] \in ToSet(r)
      BY <1>3 DEF ToSet
    <2>4. \A i \in 1..Len(r) : \E k \in 1..n : r[i] = q[k]
      BY <2>3 DEF IsWithout
    <2>5. \A i \in 1..Len(r) : r[i] # x
      BY <2>4, <1>1, <1>2 DEF IsInjective
    <2>6. IsInjective(w)
      BY <2>2, <2>5, <1>3 DEF IsWithout, IsInjective
    <2>7. \A y : y \in ToSet(w) <=> y \in ToSet(r) \/ y = x
      <3>1. ASSUME NEW y \in ToSet(w) PROVE y \in ToSet(r) \/ y = x
        <4>1. PICK i \in DOMAIN w : y = w[i]
          BY <3>1 DEF ToSet
        <4>2. i \in 1..Len(r) \/ i = Len(r) + 1
          BY <2>2, <1>3, <4>1
        <4> QED
          BY <2>2, <2>3, <4>1, <4>2
      <3>2. ASSUME NEW y \in ToSet(r) PROVE y \in ToSet(w)
        <4>1. PICK i \in 1..Len(r) : y = r[i]
          BY <1>3, <3>2 DEF ToSet
        <4>2. i \in DOMAIN w /\ y = w[i]
          BY <2>2, <1>3, <4>1
        <4> QED
          BY <4>2 DEF ToSet
      <3>3. x \in ToSet(w)
        <4>1. Len(r) + 1 \in DOMAIN w
          BY <2>2, <1>3
        <4> QED
          BY <2>2, <4>1 DEF ToSet
      <3> QED
        BY <3>1, <3>2, <3>3
    <2>8. \A y : y \in ToSet(w) <=> y \notin S /\ \E i \in 1..(n + 1) : y = q[i]
      BY <2>7, <1>1, <1>5 DEF IsWithout
    <2>9. ASSUME NEW i \in DOMAIN w, NEW j \in DOMAIN w, i < j
          PROVE  \E k, l \in 1..(n + 1) : k < l /\ w[i] = q[k] /\ w[j] = q[l]
      <3>1. CASE j \in 1..Len(r)
        <4>1. i \in DOMAIN r /\ j \in DOMAIN r /\ w[i] = r[i] /\ w[j] = r[j]
          BY <2>9, <3>1, <2>2, <1>3
        <4>2. PICK k \in 1..n, l \in 1..n : k < l /\ r[i] = q[k] /\ r[j] = q[l]
          BY <4>1, <2>9 DEF IsWithout
        <4> QED
          BY <4>1, <4>2
      <3>2. CASE j = Len(r) + 1
        <4>1. i \in 1..Len(r) /\ w[i] = r[i] /\ w[j] = q[n + 1]
          BY <2>9, <3>2, <2>2, <1>1, <1>3
        <4>2. PICK k \in 1..n : r[i] = q[k]
          BY <4>1, <2>4
        <4>3. k \in 1..(n + 1) /\ n + 1 \in 1..(n + 1) /\ k < n + 1
          BY <4>2
        <4> QED
          BY <4>1, <4>2, <4>3
      <3> QED
        BY <3>1, <3>2, <2>2, <1>3
    <2>10. IsWithout(w, q, S, n + 1)
      BY <2>2, <2>6, <2>8, <2>9 DEF IsWithout
    <2> QED
      BY <2>10
  <1> QED
    BY <1>4, <1>5

\* A queue without the elements of S, in the same order, exists.
LEMMA WithoutExists ==
    ASSUME NEW T, NEW q \in Seq(T), IsInjective(q), NEW S
    PROVE  \E w : IsWithout(w, q, S, Len(q))
  <1>1. PICK N : N = {n \in Nat : n <= Len(q) => \E w : IsWithout(w, q, S, n)}
    OBVIOUS
  <1>2. 0 \in N
    <2>1. IsWithout(<< >>, q, S, 0)
      BY DEF IsWithout, IsInjective, ToSet
    <2> QED
      BY <1>1, <2>1
  <1>3. \A n \in Nat : n \in N => n + 1 \in N
    BY <1>1, WithoutStep
  <1>4. N \in SUBSET Nat
    BY <1>1
  <1>5. Len(q) \in N
    BY <1>2, <1>3, <1>4, NatInduct
  <1> QED
    BY <1>1, <1>5

\* The removal from a queue: what is left is the rest, each once.
LEMMA WithoutFacts ==
    ASSUME NEW T, NEW q \in Seq(T), IsInjective(q), NEW S
    PROVE  /\ Without(q, S) \in Seq(T) /\ IsInjective(Without(q, S))
           /\ ToSet(Without(q, S)) = ToSet(q) \ S
           /\ KeepsOrder(Without(q, S), q)
  <1>0. DOMAIN q = 1..Len(q) /\ Len(q) \in Nat /\ ToSet(q) \subseteq T
    BY DEF ToSet
  <1>1. PICK V : V = ToSet(q) \ S
    OBVIOUS
  <1>2. PICK w : IsWithout(w, q, S, Len(q))
    BY WithoutExists
  <1>3. w \in Seq(ToSet(q)) /\ DOMAIN w = 1..Len(w) /\ Len(w) \in Nat /\ ToSet(w) = V /\ IsInjective(w)
    BY <1>0, <1>1, <1>2 DEF IsWithout, ToSet
  <1>4. w \in [1..Len(w) -> V]
    BY <1>3 DEF ToSet
  <1>5. w \in Bijection(1..Len(w), V)
    BY <1>3, <1>4 DEF Bijection, Injection, Surjection, ToSet
  <1>6. IsFiniteSet(V) /\ Cardinality(V) = Len(w)
    <2>1. IsFiniteSet(1..Len(w)) /\ Cardinality(1..Len(w)) = Len(w)
      <3>1. PICK n \in Nat : n = Len(w)
        BY <1>3
      <3>2. IsFiniteSet(1..n) /\ Cardinality(1..n) = n
        BY FS_Interval
      <3> QED
        BY <3>1, <3>2
    <2> QED
      BY <2>1, <1>5, FS_Bijection DEF ExistsBijection
  <1>7. w \in SetToSeqs(V)
    BY <1>3, <1>4, <1>6 DEF SetToSeqs, IsInjective
  <1>8. KeepsOrder(w, q)
    <2>1. ASSUME NEW i \in DOMAIN w, NEW j \in DOMAIN w, i < j
          PROVE  \E k, l \in DOMAIN q : k < l /\ w[i] = q[k] /\ w[j] = q[l]
      <3>1. \E k, l \in 1..Len(q) : k < l /\ w[i] = q[k] /\ w[j] = q[l]
        BY <1>2, <2>1 DEF IsWithout
      <3> QED
        BY <3>1, <1>0
    <2> QED
      BY <2>1 DEF KeepsOrder
  <1>9. PICK r : r = Without(q, S)
    OBVIOUS
  <1>10. r \in SetToSeqs(V) /\ KeepsOrder(r, q)
    BY <1>1, <1>7, <1>8, <1>9 DEF Without
  <1>11. r \in Injection(1..Cardinality(V), V)
    BY <1>10 DEF SetToSeqs, Injection, IsInjective
  <1>12. r \in Surjection(1..Cardinality(V), V)
    <2>1. Cardinality(1..Cardinality(V)) = Cardinality(V)
      <3>1. 1 \in Int /\ Cardinality(V) \in Int /\ Cardinality(V) >= 0
        BY <1>3, <1>6
      <3> QED
        BY <3>1, FS_Interval
    <2> QED
      BY <2>1, <1>6, <1>11, FS_Injection
  <1>13. r \in Seq(T) /\ DOMAIN r = 1..Cardinality(V)
    <2>1. PICK n \in Nat : n = Cardinality(V)
      BY <1>3, <1>6
    <2>2. r \in [1..n -> T]
      BY <1>0, <1>1, <1>11, <2>1 DEF Injection
    <2> QED
      BY <2>1, <2>2
  <1>14. ToSet(r) = V
    BY <1>12, <1>13 DEF Surjection, ToSet
  <1> QED
    BY <1>1, <1>9, <1>10, <1>11, <1>13, <1>14 DEF Injection

\* push_back() of an element that is not in the queue.
LEMMA AppendFacts ==
    ASSUME NEW T, NEW q \in Seq(T), IsInjective(q), NEW x \in T, x \notin ToSet(q)
    PROVE  /\ Append(q, x) \in Seq(T) /\ IsInjective(Append(q, x))
           /\ ToSet(Append(q, x)) = ToSet(q) \cup {x}
  <1>1. PICK r : r = Append(q, x)
    OBVIOUS
  <1>2. PICK n \in Nat : n = Len(q) /\ DOMAIN q = 1..n
    OBVIOUS
  <1>3. r \in Seq(T) /\ DOMAIN r = 1..(n + 1) /\ r[n + 1] = x /\ \A i \in 1..n : r[i] = q[i]
    BY <1>1, <1>2
  <1>4. \A i \in 1..n : q[i] # x
    BY <1>2 DEF ToSet
  <1>5. IsInjective(r)
    BY <1>2, <1>3, <1>4 DEF IsInjective
  <1>6. ToSet(r) = ToSet(q) \cup {x}
    BY <1>2, <1>3 DEF ToSet
  <1> QED
    BY <1>1, <1>3, <1>5, <1>6

\* insertAfter() of an element that is not in the queue.
LEMMA InsertFacts ==
    ASSUME NEW T, NEW q \in Seq(T), IsInjective(q), NEW x \in T, x \notin ToSet(q),
           NEW n \in 0..Len(q)
    PROVE  /\ InsertAt(q, n + 1, x) \in Seq(T) /\ IsInjective(InsertAt(q, n + 1, x))
           /\ ToSet(InsertAt(q, n + 1, x)) = ToSet(q) \cup {x}
           /\ DOMAIN InsertAt(q, n + 1, x) = 1..(Len(q) + 1)
           /\ \A i \in 1..(Len(q) + 1) :
                InsertAt(q, n + 1, x)[i]
                  = IF i <= n THEN q[i] ELSE IF i = n + 1 THEN x ELSE q[i - 1]
  <1>1. PICK m \in Nat : m = Len(q) /\ DOMAIN q = 1..m
    OBVIOUS
  <1>0. n \in 0..m /\ n \in Nat /\ \A i \in 1..m : q[i] \in T
    BY <1>1
  <1>2. PICK a : a = SubSeq(q, 1, n)
    OBVIOUS
  <1>3. PICK b : b = SubSeq(q, n + 1, m)
    OBVIOUS
  <1>4. a \in Seq(T) /\ Len(a) = n /\ \A i \in 1..n : a[i] = q[i]
    BY <1>0, <1>1, <1>2
  <1>5. b \in Seq(T) /\ Len(b) = m - n /\ \A i \in 1..(m - n) : b[i] = q[n + i]
    BY <1>0, <1>1, <1>3
  <1>6. PICK r : r = InsertAt(q, n + 1, x)
    OBVIOUS
  <1>7. r = a \o <<x>> \o b
    <2>1. (n + 1) - 1 = n
      BY <1>0
    <2> QED
      BY <1>1, <1>2, <1>3, <1>6, <2>1 DEF InsertAt
  <1>8. r \in Seq(T) /\ DOMAIN r = 1..(m + 1) /\ Len(r) = m + 1
    BY <1>1, <1>4, <1>5, <1>7
  <1>9. ASSUME NEW i \in 1..(m + 1)
        PROVE  r[i] = IF i <= n THEN q[i] ELSE IF i = n + 1 THEN x ELSE q[i - 1]
    <2>1. CASE i <= n + 1
      BY <2>1, <1>1, <1>4, <1>5, <1>7
    <2>2. CASE i > n + 1
      <3>1. r[i] = b[i - (n + 1)]
        BY <2>2, <1>1, <1>4, <1>5, <1>7
      <3>2. i - (n + 1) \in 1..(m - n)
        BY <2>2, <1>1
      <3> QED
        BY <2>2, <3>1, <3>2, <1>5
    <2> QED
      BY <2>1, <2>2, <1>1
  <1>10. \A i \in 1..m : q[i] # x
    BY <1>1 DEF ToSet
  <1>11. IsInjective(r)
    <2> SUFFICES ASSUME NEW i \in 1..(m + 1), NEW j \in 1..(m + 1), i < j, r[i] = r[j] PROVE FALSE
      BY <1>8 DEF IsInjective
    <2>1. \A k, l \in 1..m : q[k] = q[l] => k = l
      BY <1>1 DEF IsInjective
    <2>2. CASE j = n + 1
      <3>1. r[j] = x /\ i \in 1..m /\ r[i] = q[i]
        BY <2>2, <1>0, <1>9
      <3> QED
        BY <3>1, <1>10
    <2>3. CASE i = n + 1
      <3>1. r[i] = x /\ j - 1 \in 1..m /\ r[j] = q[j - 1]
        BY <2>3, <1>0, <1>9
      <3> QED
        BY <3>1, <1>10
    <2>4. CASE i # n + 1 /\ j # n + 1
      <3>1. PICK k \in 1..m : r[i] = q[k] /\ k = IF i <= n THEN i ELSE i - 1
        BY <2>4, <1>0, <1>9
      <3>2. PICK l \in 1..m : r[j] = q[l] /\ l = IF j <= n THEN j ELSE j - 1
        BY <2>4, <1>0, <1>9
      <3>3. k = l
        BY <3>1, <3>2, <2>1
      <3>4. k < l
        BY <2>4, <3>1, <3>2, <1>0
      <3> QED
        BY <3>3, <3>4
    <2> QED
      BY <2>2, <2>3, <2>4
  <1>12. ToSet(r) = ToSet(q) \cup {x}
    <2>1. \A y \in ToSet(r) : y \in ToSet(q) \cup {x}
      <3>1. ASSUME NEW i \in 1..(m + 1) PROVE r[i] \in ToSet(q) \cup {x}
        <4>1. r[i] = x \/ \E k \in 1..m : r[i] = q[k]
          BY <1>0, <1>9
        <4> QED
          BY <4>1, <1>1 DEF ToSet
      <3> QED
        BY <3>1, <1>8 DEF ToSet
    <2>2. ASSUME NEW k \in 1..m PROVE q[k] \in ToSet(r)
      <3>1. CASE k <= n
        BY <3>1, <1>1, <1>8, <1>9 DEF ToSet
      <3>2. CASE k > n
        <4>1. k + 1 \in 1..(m + 1) /\ r[k + 1] = q[k]
          BY <3>2, <1>1, <1>9
        <4> QED
          BY <4>1, <1>8 DEF ToSet
      <3> QED
        BY <3>1, <3>2, <1>1
    <2>3. n + 1 \in 1..(m + 1) /\ r[n + 1] = x
      BY <1>1, <1>9
    <2>4. x \in ToSet(r)
      BY <2>3, <1>8 DEF ToSet
    <2> QED
      BY <2>1, <2>2, <2>4, <1>1 DEF ToSet
  <1> QED
    BY <1>1, <1>6, <1>8, <1>9, <1>11, <1>12

\* The place of a deadline v among those of the queue.
LEMMA PlaceExists ==
    ASSUME NEW T, NEW q \in Seq(T), NEW w \in [T -> Nat], NEW v \in Nat
    PROVE  \E n \in 0..Len(q) : /\ \A i \in 1..n : w[q[i]] <= v
                                /\ n < Len(q) => w[q[n + 1]] > v
  <1>1. PICK m \in Nat : m = Len(q) /\ DOMAIN q = 1..m
    OBVIOUS
  <1>2. \A i \in 1..m : w[q[i]] \in Nat
    BY <1>1
  <1>3. PICK I : I = {i \in 1..m : w[q[i]] > v}
    OBVIOUS
  <1>4. CASE I = {}
    <2>1. ASSUME NEW i \in 1..m PROVE w[q[i]] <= v
      <3>1. ~(w[q[i]] > v)
        BY <1>3, <1>4
      <3>2. w[q[i]] \in Nat
        BY <1>2
      <3> QED
        BY <3>1, <3>2
    <2>2. m \in 0..Len(q) /\ ~(m < Len(q))
      BY <1>1
    <2> QED
      BY <2>1, <2>2
  <1>5. CASE I # {}
    <2>1. PICK i \in I : \A j \in I : i <= j
      <3>1. I \in SUBSET Nat
        BY <1>3
      <3> QED
        BY <3>1, <1>5, LeastIn
    <2>2. PICK n \in 0..m : n = i - 1 /\ i = n + 1 /\ i \in 1..m
      BY <1>3, <2>1
    <2>3. \A j \in 1..n : w[q[j]] <= v
      BY <1>2, <1>3, <2>1, <2>2
    <2> QED
      BY <1>1, <1>3, <2>1, <2>2, <2>3
  <1> QED
    BY <1>4, <1>5

-----------------------------------------------------------------------------
(***************************************************************************)
(* The functions of the scheduler preserve Core.                           *)
(***************************************************************************)

\* What the proofs use of the assumption on the constants.
LEMMA Given ==
    /\ NoThread \notin Threads
    /\ \A t \in Threads : mask[t] \subseteq Contexts
    /\ numCores \in Nat /\ MaxSleep \in Nat \ {0} /\ schedQuantum \in Nat \ {0}
  BY SchedulerAssumption

\* The queues are sequences.
LEMMA QueueTypes ==
    ASSUME NEW s \in SchedType
    PROVE  /\ ToSet(s.runQueue) \subseteq Threads /\ ToSet(s.outQueue) \subseteq Threads
           /\ ToSet(s.sleepQueue) \subseteq Threads /\ ToSet(s.freeList) \subseteq Contexts
  BY DEF SchedType, ToSet

\* schedule(): a thread gets a context that is in nobody's hands.
LEMMA ScheduleCore ==
    ASSUME NEW s, NEW C \in SUBSET Contexts, NEW X, Core(s, C, X), NEW t \in Threads, NEW c \in C,
           c \in mask[t],
           s.thState[t] \in {"STARTED", "BLOCKED", "QUEUED"},
           s.thState[t] = "QUEUED" => t \in X
    PROVE  Core(schedule(s, t, c), C \ {c}, X \ {t})
  <1>0. /\ s \in SchedType /\ Used(s) /\ Free(s, C) /\ Out(s) /\ Asleep(s)
        /\ Queued(s, X) /\ Promising(s) /\ NoContext(s, C) /\ FakedOnce(s)
    BY DEF Core
  <1>1. PICK r : r = schedule(s, t, c)
    OBVIOUS
  <1>2. /\ r \in SchedType
        /\ \A u \in Threads : r.thState[u] = (IF u = t THEN "RUNNING" ELSE s.thState[u])
        /\ \A u \in Threads : r.cid[u] = (IF u = t THEN c ELSE s.cid[u])
        /\ \A d \in Contexts : r.curThread[d] = (IF d = c THEN t ELSE s.curThread[d])
        /\ r.handoff = s.handoff /\ r.futex = s.futex /\ r.wakeIn = s.wakeIn
        /\ r.freeList = s.freeList /\ r.runQueue = s.runQueue /\ r.outQueue = s.outQueue
        /\ r.sleepQueue = s.sleepQueue /\ r.fakeLeaves = s.fakeLeaves
    BY <1>0, <1>1 DEF schedule, SchedType, ThreadStates
  <1>3. s.curThread[c] = NoThread /\ s.thState[t] \notin {"RUNNING", "OUT", "SLEEPING"}
    BY <1>0 DEF Free
  <1>4. Used(r)
    BY <1>0, <1>2, <1>3, Given DEF Used
  <1>5. Free(r, C \ {c})
    BY <1>0, <1>2, <1>3, Given DEF Free, Holds
  <1>6. Out(r) /\ Asleep(r)
    BY <1>0, <1>2, <1>3 DEF Out, Asleep, In
  <1>7. In(r, {"QUEUED"}) = In(s, {"QUEUED"}) \ {t} /\ Promised(r) = Promised(s)
    BY <1>2 DEF In, Promised
  <1>8. Queued(r, X \ {t})
    <2>1. t \notin Promised(s)
      BY <1>0 DEF Queued, In
    <2>2. (In(r, {"QUEUED"}) \ Promised(r)) \ (X \ {t}) = (In(s, {"QUEUED"}) \ Promised(s)) \ X
      BY <1>7 DEF In
    <2> QED
      BY <1>0, <1>2, <1>7, <2>1, <2>2 DEF Queued
  <1>9. Promising(r)
    BY <1>0, <1>2, <1>3 DEF Promising
  <1>10. NoContext(r, C \ {c})
    <2> SUFFICES ASSUME NEW u \in ToSet(r.runQueue), NEW d \in mask[u], d \notin C \ {c}
                 PROVE  r.curThread[d] \in Threads /\ r.thState[r.curThread[d]] = "RUNNING"
      BY DEF NoContext, In
    <2>1. u \in ToSet(s.runQueue) /\ u \in Threads /\ d \in Contexts
      BY <1>0, <1>2, QueueTypes, Given
    <2>2. CASE d = c
      BY <1>2, <2>1, <2>2
    <2>3. CASE d # c
      BY <1>0, <1>2, <1>3, <2>1, <2>3 DEF NoContext, In
    <2> QED
      BY <2>2, <2>3
  <1>11. FakedOnce(r)
    BY <1>0, <1>2 DEF FakedOnce
  <1> QED
    BY <1>1, <1>2, <1>4, <1>5, <1>6, <1>8, <1>9, <1>10, <1>11 DEF Core

\* wakeup() of a thread that has a context.
LEMMA WakeupCore ==
    ASSUME NEW s, NEW C, NEW X, Core(s, C, X), NEW t \in Threads, s.thState[t] = "RUNNING"
    PROVE  Core(wakeup(s, t), C, X)
  <1>0. /\ s \in SchedType /\ Used(s) /\ Free(s, C) /\ Out(s) /\ Asleep(s)
        /\ Queued(s, X) /\ Promising(s) /\ NoContext(s, C) /\ FakedOnce(s)
    BY DEF Core
  <1>1. PICK r : r = wakeup(s, t)
    OBVIOUS
  <1>2. /\ r \in SchedType
        /\ \A u \in Threads : r.futex[u] = (IF u = t THEN 0 ELSE s.futex[u])
        /\ r.thState = s.thState /\ r.cid = s.cid /\ r.curThread = s.curThread
        /\ r.handoff = s.handoff /\ r.wakeIn = s.wakeIn
        /\ r.freeList = s.freeList /\ r.runQueue = s.runQueue /\ r.outQueue = s.outQueue
        /\ r.sleepQueue = s.sleepQueue /\ r.fakeLeaves = s.fakeLeaves
    BY <1>0, <1>1 DEF wakeup, SchedType
  <1>3. Used(r) /\ Free(r, C) /\ Promising(r) /\ FakedOnce(r)
    BY <1>0, <1>2 DEF Used, Free, Promising, FakedOnce
  <1>4. Out(r) /\ Asleep(r) /\ NoContext(r, C)
    BY <1>0, <1>2 DEF Out, Asleep, In, NoContext
  <1>5. In(r, {"QUEUED"}) = In(s, {"QUEUED"}) /\ Promised(r) = Promised(s)
    BY <1>2 DEF In, Promised
  <1>6. Queued(r, X)
    BY <1>0, <1>2, <1>5 DEF Queued, In
  <1> QED
    BY <1>1, <1>2, <1>3, <1>4, <1>6 DEF Core

\* leave(): a queued thread gets the context that was vacated.
LEMMA GiveCore ==
    ASSUME NEW s, NEW c \in Contexts, NEW X, Core(s, {c}, X), NEW t \in ThreadFor(s, c)
    PROVE  /\ Core(GiveContext(s, t, c), {}, X)
           /\ t \in ToSet(s.runQueue) /\ t \in Threads /\ c \in mask[t]
  <1>0. /\ s \in SchedType /\ Used(s) /\ Free(s, {c}) /\ Out(s) /\ Asleep(s)
        /\ Queued(s, X) /\ Promising(s) /\ NoContext(s, {c}) /\ FakedOnce(s)
    BY DEF Core
  <1>1. s.runQueue \in Seq(Threads) /\ IsInjective(s.runQueue)
    BY <1>0 DEF SchedType, Queued, Holds
  <1>2. t \in Threads /\ t \in ToSet(s.runQueue) /\ c \in mask[t]
    <2>1. PICK S : S = {u \in Threads : c \in mask[u]}
      OBVIOUS
    <2>2. t \in FirstIn(s.runQueue, S)
      BY <2>1 DEF ThreadFor
    <2>3. t \in Threads /\ t \in ToSet(s.runQueue) /\ t \in S
      BY <1>1, <2>2, FirstInFacts
    <2> QED
      BY <2>1, <2>3
  <1>3. PICK q : q = Without(s.runQueue, {t})
    OBVIOUS
  <1>4. q \in Seq(Threads) /\ IsInjective(q) /\ ToSet(q) = ToSet(s.runQueue) \ {t}
    BY <1>1, <1>3, WithoutFacts
  <1>5. PICK r : r = [s EXCEPT !.runQueue = Without(@, {t})]
    OBVIOUS
  <1>6. /\ r \in SchedType /\ r.runQueue = q
        /\ r.thState = s.thState /\ r.cid = s.cid /\ r.curThread = s.curThread
        /\ r.handoff = s.handoff /\ r.wakeIn = s.wakeIn /\ r.futex = s.futex
        /\ r.freeList = s.freeList /\ r.outQueue = s.outQueue
        /\ r.sleepQueue = s.sleepQueue /\ r.fakeLeaves = s.fakeLeaves
    BY <1>0, <1>3, <1>4, <1>5 DEF SchedType
  <1>7. s.thState[t] = "QUEUED" /\ t \notin Promised(s) /\ t \notin X
    BY <1>0, <1>2 DEF Queued, Holds, In
  <1>8. Core(r, {c}, X \cup {t})
    <2>1. Used(r) /\ Free(r, {c}) /\ Promising(r) /\ FakedOnce(r)
      BY <1>0, <1>6 DEF Used, Free, Promising, FakedOnce
    <2>2. Out(r) /\ Asleep(r)
      BY <1>0, <1>6 DEF Out, Asleep, In
    <2>3. NoContext(r, {c})
      BY <1>0, <1>4, <1>6 DEF NoContext, In
    <2>4. In(r, {"QUEUED"}) = In(s, {"QUEUED"}) /\ Promised(r) = Promised(s)
      BY <1>6 DEF In, Promised
    <2>5. ToSet(q) = (In(s, {"QUEUED"}) \ Promised(s)) \ (X \cup {t})
      BY <1>0, <1>4 DEF Queued, Holds
    <2>6. Queued(r, X \cup {t})
      BY <1>0, <1>4, <1>6, <1>7, <2>4, <2>5 DEF Queued, Holds
    <2> QED
      BY <1>6, <2>1, <2>2, <2>3, <2>6 DEF Core
  <1>9. PICK a : a = schedule(r, t, c)
    OBVIOUS
  <1>10. Core(a, {c} \ {c}, (X \cup {t}) \ {t})
    BY <1>2, <1>6, <1>7, <1>8, <1>9, ScheduleCore
  <1>11. {c} \ {c} = {} /\ (X \cup {t}) \ {t} = X
    BY <1>7
  <1>12. Core(a, {}, X)
    BY <1>10, <1>11
  <1>13. a.thState[t] = "RUNNING"
    BY <1>2, <1>6, <1>9 DEF schedule, SchedType
  <1>14. GiveContext(s, t, c) = wakeup(a, t)
    BY <1>5, <1>9 DEF GiveContext
  <1> QED
    BY <1>2, <1>12, <1>13, <1>14, WakeupCore

\* What schedThread() does to the thread whose context it takes.
LEMMA TakeCore ==
    ASSUME NEW s, NEW X, Core(s, {}, X), NEW t \in Threads, NEW c \in ContextFor(s, t)
    PROVE  /\ Core(TakeContext(s, c), {c}, X) /\ c \in Contexts /\ c \in mask[t]
           /\ \A u \in Threads : \/ TakeContext(s, c).thState[u] = s.thState[u]
                                 \/ s.thState[u] = "OUT" /\ TakeContext(s, c).thState[u] = "BLOCKED"
           /\ TakeContext(s, c).cid = s.cid /\ TakeContext(s, c).handoff = s.handoff
           /\ TakeContext(s, c).futex = s.futex /\ TakeContext(s, c).wakeIn = s.wakeIn
           /\ TakeContext(s, c).fakeLeaves = s.fakeLeaves
           /\ ~ \E u \in In(s, {"RUNNING"}) : s.cid[u] = c
  <1>0. /\ s \in SchedType /\ Used(s) /\ Free(s, {}) /\ Out(s) /\ Asleep(s)
        /\ Queued(s, X) /\ Promising(s) /\ NoContext(s, {}) /\ FakedOnce(s)
    BY DEF Core
  <1>1. /\ s.freeList \in Seq(Contexts) /\ IsInjective(s.freeList)
        /\ s.outQueue \in Seq(Threads) /\ IsInjective(s.outQueue)
    BY <1>0 DEF SchedType, Free, Out, Holds
  <1>2. /\ c \in Contexts /\ c \in mask[t]
        /\ s.curThread[c] = NoThread \/ s.curThread[c] \in In(s, {"OUT"})
    <2>1. PICK out : out = FirstIn(s.outQueue, {o \in Threads : s.cid[o] \in mask[t]})
      OBVIOUS
    <2>2. \/ c = s.cid[t] /\ s.curThread[c] = NoThread /\ c \in mask[t]
          \/ c \in FirstIn(s.freeList, mask[t])
          \/ c \in {s.cid[o] : o \in out}
      BY <2>1 DEF ContextFor
    <2>3. CASE c = s.cid[t] /\ s.curThread[c] = NoThread /\ c \in mask[t]
      BY <2>3, Given
    <2>4. CASE c \in FirstIn(s.freeList, mask[t])
      <3>1. c \in ToSet(s.freeList) /\ c \in mask[t]
        BY <2>4, <1>1, FirstInFacts
      <3> QED
        BY <3>1, <1>0, Given DEF Free, Holds
    <2>5. CASE c \in {s.cid[o] : o \in out}
      <3>1. PICK o \in out : c = s.cid[o]
        BY <2>5
      <3>2. PICK S : S = {v \in Threads : s.cid[v] \in mask[t]}
        OBVIOUS
      <3>3. o \in ToSet(s.outQueue) /\ o \in S
        BY <2>1, <3>1, <3>2, <1>1, FirstInFacts
      <3>4. o \in Threads /\ o \in In(s, {"OUT"}) /\ c \in mask[t]
        BY <3>1, <3>2, <3>3, <1>0 DEF Out, Holds
      <3> QED
        BY <3>1, <3>4, <1>0, Given DEF Used, In
    <2> QED
      BY <2>2, <2>3, <2>4, <2>5
  <1>3. PICK r : r = TakeContext(s, c)
    OBVIOUS
  <1>4. PICK o : o = s.curThread[c]
    OBVIOUS
  <1>5. CASE o = NoThread
    <2>1. PICK q : q = Without(s.freeList, {c})
      OBVIOUS
    <2>2. q \in Seq(Contexts) /\ IsInjective(q) /\ ToSet(q) = ToSet(s.freeList) \ {c}
      BY <1>1, <2>1, WithoutFacts
    <2>3. /\ r \in SchedType /\ r.freeList = q
          /\ r.thState = s.thState /\ r.cid = s.cid /\ r.curThread = s.curThread
          /\ r.handoff = s.handoff /\ r.wakeIn = s.wakeIn /\ r.futex = s.futex
          /\ r.runQueue = s.runQueue /\ r.outQueue = s.outQueue
          /\ r.sleepQueue = s.sleepQueue /\ r.fakeLeaves = s.fakeLeaves
      BY <1>0, <1>3, <1>4, <1>5, <2>1, <2>2 DEF SchedType, TakeContext
    <2>4. Used(r) /\ Promising(r) /\ FakedOnce(r) /\ Out(r) /\ Asleep(r) /\ NoContext(r, {c})
      BY <1>0, <2>3 DEF Used, Promising, FakedOnce, Out, Asleep, In, NoContext
    <2>5. Free(r, {c})
      BY <1>0, <1>4, <1>5, <2>2, <2>3 DEF Free, Holds
    <2>6. In(r, {"QUEUED"}) = In(s, {"QUEUED"}) /\ Promised(r) = Promised(s)
      BY <2>3 DEF In, Promised
    <2>7. Queued(r, X)
      BY <1>0, <2>3, <2>6 DEF Queued
    <2>8. Core(r, {c}, X)
      BY <2>3, <2>4, <2>5, <2>7 DEF Core
    <2>9. ~ \E u \in In(s, {"RUNNING"}) : s.cid[u] = c
      <3>1. ASSUME NEW u \in Threads, s.thState[u] = "RUNNING", s.cid[u] = c PROVE s.curThread[c] = u
        BY <1>0, <1>2, <3>1 DEF Used
      <3> QED
        BY <3>1, <1>4, <1>5, Given DEF In
    <2> QED
      BY <1>2, <1>3, <2>3, <2>8, <2>9
  <1>6. CASE o # NoThread
    <2>0. o \in Threads /\ s.thState[o] = "OUT" /\ s.cid[o] = c
      BY <1>0, <1>2, <1>4, <1>6 DEF In, Used
    <2>1. PICK q : q = Without(s.outQueue, {o})
      OBVIOUS
    <2>2. q \in Seq(Threads) /\ IsInjective(q) /\ ToSet(q) = ToSet(s.outQueue) \ {o}
      BY <1>1, <2>1, WithoutFacts
    <2>3. /\ r \in SchedType /\ r.outQueue = q
          /\ \A u \in Threads : r.thState[u] = (IF u = o THEN "BLOCKED" ELSE s.thState[u])
          /\ \A d \in Contexts : r.curThread[d] = (IF d = c THEN NoThread ELSE s.curThread[d])
          /\ r.cid = s.cid
          /\ r.handoff = s.handoff /\ r.wakeIn = s.wakeIn /\ r.futex = s.futex
          /\ r.runQueue = s.runQueue /\ r.freeList = s.freeList
          /\ r.sleepQueue = s.sleepQueue /\ r.fakeLeaves = s.fakeLeaves
      <3>1. PICK a : a = [s EXCEPT !.outQueue = Without(@, {o})]
        OBVIOUS
      <3>2. /\ a \in SchedType /\ a.outQueue = q
            /\ a.thState = s.thState /\ a.cid = s.cid /\ a.curThread = s.curThread
            /\ a.handoff = s.handoff /\ a.wakeIn = s.wakeIn /\ a.futex = s.futex
            /\ a.runQueue = s.runQueue /\ a.freeList = s.freeList
            /\ a.sleepQueue = s.sleepQueue /\ a.fakeLeaves = s.fakeLeaves
        BY <1>0, <2>1, <2>2, <3>1 DEF SchedType
      <3>3. r = deschedule(a, o, "BLOCKED")
        BY <1>3, <1>4, <1>6, <3>1 DEF TakeContext
      <3> QED
        BY <2>0, <3>2, <3>3 DEF deschedule, SchedType, ThreadStates
    <2>4. Used(r)
      BY <1>0, <2>0, <2>3, <1>2, Given DEF Used
    <2>5. Free(r, {c})
      <3>1. {d \in Contexts : r.curThread[d] = NoThread} \ {c} = {d \in Contexts : s.curThread[d] = NoThread}
        BY <2>3, <1>4, <1>6
      <3> QED
        BY <1>0, <1>2, <2>3, <3>1 DEF Free, Holds
    <2>6. Out(r)
      <3>1. In(r, {"OUT"}) = In(s, {"OUT"}) \ {o}
        BY <2>3 DEF In
      <3> QED
        BY <1>0, <2>2, <2>3, <3>1 DEF Out, Holds
    <2>7. Asleep(r)
      BY <1>0, <2>0, <2>3 DEF Asleep, In
    <2>8. In(r, {"QUEUED"}) = In(s, {"QUEUED"}) /\ Promised(r) = Promised(s)
      BY <2>0, <2>3 DEF In, Promised
    <2>9. Queued(r, X)
      BY <1>0, <2>3, <2>8 DEF Queued
    <2>10. Promising(r) /\ FakedOnce(r)
      BY <1>0, <2>0, <2>3 DEF Promising, FakedOnce
    <2>11. NoContext(r, {c})
      <3> SUFFICES ASSUME NEW u \in ToSet(r.runQueue), NEW d \in mask[u], d # c
                   PROVE  r.curThread[d] \in Threads /\ r.thState[r.curThread[d]] = "RUNNING"
        BY DEF NoContext, In
      <3>1. u \in ToSet(s.runQueue) /\ u \in Threads /\ d \in Contexts
        BY <1>0, <2>3, QueueTypes, Given
      <3>2. s.curThread[d] \in Threads /\ s.thState[s.curThread[d]] = "RUNNING"
        BY <1>0, <3>1 DEF NoContext, In
      <3> QED
        BY <2>0, <2>3, <3>1, <3>2
    <2>12. Core(r, {c}, X)
      BY <2>3, <2>4, <2>5, <2>6, <2>7, <2>9, <2>10, <2>11 DEF Core
    <2>13. ~ \E u \in In(s, {"RUNNING"}) : s.cid[u] = c
      BY <1>0, <1>2, <2>0, <1>4 DEF Used, In
    <2> QED
      BY <1>2, <1>3, <2>0, <2>3, <2>12, <2>13
  <1> QED
    BY <1>5, <1>6

\* A thread t that needs a context, and what it and the others have once it got c.
Needs(s, X, t) ==
    /\ Core(s, {}, X) /\ s.thState[t] \in {"STARTED", "BLOCKED", "QUEUED"}
    /\ s.thState[t] = "QUEUED" => t \in X

Ran(s, r, X, t, c) ==
    /\ Core(r, {}, X \ {t}) /\ c \in Contexts
    /\ \A u \in Threads : u # t =>
         \/ r.thState[u] = s.thState[u]
         \/ s.thState[u] = "OUT" /\ r.thState[u] = "BLOCKED"
    /\ \A u \in Threads : u # t => r.cid[u] = s.cid[u]
    /\ r.thState[t] = "RUNNING" /\ r.cid[t] = c
    /\ r.handoff = s.handoff /\ r.futex = s.futex /\ r.wakeIn = s.wakeIn
    /\ r.fakeLeaves = s.fakeLeaves
    /\ ~ \E u \in In(s, {"RUNNING"}) : s.cid[u] = c

\* schedThread(), schedule(): a thread without a context gets one.
LEMMA RunCore ==
    ASSUME NEW s, NEW X, NEW t \in Threads, Needs(s, X, t), NEW c \in ContextFor(s, t),
           NEW r, r = schedule(TakeContext(s, c), t, c)
    PROVE  Ran(s, r, X, t, c)
  <1>0. /\ Core(s, {}, X) /\ s.thState[t] \in {"STARTED", "BLOCKED", "QUEUED"}
        /\ (s.thState[t] = "QUEUED" => t \in X)
    BY DEF Needs
  <1>1. PICK a : a = TakeContext(s, c)
    OBVIOUS
  <1>2. /\ Core(a, {c}, X) /\ c \in Contexts /\ c \in mask[t]
        /\ \A u \in Threads : \/ a.thState[u] = s.thState[u]
                              \/ s.thState[u] = "OUT" /\ a.thState[u] = "BLOCKED"
        /\ a.cid = s.cid /\ a.handoff = s.handoff /\ a.futex = s.futex /\ a.wakeIn = s.wakeIn
        /\ a.fakeLeaves = s.fakeLeaves
        /\ ~ \E u \in In(s, {"RUNNING"}) : s.cid[u] = c
    BY <1>0, <1>1, TakeCore
  <1>3. a.thState[t] = s.thState[t]
    BY <1>0, <1>2
  <1>4. Core(r, {c} \ {c}, X \ {t})
    BY <1>0, <1>1, <1>2, <1>3, ScheduleCore
  <1>5. {c} \ {c} = {}
    OBVIOUS
  <1>6. Core(r, {}, X \ {t})
    BY <1>4, <1>5
  <1>7. a \in SchedType
    BY <1>2 DEF Core
  <1>8. /\ \A u \in Threads : r.thState[u] = (IF u = t THEN "RUNNING" ELSE a.thState[u])
        /\ \A u \in Threads : r.cid[u] = (IF u = t THEN c ELSE a.cid[u])
        /\ r.handoff = a.handoff /\ r.futex = a.futex /\ r.wakeIn = a.wakeIn
        /\ r.fakeLeaves = a.fakeLeaves
    BY <1>1, <1>7, <1>2 DEF schedule, SchedType
  <1> QED
    BY <1>2, <1>6, <1>8 DEF Ran

\* waitForContext(): a thread that no context can be found for is queued.
Enqueued(s, t) == [s EXCEPT !.thState[t] = "QUEUED", !.futex[t] = 1, !.runQueue = Append(@, t)]

\* It is in the run queue then, with its futex word armed.
LEMMA EnqueueCore ==
    ASSUME NEW s, NEW X, Core(s, {}, X), NEW t \in Threads, ContextFor(s, t) = {},
           s.thState[t] \in {"STARTED", "BLOCKED", "QUEUED"},
           s.thState[t] = "QUEUED" => t \in X,
           NEW r, r = Enqueued(s, t)
    PROVE  /\ Core(r, {}, X \ {t})
           /\ \A u \in Threads : r.thState[u] = (IF u = t THEN "QUEUED" ELSE s.thState[u])
           /\ \A u \in Threads : r.futex[u] = (IF u = t THEN 1 ELSE s.futex[u])
           /\ r.cid = s.cid /\ r.handoff = s.handoff /\ r.wakeIn = s.wakeIn
           /\ r.fakeLeaves = s.fakeLeaves
  <1>0. /\ s \in SchedType /\ Used(s) /\ Free(s, {}) /\ Out(s) /\ Asleep(s)
        /\ Queued(s, X) /\ Promising(s) /\ NoContext(s, {}) /\ FakedOnce(s)
    BY DEF Core
  <1>1. s.runQueue \in Seq(Threads) /\ IsInjective(s.runQueue) /\ t \notin ToSet(s.runQueue)
        /\ t \notin Promised(s)
    BY <1>0 DEF SchedType, Queued, Holds, In
  <1>2. PICK q : q = Append(s.runQueue, t)
    OBVIOUS
  <1>3. q \in Seq(Threads) /\ IsInjective(q) /\ ToSet(q) = ToSet(s.runQueue) \cup {t}
    BY <1>1, <1>2, AppendFacts
  <1>4. /\ r \in SchedType /\ r.runQueue = q
        /\ \A u \in Threads : r.thState[u] = (IF u = t THEN "QUEUED" ELSE s.thState[u])
        /\ \A u \in Threads : r.futex[u] = (IF u = t THEN 1 ELSE s.futex[u])
        /\ r.cid = s.cid /\ r.curThread = s.curThread
        /\ r.handoff = s.handoff /\ r.wakeIn = s.wakeIn
        /\ r.freeList = s.freeList /\ r.outQueue = s.outQueue
        /\ r.sleepQueue = s.sleepQueue /\ r.fakeLeaves = s.fakeLeaves
    BY <1>0, <1>2, <1>3 DEF SchedType, ThreadStates, Enqueued
  <1>5. Used(r) /\ Free(r, {}) /\ FakedOnce(r)
    BY <1>0, <1>4 DEF Used, Free, FakedOnce
  <1>6. Out(r) /\ Asleep(r)
    <2>1. In(r, {"OUT"}) = In(s, {"OUT"}) /\ In(r, {"SLEEPING"}) = In(s, {"SLEEPING"})
      BY <1>4 DEF In
    <2>2. \A u \in In(s, {"SLEEPING"}) : r.futex[u] = s.futex[u]
      BY <1>4 DEF In
    <2> QED
      BY <1>0, <1>4, <2>1, <2>2 DEF Out, Asleep
  <1>7. Promising(r)
    BY <1>0, <1>4 DEF Promising
  <1>8. Queued(r, X \ {t})
    <2>1. In(r, {"QUEUED"}) = In(s, {"QUEUED"}) \cup {t} /\ Promised(r) = Promised(s)
      BY <1>4 DEF In, Promised
    <2>2. (In(r, {"QUEUED"}) \ Promised(r)) \ (X \ {t}) = ToSet(q)
      BY <1>0, <1>1, <1>3, <2>1 DEF Queued, Holds, In
    <2> QED
      BY <1>0, <1>1, <1>3, <1>4, <2>1, <2>2 DEF Queued, Holds, In
  <1>9. ASSUME NEW c \in mask[t] PROVE s.curThread[c] \in Threads /\ s.thState[s.curThread[c]] = "RUNNING"
    <2>0. c \in Contexts
      BY Given
    <2>1. PICK S : S = {o \in Threads : s.cid[o] \in mask[t]}
      OBVIOUS
    <2>2. FirstIn(s.freeList, mask[t]) = {} /\ FirstIn(s.outQueue, S) = {}
      <3>1. PICK F, O : F = FirstIn(s.freeList, mask[t]) /\ O = FirstIn(s.outQueue, S)
        OBVIOUS
      <3>2. ContextFor(s, t) = IF s.curThread[s.cid[t]] = NoThread /\ s.cid[t] \in mask[t] THEN {s.cid[t]}
                               ELSE IF F # {} THEN F ELSE {s.cid[o] : o \in O}
        BY <2>1, <3>1 DEF ContextFor
      <3>3. F = {} /\ {s.cid[o] : o \in O} = {}
        BY <3>2
      <3>4. O = {}
        BY <3>3
      <3> QED
        BY <3>1, <3>3, <3>4
    <2>3. s.freeList \in Seq(Contexts) /\ s.outQueue \in Seq(Threads)
      BY <1>0 DEF SchedType
    <2>4. c \notin ToSet(s.freeList) /\ \A o \in ToSet(s.outQueue) : o \notin S
      <3>1. \A x \in ToSet(s.freeList) : x \notin mask[t]
        BY <2>2, <2>3, FirstInFacts
      <3>2. \A o \in ToSet(s.outQueue) : o \notin S
        <4>1. PICK z \in Seq(Threads) : z = s.outQueue
          BY <2>3
        <4>2. FirstIn(z, S) = {}
          BY <2>2, <4>1
        <4> QED
          BY <4>1, <4>2, FirstInFacts
      <3> QED
        BY <3>1, <3>2
    <2>5. s.curThread[c] # NoThread
      BY <2>0, <2>4, <1>0 DEF Free, Holds
    <2>6. PICK o \in Threads : o = s.curThread[c]
      BY <2>0, <2>5, <1>0 DEF SchedType
    <2>7. s.thState[o] \in {"RUNNING", "OUT"} /\ s.cid[o] = c
      BY <2>0, <2>6, <1>0 DEF Used
    <2>8. s.thState[o] # "OUT"
      BY <2>1, <2>4, <2>6, <2>7, <1>0 DEF Out, Holds, In
    <2> QED
      BY <2>6, <2>7, <2>8
  <1>10. NoContext(r, {})
    <2> SUFFICES ASSUME NEW u \in ToSet(r.runQueue), NEW d \in mask[u]
                 PROVE  r.curThread[d] \in Threads /\ r.thState[r.curThread[d]] = "RUNNING"
      BY DEF NoContext, In
    <2>1. s.curThread[d] \in Threads /\ s.thState[s.curThread[d]] = "RUNNING"
      BY <1>0, <1>3, <1>4, <1>9 DEF NoContext, In
    <2> QED
      BY <1>4, <2>1
  <1> QED
    BY <1>4, <1>5, <1>6, <1>7, <1>8, <1>10 DEF Core

\* deschedule() of a running thread, for a state without a queue.
LEMMA VacateCore ==
    ASSUME NEW s, NEW X, Core(s, {}, X), NEW t \in Threads, s.thState[t] = "RUNNING",
           s.handoff[t] = NoThread, NEW target \in {"BLOCKED", "QUEUED"},
           NEW r, r = deschedule(s, t, target),
           NEW Y, target = "QUEUED" => Y = X \cup {t}, target = "BLOCKED" => Y = X
    PROVE  /\ Core(r, {s.cid[t]}, Y)
           /\ \A u \in Threads : r.thState[u] = (IF u = t THEN target ELSE s.thState[u])
           /\ r.cid = s.cid /\ r.handoff = s.handoff /\ r.wakeIn = s.wakeIn /\ r.futex = s.futex
           /\ r.fakeLeaves = s.fakeLeaves /\ r.runQueue = s.runQueue
  <1>0. /\ s \in SchedType /\ Used(s) /\ Free(s, {}) /\ Out(s) /\ Asleep(s)
        /\ Queued(s, X) /\ Promising(s) /\ NoContext(s, {}) /\ FakedOnce(s)
    BY DEF Core
  <1>1. PICK c \in Contexts : c = s.cid[t]
    BY <1>0 DEF SchedType
  <1>2. s.curThread[c] = t
    BY <1>0, <1>1 DEF Used
  <1>3. /\ r \in SchedType
        /\ \A u \in Threads : r.thState[u] = (IF u = t THEN target ELSE s.thState[u])
        /\ \A d \in Contexts : r.curThread[d] = (IF d = c THEN NoThread ELSE s.curThread[d])
        /\ r.cid = s.cid /\ r.handoff = s.handoff /\ r.wakeIn = s.wakeIn /\ r.futex = s.futex
        /\ r.freeList = s.freeList /\ r.runQueue = s.runQueue /\ r.outQueue = s.outQueue
        /\ r.sleepQueue = s.sleepQueue /\ r.fakeLeaves = s.fakeLeaves
    BY <1>0, <1>1 DEF deschedule, SchedType, ThreadStates
  <1>4. Used(r)
    BY <1>0, <1>1, <1>2, <1>3, Given DEF Used
  <1>5. Free(r, {c})
    <2>1. {d \in Contexts : r.curThread[d] = NoThread} \ {c} = {d \in Contexts : s.curThread[d] = NoThread}
      BY <1>2, <1>3, Given
    <2> QED
      BY <1>0, <1>3, <2>1 DEF Free, Holds
  <1>6. Out(r) /\ Asleep(r)
    BY <1>0, <1>3 DEF Out, Asleep, In
  <1>7. Promising(r) /\ FakedOnce(r)
    BY <1>0, <1>3 DEF Promising, FakedOnce
  <1>9. Queued(r, Y)
    <2>1. In(r, {"QUEUED"}) \ Y = In(s, {"QUEUED"}) \ X /\ Promised(r) = Promised(s)
      BY <1>3 DEF In, Promised
    <2>2. (In(r, {"QUEUED"}) \ Promised(r)) \ Y = (In(s, {"QUEUED"}) \ Promised(s)) \ X
      BY <2>1
    <2> QED
      BY <1>0, <1>3, <2>1, <2>2 DEF Queued
  <1>10. NoContext(r, {c})
    <2> SUFFICES ASSUME NEW u \in ToSet(r.runQueue), NEW d \in mask[u], d # c
                 PROVE  r.curThread[d] \in Threads /\ r.thState[r.curThread[d]] = "RUNNING"
      BY DEF NoContext, In
    <2>1. u \in ToSet(s.runQueue) /\ u \in Threads /\ d \in Contexts
      BY <1>0, <1>3, QueueTypes, Given
    <2>2. PICK v \in Threads : v = s.curThread[d] /\ s.thState[v] = "RUNNING"
      BY <1>0, <2>1 DEF NoContext, In
    <2>3. v # t
      BY <1>0, <1>1, <2>1, <2>2 DEF Used
    <2> QED
      BY <1>3, <2>1, <2>2, <2>3
  <1>11. Core(r, {c}, Y)
    BY <1>3, <1>4, <1>5, <1>6, <1>7, <1>9, <1>10 DEF Core
  <1> QED
    BY <1>1, <1>3, <1>11

\* leave() of a thread that goes to sleep, up to its entry in the sleep queue.
LEMMA SleepCore ==
    ASSUME NEW s, Core(s, {}, {}), NEW t \in Threads, s.thState[t] = "RUNNING",
           s.handoff[t] = NoThread, s.wakeIn[t] > 0, s.futex[t] = 1,
           NEW r, r = InsertSleeper(deschedule(s, t, "SLEEPING"), t)
    PROVE  /\ Core(r, {s.cid[t]}, {})
           /\ \A u \in Threads : r.thState[u] = (IF u = t THEN "SLEEPING" ELSE s.thState[u])
           /\ r.cid = s.cid /\ r.handoff = s.handoff /\ r.wakeIn = s.wakeIn /\ r.futex = s.futex
           /\ r.fakeLeaves = s.fakeLeaves /\ r.runQueue = s.runQueue
  <1>0. /\ s \in SchedType /\ Used(s) /\ Free(s, {}) /\ Out(s) /\ Asleep(s)
        /\ Queued(s, {}) /\ Promising(s) /\ NoContext(s, {}) /\ FakedOnce(s)
    BY DEF Core
  <1>1. PICK c \in Contexts : c = s.cid[t]
    BY <1>0 DEF SchedType
  <1>2. s.curThread[c] = t
    BY <1>0, <1>1 DEF Used
  <1>3. PICK q : q = s.sleepQueue
    OBVIOUS
  <1>4. PICK w \in [Threads -> 0..MaxSleep] : w = s.wakeIn
    BY <1>0 DEF SchedType
  <1>5. /\ q \in Seq(Threads) /\ IsInjective(q) /\ ToSet(q) = In(s, {"SLEEPING"})
        /\ \A i, j \in DOMAIN q : i < j => w[q[i]] <= w[q[j]]
    BY <1>0, <1>3, <1>4 DEF SchedType, Asleep, Holds
  <1>6. t \notin ToSet(q)
    BY <1>5 DEF In
  <1>7. PICK n : n = CHOOSE m \in 0..Len(q) : /\ \A i \in 1..m : w[q[i]] <= w[t]
                                              /\ m < Len(q) => w[q[m + 1]] > w[t]
    OBVIOUS
  <1>8. /\ n \in 0..Len(q) /\ \A i \in 1..n : w[q[i]] <= w[t]
        /\ n < Len(q) => w[q[n + 1]] > w[t]
    <2>1. w \in [Threads -> Nat] /\ w[t] \in Nat
      BY Given
    <2>2. \E m \in 0..Len(q) : /\ \A i \in 1..m : w[q[i]] <= w[t]
                               /\ m < Len(q) => w[q[m + 1]] > w[t]
      BY <1>5, <2>1, PlaceExists
    <2> QED
      BY <1>7, <2>2
  <1>9. PICK z : z = InsertAt(q, n + 1, t)
    OBVIOUS
  <1>10. /\ z \in Seq(Threads) /\ IsInjective(z) /\ ToSet(z) = ToSet(q) \cup {t}
         /\ DOMAIN z = 1..(Len(q) + 1)
         /\ \A i \in 1..(Len(q) + 1) :
              z[i] = IF i <= n THEN q[i] ELSE IF i = n + 1 THEN t ELSE q[i - 1]
    BY <1>5, <1>6, <1>8, <1>9, InsertFacts
  <1>11. /\ r \in SchedType /\ r.sleepQueue = z
         /\ \A u \in Threads : r.thState[u] = (IF u = t THEN "SLEEPING" ELSE s.thState[u])
         /\ \A d \in Contexts : r.curThread[d] = (IF d = c THEN NoThread ELSE s.curThread[d])
         /\ r.cid = s.cid /\ r.handoff = s.handoff /\ r.wakeIn = s.wakeIn /\ r.futex = s.futex
         /\ r.freeList = s.freeList /\ r.runQueue = s.runQueue /\ r.outQueue = s.outQueue
         /\ r.fakeLeaves = s.fakeLeaves
    <2>1. PICK a : a = deschedule(s, t, "SLEEPING")
      OBVIOUS
    <2>2. /\ a \in SchedType /\ a.sleepQueue = q
          /\ \A u \in Threads : a.thState[u] = (IF u = t THEN "SLEEPING" ELSE s.thState[u])
          /\ \A d \in Contexts : a.curThread[d] = (IF d = c THEN NoThread ELSE s.curThread[d])
          /\ a.cid = s.cid /\ a.handoff = s.handoff /\ a.wakeIn = w /\ a.futex = s.futex
          /\ a.freeList = s.freeList /\ a.runQueue = s.runQueue /\ a.outQueue = s.outQueue
          /\ a.fakeLeaves = s.fakeLeaves
      BY <1>0, <1>1, <1>3, <1>4, <2>1 DEF deschedule, SchedType, ThreadStates
    <2>3. r = [a EXCEPT !.sleepQueue = z]
      BY <1>7, <1>9, <2>1, <2>2 DEF InsertSleeper
    <2> QED
      BY <1>4, <1>10, <2>2, <2>3, ZenonT(60) DEF SchedType
  <1>12. Used(r)
    BY <1>0, <1>1, <1>2, <1>11, Given DEF Used
  <1>13. Free(r, {c})
    <2>1. {d \in Contexts : r.curThread[d] = NoThread} \ {c} = {d \in Contexts : s.curThread[d] = NoThread}
      BY <1>2, <1>11, Given
    <2> QED
      BY <1>0, <1>11, <2>1 DEF Free, Holds
  <1>14. Out(r)
    BY <1>0, <1>11 DEF Out, In
  <1>15. Asleep(r)
    <2>1. In(r, {"SLEEPING"}) = ToSet(z)
      BY <1>5, <1>10, <1>11 DEF In
    <2>2. PICK m \in Nat : m = Len(q) /\ DOMAIN q = 1..m
      BY <1>5
    <2>3. ASSUME NEW i \in 1..(m + 1), NEW j \in 1..(m + 1), i < j PROVE w[z[i]] <= w[z[j]]
      <3>0. n \in Nat /\ n <= m /\ \A k \in 1..m : w[q[k]] \in Nat
        BY <1>5, <1>8, <2>2, Given
      <3>1. CASE j <= n
        <4>1. z[i] = q[i] /\ z[j] = q[j] /\ i \in DOMAIN q /\ j \in DOMAIN q
          BY <2>2, <2>3, <3>0, <3>1, <1>10
        <4> QED
          BY <4>1, <2>3, <1>5
      <3>2. CASE j = n + 1
        <4>1. z[j] = t /\ i \in 1..n /\ z[i] = q[i]
          BY <2>2, <2>3, <3>0, <3>2, <1>10
        <4> QED
          BY <4>1, <1>8
      <3>3. CASE j > n + 1 /\ i = n + 1
        <4>1. z[i] = t /\ z[j] = q[j - 1] /\ n + 1 \in 1..m /\ j - 1 \in 1..m /\ j - 1 >= n + 1
          BY <2>2, <2>3, <3>0, <3>3, <1>10
        <4>2. w[q[n + 1]] > w[t] /\ w[q[n + 1]] <= w[q[j - 1]]
          <5>1. w[q[n + 1]] > w[t]
            BY <4>1, <3>0, <2>2, <1>8
          <5>2. CASE j - 1 = n + 1
            BY <4>1, <5>1, <5>2, <3>0
          <5>3. CASE j - 1 # n + 1
            <6>1. n + 1 < j - 1 /\ n + 1 \in DOMAIN q /\ j - 1 \in DOMAIN q
              BY <4>1, <5>3, <3>0, <2>2
            <6> QED
              BY <6>1, <5>1, <1>5
          <5> QED
            BY <5>2, <5>3
        <4> QED
          BY <4>1, <4>2, <3>0, Given
      <3>4. CASE j > n + 1 /\ i # n + 1
        <4>1. PICK k \in 1..m : z[i] = q[k] /\ k = IF i <= n THEN i ELSE i - 1
          BY <2>2, <2>3, <3>0, <3>4, <1>10, SMTT(30)
        <4>2. z[j] = q[j - 1] /\ j - 1 \in 1..m /\ k < j - 1
          BY <2>2, <2>3, <3>0, <3>4, <4>1, <1>10
        <4> QED
          BY <4>1, <4>2, <2>2, <1>5
      <3> QED
        BY <3>0, <3>1, <3>2, <3>3, <3>4
    <2>4. \A u \in In(r, {"SLEEPING"}) : r.wakeIn[u] > 0 /\ r.futex[u] = 1
      BY <1>0, <1>11 DEF Asleep, In
    <2> QED
      BY <1>4, <1>10, <1>11, <2>1, <2>2, <2>3, <2>4 DEF Asleep, Holds
  <1>16. Promising(r) /\ FakedOnce(r)
    BY <1>0, <1>11 DEF Promising, FakedOnce
  <1>17. Queued(r, {})
    <2>1. In(r, {"QUEUED"}) = In(s, {"QUEUED"}) /\ Promised(r) = Promised(s)
      BY <1>11 DEF In, Promised
    <2> QED
      BY <1>0, <1>11, <2>1 DEF Queued
  <1>18. NoContext(r, {c})
    <2> SUFFICES ASSUME NEW u \in ToSet(r.runQueue), NEW d \in mask[u], d # c
                 PROVE  r.curThread[d] \in Threads /\ r.thState[r.curThread[d]] = "RUNNING"
      BY DEF NoContext, In
    <2>1. u \in ToSet(s.runQueue) /\ u \in Threads /\ d \in Contexts
      BY <1>0, <1>11, QueueTypes, Given
    <2>2. PICK v \in Threads : v = s.curThread[d] /\ s.thState[v] = "RUNNING"
      BY <1>0, <2>1 DEF NoContext, In
    <2>3. v # t
      BY <1>0, <1>1, <2>1, <2>2 DEF Used
    <2> QED
      BY <1>11, <2>1, <2>2, <2>3
  <1>19. Core(r, {c}, {})
    BY <1>11, <1>12, <1>13, <1>14, <1>15, <1>16, <1>17, <1>18 DEF Core
  <1> QED
    BY <1>1, <1>11, <1>19

\* Nobody who is queued may run on c, according to schedContext().
LEMMA NobodyFor ==
    ASSUME NEW s \in SchedType, NEW c, ThreadFor(s, c) = {}
    PROVE  \A u \in ToSet(s.runQueue) : c \notin mask[u]
  <1>1. PICK S : S = {u \in Threads : c \in mask[u]}
    OBVIOUS
  <1>2. FirstIn(s.runQueue, S) = {} /\ s.runQueue \in Seq(Threads)
    BY <1>1 DEF ThreadFor, SchedType
  <1>3. \A u \in ToSet(s.runQueue) : u \notin S
    BY <1>2, FirstInFacts
  <1> QED
    BY <1>1, <1>3, QueueTypes

\* A context that nobody wants goes to the free list.
LEMMA FreeCore ==
    ASSUME NEW s, NEW c \in Contexts, Core(s, {c}, {}),
           \A u \in ToSet(s.runQueue) : c \notin mask[u],
           NEW r, r = [s EXCEPT !.freeList = Append(@, c)]
    PROVE  /\ Core(r, {}, {})
           /\ r.thState = s.thState /\ r.cid = s.cid /\ r.handoff = s.handoff
           /\ r.wakeIn = s.wakeIn /\ r.futex = s.futex /\ r.fakeLeaves = s.fakeLeaves
  <1>0. /\ s \in SchedType /\ Used(s) /\ Free(s, {c}) /\ Out(s) /\ Asleep(s)
        /\ Queued(s, {}) /\ Promising(s) /\ NoContext(s, {c}) /\ FakedOnce(s)
    BY DEF Core
  <1>1. s.freeList \in Seq(Contexts) /\ IsInjective(s.freeList) /\ c \notin ToSet(s.freeList)
    BY <1>0 DEF SchedType, Free, Holds
  <1>2. PICK q : q = Append(s.freeList, c)
    OBVIOUS
  <1>3. q \in Seq(Contexts) /\ IsInjective(q) /\ ToSet(q) = ToSet(s.freeList) \cup {c}
    BY <1>1, <1>2, AppendFacts
  <1>4. /\ r \in SchedType /\ r.freeList = q
        /\ r.thState = s.thState /\ r.cid = s.cid /\ r.curThread = s.curThread
        /\ r.handoff = s.handoff /\ r.wakeIn = s.wakeIn /\ r.futex = s.futex
        /\ r.runQueue = s.runQueue /\ r.outQueue = s.outQueue
        /\ r.sleepQueue = s.sleepQueue /\ r.fakeLeaves = s.fakeLeaves
    BY <1>0, <1>2, <1>3 DEF SchedType
  <1>5. Used(r) /\ Promising(r) /\ FakedOnce(r) /\ Out(r) /\ Asleep(r)
    BY <1>0, <1>4 DEF Used, Promising, FakedOnce, Out, Asleep, In
  <1>6. Free(r, {})
    BY <1>0, <1>3, <1>4 DEF Free, Holds
  <1>7. NoContext(r, {})
    BY <1>0, <1>4 DEF NoContext, In
  <1>8. In(r, {"QUEUED"}) = In(s, {"QUEUED"}) /\ Promised(r) = Promised(s)
    BY <1>4 DEF In, Promised
  <1>9. Queued(r, {})
    BY <1>0, <1>4, <1>8 DEF Queued
  <1> QED
    BY <1>4, <1>5, <1>6, <1>7, <1>9 DEF Core

\* leave() otherwise: a thread that nobody replaces keeps its context.
LEMMA GoneOutCore ==
    ASSUME NEW s, Core(s, {}, {}), NEW t \in Threads, s.thState[t] = "RUNNING",
           s.handoff[t] = NoThread, ThreadFor(s, s.cid[t]) = {},
           NEW r, r = GoneOut(s, t)
    PROVE  /\ Core(r, {}, {})
           /\ \A u \in Threads : r.thState[u] = (IF u = t THEN "OUT" ELSE s.thState[u])
           /\ r.cid = s.cid /\ r.handoff = s.handoff /\ r.wakeIn = s.wakeIn /\ r.futex = s.futex
           /\ r.fakeLeaves = s.fakeLeaves
  <1>0. /\ s \in SchedType /\ Used(s) /\ Free(s, {}) /\ Out(s) /\ Asleep(s)
        /\ Queued(s, {}) /\ Promising(s) /\ NoContext(s, {}) /\ FakedOnce(s)
    BY DEF Core
  <1>1. PICK c \in Contexts : c = s.cid[t]
    BY <1>0 DEF SchedType
  <1>2. s.outQueue \in Seq(Threads) /\ IsInjective(s.outQueue) /\ t \notin ToSet(s.outQueue)
    BY <1>0 DEF SchedType, Out, Holds, In
  <1>3. PICK q : q = Append(s.outQueue, t)
    OBVIOUS
  <1>4. q \in Seq(Threads) /\ IsInjective(q) /\ ToSet(q) = ToSet(s.outQueue) \cup {t}
    BY <1>2, <1>3, AppendFacts
  <1>5. /\ r \in SchedType /\ r.outQueue = q
        /\ \A u \in Threads : r.thState[u] = (IF u = t THEN "OUT" ELSE s.thState[u])
        /\ r.cid = s.cid /\ r.curThread = s.curThread
        /\ r.handoff = s.handoff /\ r.wakeIn = s.wakeIn /\ r.futex = s.futex
        /\ r.freeList = s.freeList /\ r.runQueue = s.runQueue
        /\ r.sleepQueue = s.sleepQueue /\ r.fakeLeaves = s.fakeLeaves
    BY <1>0, <1>3, <1>4 DEF SchedType, ThreadStates, GoneOut
  <1>6. Used(r) /\ Free(r, {}) /\ FakedOnce(r)
    BY <1>0, <1>5 DEF Used, Free, FakedOnce
  <1>7. Out(r)
    <2>1. In(r, {"OUT"}) = In(s, {"OUT"}) \cup {t}
      BY <1>5 DEF In
    <2> QED
      BY <1>0, <1>4, <1>5, <2>1 DEF Out, Holds
  <1>8. Asleep(r) /\ Promising(r)
    <2>1. In(r, {"SLEEPING"}) = In(s, {"SLEEPING"})
      BY <1>5 DEF In
    <2>2. Asleep(r)
      BY <1>0, <1>5, <2>1 DEF Asleep
    <2> QED
      BY <1>0, <1>5, <2>2 DEF Promising
  <1>9. Queued(r, {})
    <2>1. In(r, {"QUEUED"}) = In(s, {"QUEUED"}) /\ Promised(r) = Promised(s)
      BY <1>5 DEF In, Promised
    <2> QED
      BY <1>0, <1>5, <2>1 DEF Queued
  <1>10. NoContext(r, {})
    <2> SUFFICES ASSUME NEW u \in ToSet(r.runQueue), NEW d \in mask[u]
                 PROVE  r.curThread[d] \in Threads /\ r.thState[r.curThread[d]] = "RUNNING"
      BY DEF NoContext, In
    <2>1. u \in ToSet(s.runQueue) /\ u \in Threads /\ d \in Contexts
      BY <1>0, <1>5, QueueTypes, Given
    <2>2. PICK v \in Threads : v = s.curThread[d] /\ s.thState[v] = "RUNNING"
      BY <1>0, <2>1 DEF NoContext, In
    <2>3. d # c
      BY <1>0, <1>1, <2>1, NobodyFor
    <2>4. v # t
      BY <1>0, <1>1, <2>1, <2>2, <2>3 DEF Used
    <2> QED
      BY <1>5, <2>2, <2>4
  <1> QED
    BY <1>5, <1>6, <1>7, <1>8, <1>9, <1>10 DEF Core

\* join() while the context is still ours.
Rejoined(s, t) == [s EXCEPT !.thState[t] = "RUNNING", !.outQueue = Without(@, {t})]

\* It leaves the outQueue and keeps its context.
LEMMA JoinOutCore ==
    ASSUME NEW s, Core(s, {}, {}), NEW t \in Threads, s.thState[t] = "OUT",
           NEW r, r = Rejoined(s, t)
    PROVE  /\ Core(r, {}, {})
           /\ \A u \in Threads : r.thState[u] = (IF u = t THEN "RUNNING" ELSE s.thState[u])
           /\ r.cid = s.cid /\ r.handoff = s.handoff /\ r.wakeIn = s.wakeIn /\ r.futex = s.futex
           /\ r.fakeLeaves = s.fakeLeaves
  <1>0. /\ s \in SchedType /\ Used(s) /\ Free(s, {}) /\ Out(s) /\ Asleep(s)
        /\ Queued(s, {}) /\ Promising(s) /\ NoContext(s, {}) /\ FakedOnce(s)
    BY DEF Core
  <1>2. s.outQueue \in Seq(Threads) /\ IsInjective(s.outQueue)
    BY <1>0 DEF SchedType, Out, Holds, In
  <1>3. PICK q : q = Without(s.outQueue, {t})
    OBVIOUS
  <1>4. q \in Seq(Threads) /\ IsInjective(q) /\ ToSet(q) = ToSet(s.outQueue) \ {t}
    BY <1>2, <1>3, WithoutFacts
  <1>5. /\ r \in SchedType /\ r.outQueue = q
        /\ \A u \in Threads : r.thState[u] = (IF u = t THEN "RUNNING" ELSE s.thState[u])
        /\ r.cid = s.cid /\ r.curThread = s.curThread
        /\ r.handoff = s.handoff /\ r.wakeIn = s.wakeIn /\ r.futex = s.futex
        /\ r.freeList = s.freeList /\ r.runQueue = s.runQueue
        /\ r.sleepQueue = s.sleepQueue /\ r.fakeLeaves = s.fakeLeaves
    BY <1>0, <1>3, <1>4 DEF SchedType, ThreadStates, Rejoined
  <1>6. Used(r) /\ Free(r, {}) /\ FakedOnce(r)
    BY <1>0, <1>5 DEF Used, Free, FakedOnce
  <1>7. Out(r)
    <2>1. In(r, {"OUT"}) = In(s, {"OUT"}) \ {t}
      BY <1>5 DEF In
    <2> QED
      BY <1>0, <1>4, <1>5, <2>1 DEF Out, Holds
  <1>8. Asleep(r) /\ Promising(r)
    <2>1. In(r, {"SLEEPING"}) = In(s, {"SLEEPING"})
      BY <1>5 DEF In
    <2>2. Asleep(r)
      BY <1>0, <1>5, <2>1 DEF Asleep
    <2> QED
      BY <1>0, <1>5, <2>2 DEF Promising
  <1>9. Queued(r, {})
    <2>1. In(r, {"QUEUED"}) = In(s, {"QUEUED"}) /\ Promised(r) = Promised(s)
      BY <1>5 DEF In, Promised
    <2> QED
      BY <1>0, <1>5, <2>1 DEF Queued
  <1>10. NoContext(r, {})
    BY <1>0, <1>5 DEF NoContext, In
  <1> QED
    BY <1>5, <1>6, <1>7, <1>8, <1>9, <1>10 DEF Core

\* The thread t is taken out of the sleep queue.
Awoken(s, r, t) ==
    /\ s.thState[t] \in {"SLEEPING", "BLOCKED", "STARTED"} /\ r.thState[t] \in {"BLOCKED", "STARTED"}
    /\ r.sleepQueue = Without(s.sleepQueue, {t})
    /\ \A u \in Threads : u # t => r.thState[u] = s.thState[u] /\ r.wakeIn[u] = s.wakeIn[u]
    /\ r.cid = s.cid /\ r.curThread = s.curThread /\ r.handoff = s.handoff /\ r.futex = s.futex
    /\ r.freeList = s.freeList /\ r.runQueue = s.runQueue /\ r.outQueue = s.outQueue
    /\ r.fakeLeaves = s.fakeLeaves

\* A sleep that is ended before its deadline.
LEMMA EndSleepCore ==
    ASSUME NEW s, Core(s, {}, {}), NEW t \in Threads, NEW r \in SchedType, Awoken(s, r, t)
    PROVE  Core(r, {}, {})
  <1>0. /\ s \in SchedType /\ Used(s) /\ Free(s, {}) /\ Out(s) /\ Asleep(s)
        /\ Queued(s, {}) /\ Promising(s) /\ NoContext(s, {}) /\ FakedOnce(s)
    BY DEF Core
  <1>1. PICK q : q = s.sleepQueue
    OBVIOUS
  <1>2. q \in Seq(Threads) /\ IsInjective(q) /\ ToSet(q) = In(s, {"SLEEPING"})
    BY <1>0, <1>1 DEF SchedType, Asleep, Holds
  <1>3. PICK z : z = Without(q, {t})
    OBVIOUS
  <1>4. z \in Seq(Threads) /\ IsInjective(z) /\ ToSet(z) = ToSet(q) \ {t} /\ KeepsOrder(z, q)
    BY <1>2, <1>3, WithoutFacts
  <1> USE DEF Awoken
  <1>6. Used(r) /\ Free(r, {}) /\ FakedOnce(r)
    BY <1>0 DEF Used, Free, FakedOnce
  <1>7. Out(r) /\ Promising(r)
    BY <1>0 DEF Out, In, Promising
  <1>8. Asleep(r)
    <2>1. In(r, {"SLEEPING"}) = ToSet(z)
      BY <1>2, <1>4 DEF In
    <2>2. ASSUME NEW i \in DOMAIN z, NEW j \in DOMAIN z, i < j PROVE r.wakeIn[z[i]] <= r.wakeIn[z[j]]
      <3>1. PICK k \in DOMAIN q, l \in DOMAIN q : k < l /\ z[i] = q[k] /\ z[j] = q[l]
        BY <2>2, <1>4 DEF KeepsOrder
      <3>2. s.wakeIn[q[k]] <= s.wakeIn[q[l]]
        BY <3>1, <1>0, <1>1 DEF Asleep
      <3>3. z[i] \in Threads /\ z[i] # t /\ z[j] \in Threads /\ z[j] # t
        BY <1>4 DEF ToSet
      <3> QED
        BY <3>1, <3>2, <3>3
    <2>3. \A u \in In(r, {"SLEEPING"}) : r.wakeIn[u] > 0 /\ r.futex[u] = 1
      BY <1>0 DEF Asleep, In
    <2> QED
      BY <1>1, <1>3, <1>4, <2>1, <2>2, <2>3 DEF Asleep, Holds
  <1>9. Queued(r, {})
    <2>1. In(r, {"QUEUED"}) = In(s, {"QUEUED"}) /\ Promised(r) = Promised(s)
      BY DEF In, Promised
    <2> QED
      BY <1>0, <2>1 DEF Queued
  <1>10. NoContext(r, {})
    BY <1>0 DEF NoContext, In
  <1> QED
    BY <1>6, <1>7, <1>8, <1>9, <1>10 DEF Core

\* finish() of a thread that still has a context.
LEMMA FinishOutCore ==
    ASSUME NEW s, Core(s, {}, {}), NEW t \in Threads, s.thState[t] = "OUT",
           NEW r, r = finish(s, t)
    PROVE  /\ Core(r, {}, {})
           /\ \A u \in Threads : r.thState[u] = (IF u = t THEN "NONE" ELSE s.thState[u])
           /\ \A u \in Threads : r.cid[u] = (IF u = t THEN 0 ELSE s.cid[u])
           /\ r.handoff = s.handoff /\ r.wakeIn = s.wakeIn /\ r.futex = s.futex
           /\ r.fakeLeaves = s.fakeLeaves
  <1>0. /\ s \in SchedType /\ Used(s) /\ Free(s, {}) /\ Out(s) /\ Asleep(s)
        /\ Queued(s, {}) /\ Promising(s) /\ NoContext(s, {}) /\ FakedOnce(s)
    BY DEF Core
  <1>1. PICK c \in Contexts : c = s.cid[t]
    BY <1>0 DEF SchedType
  <1>2. s.curThread[c] = t
    BY <1>0, <1>1 DEF Used
  <1>3. /\ s.outQueue \in Seq(Threads) /\ IsInjective(s.outQueue)
        /\ s.freeList \in Seq(Contexts) /\ IsInjective(s.freeList) /\ c \notin ToSet(s.freeList)
    BY <1>0, <1>2, Given DEF SchedType, Out, Free, Holds
  <1>4. PICK q : q = Without(s.outQueue, {t})
    OBVIOUS
  <1>5. q \in Seq(Threads) /\ IsInjective(q) /\ ToSet(q) = ToSet(s.outQueue) \ {t}
    BY <1>3, <1>4, WithoutFacts
  <1>6. PICK f : f = Append(s.freeList, c)
    OBVIOUS
  <1>7. f \in Seq(Contexts) /\ IsInjective(f) /\ ToSet(f) = ToSet(s.freeList) \cup {c}
    BY <1>3, <1>6, AppendFacts
  <1>8. /\ r \in SchedType /\ r.outQueue = q /\ r.freeList = f
        /\ \A u \in Threads : r.thState[u] = (IF u = t THEN "NONE" ELSE s.thState[u])
        /\ \A u \in Threads : r.cid[u] = (IF u = t THEN 0 ELSE s.cid[u])
        /\ \A d \in Contexts : r.curThread[d] = (IF d = c THEN NoThread ELSE s.curThread[d])
        /\ r.handoff = s.handoff /\ r.wakeIn = s.wakeIn /\ r.futex = s.futex
        /\ r.runQueue = s.runQueue
        /\ r.sleepQueue = s.sleepQueue /\ r.fakeLeaves = s.fakeLeaves
    <2>1. PICK a : a = [s EXCEPT !.outQueue = Without(@, {t}), !.freeList = Append(@, s.cid[t])]
      OBVIOUS
    <2>2. /\ a \in SchedType /\ a.outQueue = q /\ a.freeList = f
          /\ a.thState = s.thState /\ a.cid = s.cid /\ a.curThread = s.curThread
          /\ a.handoff = s.handoff /\ a.wakeIn = s.wakeIn /\ a.futex = s.futex
          /\ a.runQueue = s.runQueue
          /\ a.sleepQueue = s.sleepQueue /\ a.fakeLeaves = s.fakeLeaves
      BY <1>0, <1>1, <1>4, <1>5, <1>6, <1>7, <2>1 DEF SchedType
    <2>3. PICK b : b = deschedule(a, t, "NONE")
      OBVIOUS
    <2>4. /\ b \in SchedType /\ b.outQueue = q /\ b.freeList = f
          /\ \A u \in Threads : b.thState[u] = (IF u = t THEN "NONE" ELSE s.thState[u])
          /\ b.cid = s.cid
          /\ \A d \in Contexts : b.curThread[d] = (IF d = c THEN NoThread ELSE s.curThread[d])
          /\ b.handoff = s.handoff /\ b.wakeIn = s.wakeIn /\ b.futex = s.futex
          /\ b.runQueue = s.runQueue
          /\ b.sleepQueue = s.sleepQueue /\ b.fakeLeaves = s.fakeLeaves
      BY <1>1, <2>2, <2>3 DEF deschedule, SchedType, ThreadStates
    <2>5. PICK z \in Contexts : z = 0
      BY SchedulerAssumption DEF Contexts
    <2>6. r = [b EXCEPT !.cid[t] = z]
      BY <2>1, <2>3, <2>5 DEF finish
    <2>7. \A u \in Threads : r.cid[u] = (IF u = t THEN z ELSE s.cid[u])
      BY <2>4, <2>6 DEF SchedType
    <2>8. /\ r \in SchedType /\ r.outQueue = q /\ r.freeList = f
          /\ r.thState = b.thState /\ r.curThread = b.curThread
          /\ r.handoff = s.handoff /\ r.wakeIn = s.wakeIn /\ r.futex = s.futex
          /\ r.runQueue = s.runQueue
          /\ r.sleepQueue = s.sleepQueue /\ r.fakeLeaves = s.fakeLeaves
      <3>1. b \in SchedType
        BY <2>4
      <3>0. z \in Contexts
        BY <2>5
      <3>2. r \in SchedType
        <4>1. PICK g : g = [b.cid EXCEPT ![t] = z]
          OBVIOUS
        <4>2. g \in [Threads -> Contexts]
          BY <3>0, <3>1, <4>1 DEF SchedType
        <4>3. r = [b EXCEPT !.cid = g]
          BY <2>6, <3>1, <4>1 DEF SchedType
        <4> QED
          BY <3>1, <4>2, <4>3 DEF SchedType
      <3>3. /\ r.outQueue = b.outQueue /\ r.freeList = b.freeList
            /\ r.thState = b.thState /\ r.curThread = b.curThread
            /\ r.handoff = b.handoff /\ r.wakeIn = b.wakeIn /\ r.futex = b.futex
            /\ r.runQueue = b.runQueue
            /\ r.sleepQueue = b.sleepQueue /\ r.fakeLeaves = b.fakeLeaves
        BY <2>6, <3>1 DEF SchedType
      <3> QED
        BY <2>4, <3>2, <3>3
    <2>9. \A u \in Threads : r.cid[u] = (IF u = t THEN 0 ELSE s.cid[u])
      BY <2>5, <2>7
    <2> QED
      BY <2>4, <2>8, <2>9
  <1>9. Used(r)
    BY <1>0, <1>1, <1>2, <1>8, Given DEF Used
  <1>10. Free(r, {})
    <2>1. {d \in Contexts : r.curThread[d] = NoThread}
             = {d \in Contexts : s.curThread[d] = NoThread} \cup {c}
      BY <1>8
    <2> QED
      BY <1>0, <1>7, <1>8, <2>1 DEF Free, Holds
  <1>11. Out(r)
    <2>1. In(r, {"OUT"}) = In(s, {"OUT"}) \ {t}
      BY <1>8 DEF In
    <2> QED
      BY <1>0, <1>5, <1>8, <2>1 DEF Out, Holds
  <1>12. Asleep(r) /\ FakedOnce(r)
    <2>1. In(r, {"SLEEPING"}) = In(s, {"SLEEPING"})
      BY <1>8 DEF In
    <2> QED
      BY <1>0, <1>8, <2>1 DEF Asleep, FakedOnce
  <1>13. Promising(r)
    BY <1>0, <1>8 DEF Promising
  <1>14. Queued(r, {})
    <2>1. In(r, {"QUEUED"}) = In(s, {"QUEUED"}) /\ Promised(r) = Promised(s)
      BY <1>8 DEF In, Promised
    <2> QED
      BY <1>0, <1>8, <2>1 DEF Queued
  <1>15. NoContext(r, {})
    <2> SUFFICES ASSUME NEW u \in ToSet(r.runQueue), NEW d \in mask[u]
                 PROVE  r.curThread[d] \in Threads /\ r.thState[r.curThread[d]] = "RUNNING"
      BY DEF NoContext, In
    <2>1. u \in ToSet(s.runQueue) /\ u \in Threads /\ d \in Contexts
      BY <1>0, <1>8, QueueTypes, Given
    <2>2. PICK v \in Threads : v = s.curThread[d] /\ s.thState[v] = "RUNNING"
      BY <1>0, <2>1 DEF NoContext, In
    <2>3. v # t /\ d # c
      BY <1>2, <2>2
    <2> QED
      BY <1>8, <2>1, <2>2, <2>3
  <1> QED
    BY <1>8, <1>9, <1>10, <1>11, <1>12, <1>13, <1>14, <1>15 DEF Core

\* The sleepers that callback() wakes.
LEMMA WakeSleepersCore ==
    ASSUME NEW s, Core(s, {}, {}), NEW r, r = WakeSleepers(s)
    PROVE  /\ Core(r, {}, {})
           /\ \A u \in Threads : \/ r.thState[u] = s.thState[u] /\ r.futex[u] = s.futex[u]
                                 \/ s.thState[u] = "SLEEPING" /\ r.thState[u] = "BLOCKED"
           /\ r.cid = s.cid /\ r.handoff = s.handoff /\ r.fakeLeaves = s.fakeLeaves
  <1>0. /\ s \in SchedType /\ Used(s) /\ Free(s, {}) /\ Out(s) /\ Asleep(s)
        /\ Queued(s, {}) /\ Promising(s) /\ NoContext(s, {}) /\ FakedOnce(s)
    BY DEF Core
  <1>1. PICK q : q = s.sleepQueue
    OBVIOUS
  <1>2. PICK w \in [Threads -> 0..MaxSleep] : w = s.wakeIn
    BY <1>0 DEF SchedType
  <1>3. /\ q \in Seq(Threads) /\ IsInjective(q) /\ ToSet(q) = In(s, {"SLEEPING"})
        /\ \A i, j \in DOMAIN q : i < j => w[q[i]] <= w[q[j]]
    BY <1>0, <1>1, <1>2 DEF SchedType, Asleep, Holds
  <1>4. PICK due : due = {q[i] : i \in {i \in DOMAIN q : \A j \in 1..i : w[q[j]] <= 1}}
    OBVIOUS
  <1>5. due \subseteq ToSet(q)
    BY <1>4 DEF ToSet
  <1>6. PICK z : z = Without(q, due)
    OBVIOUS
  <1>7. z \in Seq(Threads) /\ IsInjective(z) /\ ToSet(z) = ToSet(q) \ due /\ KeepsOrder(z, q)
    BY <1>3, <1>6, WithoutFacts
  <1>8. PICK x : x = [t \in Threads |-> IF w[t] > 0 THEN w[t] - 1 ELSE 0]
    OBVIOUS
  <1>9. x \in [Threads -> 0..MaxSleep]
    BY <1>8, Given
  <1>10. PICK ts : ts = [t \in Threads |-> IF t \in due THEN "BLOCKED" ELSE s.thState[t]]
    OBVIOUS
  <1>11. ts \in [Threads -> ThreadStates]
    BY <1>0, <1>10 DEF SchedType, ThreadStates
  <1>12. PICK fx : fx = [t \in Threads |-> IF t \in due THEN 0 ELSE s.futex[t]]
    OBVIOUS
  <1>13. fx \in [Threads -> {0, 1}]
    BY <1>0, <1>12 DEF SchedType
  <1>14. PICK cp : cp = (s.curPhase + 1) % schedQuantum
    OBVIOUS
  <1>15. cp \in 0..(schedQuantum - 1)
    BY <1>0, <1>14, Given DEF SchedType
  <1>16. r = [s EXCEPT !.curPhase = cp, !.wakeIn = x, !.thState = ts, !.futex = fx, !.sleepQueue = z]
    BY <1>0, <1>1, <1>2, <1>4, <1>6, <1>8, <1>10, <1>12, <1>14 DEF WakeSleepers, SchedType
  <1>17. /\ r \in SchedType
         /\ r.wakeIn = x /\ r.thState = ts /\ r.futex = fx /\ r.sleepQueue = z
         /\ r.cid = s.cid /\ r.handoff = s.handoff /\ r.curThread = s.curThread
         /\ r.freeList = s.freeList /\ r.runQueue = s.runQueue /\ r.outQueue = s.outQueue
         /\ r.fakeLeaves = s.fakeLeaves
    BY <1>0, <1>7, <1>9, <1>11, <1>13, <1>15, <1>16, ZenonT(60) DEF SchedType
  <1>18. \A u \in Threads : \/ ts[u] = s.thState[u] /\ fx[u] = s.futex[u] /\ u \notin due
                            \/ s.thState[u] = "SLEEPING" /\ ts[u] = "BLOCKED" /\ u \in due
    BY <1>3, <1>5, <1>10, <1>12 DEF In
  <1>19. Used(r) /\ Free(r, {}) /\ FakedOnce(r)
    BY <1>0, <1>17, <1>18 DEF Used, Free, FakedOnce
  <1>20. Out(r)
    BY <1>0, <1>17, <1>18 DEF Out, In
  <1>21. Asleep(r)
    <2>1. In(r, {"SLEEPING"}) = ToSet(z)
      BY <1>3, <1>7, <1>17, <1>18 DEF In
    <2>2. ASSUME NEW i \in DOMAIN z, NEW j \in DOMAIN z, i < j PROVE x[z[i]] <= x[z[j]]
      <3>1. PICK k \in DOMAIN q, l \in DOMAIN q : k < l /\ z[i] = q[k] /\ z[j] = q[l]
        BY <2>2, <1>7 DEF KeepsOrder
      <3>2. w[z[i]] <= w[z[j]]
        BY <3>1, <1>3
      <3>3. z[i] \in Threads /\ z[j] \in Threads /\ w[z[i]] \in Nat /\ w[z[j]] \in Nat
        BY <1>7, Given
      <3> QED
        BY <3>2, <3>3, <1>8
    <2>3. ASSUME NEW u \in In(r, {"SLEEPING"}) PROVE x[u] > 0 /\ fx[u] = 1
      <3>1. u \in Threads /\ u \in ToSet(q) /\ u \notin due /\ s.thState[u] = "SLEEPING"
        BY <2>1, <1>3, <1>7 DEF In
      <3>2. PICK i \in DOMAIN q : u = q[i]
        BY <3>1 DEF ToSet
      <3>3. \A j \in DOMAIN q : q[j] \in Threads /\ w[q[j]] \in Nat /\ j \in Nat
        BY <1>3, Given
      <3>4. PICK j \in 1..i : ~(w[q[j]] <= 1)
        BY <3>1, <3>2, <1>4
      <3>5. j \in DOMAIN q /\ w[q[j]] > 1 /\ i \in Nat
        BY <3>2, <3>3, <3>4, <1>3
      <3>6. w[u] > 1
        <4>1. CASE j = i
          BY <4>1, <3>2, <3>5
        <4>2. CASE j < i
          BY <4>2, <3>2, <3>3, <3>5, <1>3
        <4> QED
          BY <4>1, <4>2, <3>4, <3>5
      <3>7. x[u] > 0
        BY <3>1, <3>2, <3>3, <3>6, <1>8
      <3> QED
        BY <3>1, <3>7, <1>0, <1>12 DEF Asleep, In
    <2> QED
      BY <1>7, <1>17, <2>1, <2>2, <2>3 DEF Asleep, Holds
  <1>22. Promising(r)
    BY <1>0, <1>17, <1>18 DEF Promising
  <1>23. Queued(r, {})
    <2>1. In(r, {"QUEUED"}) = In(s, {"QUEUED"}) /\ Promised(r) = Promised(s)
      BY <1>17, <1>18 DEF In, Promised
    <2>2. \A u \in In(s, {"QUEUED"}) : fx[u] = s.futex[u]
      BY <1>18 DEF In
    <2> QED
      BY <1>0, <1>17, <2>1, <2>2 DEF Queued
  <1>24. NoContext(r, {})
    <2>1. In(r, {"RUNNING"}) = In(s, {"RUNNING"})
      BY <1>17, <1>18 DEF In
    <2> QED
      BY <1>0, <1>17, <2>1 DEF NoContext
  <1>25. Core(r, {}, {})
    BY <1>17, <1>19, <1>20, <1>21, <1>22, <1>23, <1>24 DEF Core
  <1> QED
    BY <1>17, <1>18, <1>25

\* The promises of schedTick(), when those made before have been kept.
LEMMA SchedTickCore ==
    ASSUME NEW s, Core(s, {}, {}), \A u \in Threads : s.handoff[u] = NoThread,
           NEW h \in Promises(s), NEW r, r = HandOff(s, h)
    PROVE  /\ Core(r, {}, {})
           /\ r.thState = s.thState /\ r.futex = s.futex /\ r.wakeIn = s.wakeIn
           /\ r.cid = s.cid /\ r.fakeLeaves = s.fakeLeaves
  <1>0. /\ s \in SchedType /\ Used(s) /\ Free(s, {}) /\ Out(s) /\ Asleep(s)
        /\ Queued(s, {}) /\ Promising(s) /\ NoContext(s, {}) /\ FakedOnce(s)
    BY DEF Core
  <1>1. PICK q : q = s.runQueue
    OBVIOUS
  <1>2. Promised(s) = {}
    BY DEF Promised
  <1>3. q \in Seq(Threads) /\ IsInjective(q) /\ ToSet(q) = In(s, {"QUEUED"}) /\ ToSet(q) \subseteq Threads
    BY <1>0, <1>1, <1>2 DEF SchedType, Queued, Holds, In
  <1>4. /\ h \in [Contexts -> ToSet(q) \cup {NoThread}]
        /\ \A c \in Contexts : h[c] # NoThread => c \in mask[h[c]]
        /\ \A c, d \in Contexts : h[c] = h[d] /\ c # d => h[c] = NoThread
    BY <1>1 DEF Promises
  <1>5. PICK z : z = Without(q, Range(h))
    OBVIOUS
  <1>6. z \in Seq(Threads) /\ IsInjective(z) /\ ToSet(z) = ToSet(q) \ Range(h)
    BY <1>3, <1>5, WithoutFacts
  <1>7. PICK v : v = Victims(s, h)
    OBVIOUS
  <1>8. /\ DOMAIN v = Threads
        /\ v \in [Threads -> Threads \cup {NoThread}]
        /\ \A t \in Threads : v[t] = (IF s.curThread[s.cid[t]] = t /\ h[s.cid[t]] # NoThread
                                      THEN h[s.cid[t]] ELSE NoThread)
    <2>1. \A t \in Threads : s.cid[t] \in Contexts
      BY <1>0 DEF SchedType
    <2>2. v = [t \in Threads |-> IF s.curThread[s.cid[t]] = t /\ h[s.cid[t]] # NoThread
                                 THEN h[s.cid[t]] ELSE s.handoff[t]]
      BY <1>7 DEF Victims
    <2>3. \A t \in Threads : h[s.cid[t]] \in Threads \cup {NoThread}
      BY <1>3, <1>4, <2>1
    <2> QED
      BY <2>2, <2>3
  <1>9. r = [s EXCEPT !.handoff = v, !.runQueue = z]
    BY <1>0, <1>1, <1>5, <1>7 DEF HandOff, SchedType
  <1>10. /\ r \in SchedType /\ r.handoff = v /\ r.runQueue = z
         /\ r.wakeIn = s.wakeIn /\ r.thState = s.thState /\ r.futex = s.futex
         /\ r.sleepQueue = s.sleepQueue
         /\ r.cid = s.cid /\ r.curThread = s.curThread
         /\ r.freeList = s.freeList /\ r.outQueue = s.outQueue
         /\ r.fakeLeaves = s.fakeLeaves
    BY <1>0, <1>6, <1>8, <1>9, ZenonT(60) DEF SchedType
  <1>11. ASSUME NEW c \in Contexts, h[c] # NoThread
         PROVE  \E t \in Threads : /\ s.curThread[c] = t /\ s.cid[t] = c /\ s.thState[t] = "RUNNING"
                                   /\ v[t] = h[c]
    <2>1. h[c] \in ToSet(q) /\ c \in mask[h[c]]
      BY <1>4, <1>11
    <2>2. PICK t \in Threads : s.curThread[c] = t /\ s.thState[t] = "RUNNING"
      BY <1>0, <1>1, <2>1 DEF NoContext, In
    <2>3. s.cid[t] = c
      BY <1>0, <2>2 DEF Used
    <2> QED
      BY <1>8, <1>11, <2>2, <2>3
  <1>12. ASSUME NEW t \in Threads, v[t] # NoThread
         PROVE  /\ s.cid[t] \in Contexts /\ h[s.cid[t]] # NoThread /\ v[t] = h[s.cid[t]]
                /\ s.curThread[s.cid[t]] = t /\ s.thState[t] = "RUNNING"
    <2>1. /\ s.cid[t] \in Contexts /\ h[s.cid[t]] # NoThread /\ v[t] = h[s.cid[t]]
          /\ s.curThread[s.cid[t]] = t
      BY <1>0, <1>8, <1>12 DEF SchedType
    <2> QED
      BY <2>1, <1>11
  <1>13. Promised(r) = Range(h) \ {NoThread}
    <2>1. Range(h) = {h[c] : c \in Contexts}
      BY <1>4 DEF Range
    <2>2. Promised(r) \subseteq Range(h) \ {NoThread}
      BY <1>10, <1>12, <2>1 DEF Promised
    <2>3. Range(h) \ {NoThread} \subseteq Promised(r)
      BY <1>10, <1>11, <2>1 DEF Promised
    <2> QED
      BY <2>2, <2>3
  <1>14. In(r, {"QUEUED"}) = In(s, {"QUEUED"})
    BY <1>10 DEF In
  <1>15. Queued(r, {})
    <2>1. Range(h) \ {NoThread} \subseteq ToSet(q)
      BY <1>4 DEF Range
    <2>2. ToSet(z) = (In(r, {"QUEUED"}) \ Promised(r)) \ {}
      BY <1>3, <1>6, <1>13, <1>14, Given
    <2>3. Promised(r) \subseteq In(r, {"QUEUED"}) \ {}
      BY <1>3, <1>13, <1>14, <2>1
    <2> QED
      BY <1>0, <1>6, <1>10, <1>14, <2>2, <2>3 DEF Queued, Holds
  <1>16. Promising(r)
    <2>1. ASSUME NEW t \in Threads, NEW u \in Threads, v[t] = v[u], t # u PROVE v[t] = NoThread
      BY <1>4, <1>12, <2>1
    <2>2. ASSUME NEW t \in Threads, v[t] # NoThread PROVE s.thState[t] = "RUNNING" /\ s.cid[t] \in mask[v[t]]
      BY <1>4, <1>12, <2>2
    <2> QED
      BY <1>10, <2>1, <2>2 DEF Promising
  <1>17. Used(r) /\ Free(r, {}) /\ FakedOnce(r)
    BY <1>0, <1>10 DEF Used, Free, FakedOnce
  <1>18. Out(r) /\ Asleep(r)
    BY <1>0, <1>10 DEF Out, Asleep, In
  <1>19. NoContext(r, {})
    <2>1. ToSet(z) \subseteq ToSet(s.runQueue)
      BY <1>1, <1>6
    <2>2. In(r, {"RUNNING"}) = In(s, {"RUNNING"})
      BY <1>10 DEF In
    <2> QED
      BY <1>0, <1>10, <2>1, <2>2 DEF NoContext
  <1>20. Core(r, {}, {})
    BY <1>10, <1>15, <1>16, <1>17, <1>18, <1>19 DEF Core
  <1> QED
    BY <1>10, <1>20

-----------------------------------------------------------------------------
(***************************************************************************)
(* The end of a phase.  When it comes every thread that runs has called    *)
(* sync() and waits there, so the promises schedTick() makes are kept as   *)
(* soon as it goes on.                                                     *)
(***************************************************************************)

Quiet(s, p) == \A t \in In(s, {"RUNNING"}) : p[t] = "sync" /\ s.handoff[t] = NoThread

\* callback(): at the end of a phase, when nobody has promised anything.
LEMMA CallbackCore ==
    ASSUME NEW s, Core(s, {}, {}), NEW p, Quiet(s, p), NEW r \in callback(s)
    PROVE  /\ Core(r, {}, {})
           /\ \A u \in Threads : \/ r.thState[u] = s.thState[u]
                                 \/ s.thState[u] = "SLEEPING" /\ r.thState[u] = "BLOCKED"
           /\ r.cid = s.cid /\ r.fakeLeaves = s.fakeLeaves
  <1>1. PICK w : w = WakeSleepers(s)
    OBVIOUS
  <1>2. /\ Core(w, {}, {})
        /\ \A u \in Threads : \/ w.thState[u] = s.thState[u]
                              \/ s.thState[u] = "SLEEPING" /\ w.thState[u] = "BLOCKED"
        /\ w.cid = s.cid /\ w.handoff = s.handoff /\ w.fakeLeaves = s.fakeLeaves
    BY <1>1, WakeSleepersCore
  <1>3. CASE r = w
    BY <1>2, <1>3
  <1>4. CASE r \in schedTick(w)
    <2>1. PICK h \in Promises(w) : r = HandOff(w, h)
      BY <1>4 DEF schedTick
    <2>2. \A u \in Threads : w.handoff[u] = NoThread
      BY <1>2 DEF Core, Promising, Quiet, In
    <2>3. Core(r, {}, {}) /\ r.thState = w.thState /\ r.cid = w.cid /\ r.fakeLeaves = w.fakeLeaves
      BY <1>2, <2>1, <2>2, SchedTickCore
    <2> QED
      BY <1>2, <2>3
  <1> QED
    BY <1>1, <1>3, <1>4 DEF callback

\* callback() keeps what threads, barrier and queues know of each other.
LEMMA CallbackKeeps ==
    ASSUME NEW s, Core(s, {}, {}), NEW p, NEW u, Agrees(s, p, u), NEW st, BarrierIs(s, p, st, {}),
           Quiet(s, p), NEW r \in callback(s)
    PROVE  Core(r, {}, {}) /\ Agrees(r, p, u) /\ BarrierIs(r, p, st, {})
  <1>1. /\ Core(r, {}, {})
        /\ \A v \in Threads : \/ r.thState[v] = s.thState[v]
                              \/ s.thState[v] = "SLEEPING" /\ r.thState[v] = "BLOCKED"
        /\ r.cid = s.cid /\ r.fakeLeaves = s.fakeLeaves
    BY CallbackCore
  <1>2. FakeLeft(r) = FakeLeft(s)
    BY <1>1 DEF FakeLeft
  <1>3. In(r, {"RUNNING"}) = In(s, {"RUNNING"})
    BY <1>1 DEF In
  <1>4. ASSUME NEW t \in Threads PROVE ThreadAgrees(r, p, u, t)
    <2>1. ThreadAgrees(s, p, u, t)
      BY DEF Agrees
    <2>2. p[t] # "marked"
      BY <2>1 DEF ThreadAgrees, Quiet, In
    <2>3. r.handoff[t] # NoThread => p[t] = "sync"
      BY <1>1, <1>3 DEF Core, Promising, Quiet, In
    <2> QED
      BY <1>1, <1>2, <2>1, <2>2, <2>3 DEF ThreadAgrees
  <1>5. BarrierIs(r, p, st, {})
    BY <1>1, <1>3 DEF BarrierIs
  <1> QED
    BY <1>1, <1>4, <1>5 DEF Agrees

-----------------------------------------------------------------------------
(***************************************************************************)
(* The barrier, whose operations keep its own inductive invariant.         *)
(***************************************************************************)

\* The assumption of the barrier, of which the contexts are the participants.
LEMMA BarrierGiven == BP!BarrierAssumption
  <1>1. \A S : IsFiniteSet(S) <=> BP!IsFiniteSet(S)
    BY DEF IsFiniteSet, BP!IsFiniteSet
  <1>2. IsFiniteSet(Contexts)
    <2>1. numCores \in Nat /\ Contexts = 0..(numCores - 1)
      BY Given DEF Contexts
    <2>2. 0 \in Int /\ numCores - 1 \in Int
      BY <2>1
    <2> QED
      BY <2>1, <2>2, FS_Interval
  <1>3. BP!IsFiniteSet(Contexts)
    BY <1>1, <1>2
  <1> QED
    BY <1>3, SchedulerAssumption DEF BP!BarrierAssumption

\* The barrier of Scheduler is the one of the proofs: join(),
LEMMA SameJoin ==
    ASSUME NEW c \in Contexts, bar!Join(c) PROVE BP!Join(c)
  BY DEF bar!Join, BP!Join, bar!JoinOffline, BP!JoinOffline, bar!JoinLeft, BP!JoinLeft,
      bar!tryWakeNext, BP!tryWakeNext, bar!checkRunList, BP!checkRunList,
      bar!endPhase, BP!endPhase, bar!LoopEndsAt, BP!LoopEndsAt, bar!WaitingIn, BP!WaitingIn,
      bar!Kept, BP!Kept, bar!Offlined, BP!Offlined, bar!Rewound, BP!Rewound,
      bar!NextPhase, BP!NextPhase, bar!Passed, BP!Passed, bar!Exchanged, BP!Exchanged,
      bar!ExchangedIdx, BP!ExchangedIdx, bar!Cardinality, BP!Cardinality, bar!Range, BP!Range,
      bar!Bijection, BP!Bijection, bar!Injection, BP!Injection, bar!Surjection, BP!Surjection,
      bar!IsInjective, BP!IsInjective

\* leave()
LEMMA SameLeave ==
    ASSUME NEW c \in Contexts, bar!Leave(c) PROVE BP!Leave(c)
  BY DEF bar!Leave, BP!Leave,
      bar!tryWakeNext, BP!tryWakeNext, bar!checkRunList, BP!checkRunList,
      bar!endPhase, BP!endPhase, bar!LoopEndsAt, BP!LoopEndsAt, bar!WaitingIn, BP!WaitingIn,
      bar!Kept, BP!Kept, bar!Offlined, BP!Offlined, bar!Rewound, BP!Rewound,
      bar!NextPhase, BP!NextPhase, bar!Passed, BP!Passed, bar!Exchanged, BP!Exchanged,
      bar!ExchangedIdx, BP!ExchangedIdx, bar!Cardinality, BP!Cardinality, bar!Range, BP!Range,
      bar!Bijection, BP!Bijection, bar!Injection, BP!Injection, bar!Surjection, BP!Surjection,
      bar!IsInjective, BP!IsInjective

\* and sync().
LEMMA SameSync ==
    ASSUME NEW c \in Contexts, bar!Sync(c) PROVE BP!Sync(c)
  BY DEF bar!Sync, BP!Sync,
      bar!tryWakeNext, BP!tryWakeNext, bar!checkRunList, BP!checkRunList,
      bar!endPhase, BP!endPhase, bar!LoopEndsAt, BP!LoopEndsAt, bar!WaitingIn, BP!WaitingIn,
      bar!Kept, BP!Kept, bar!Offlined, BP!Offlined, bar!Rewound, BP!Rewound,
      bar!NextPhase, BP!NextPhase, bar!Passed, BP!Passed, bar!Exchanged, BP!Exchanged,
      bar!ExchangedIdx, BP!ExchangedIdx, bar!Cardinality, BP!Cardinality, bar!Range, BP!Range,
      bar!Bijection, BP!Bijection, bar!Injection, BP!Injection, bar!Surjection, BP!Surjection,
      bar!IsInjective, BP!IsInjective

\* What a barrier that goes from st and syn to st2 and syn2 does to the
\* contexts other than c.
Goes(st, st2, syn, syn2, c) ==
    /\ \A d \in Contexts : d # c => BP!Moves(st[d], st2[d])
    /\ \A d \in syn2 : d = c \/ d \in syn

\* The threads but t go on as they were, none of them on the context c.
Apart(s, p, r, q, t, c) ==
    \A v \in Threads : v # t =>
        /\ q[v] = p[v]
        /\ r.thState[v] = "RUNNING" <=> s.thState[v] = "RUNNING"
        /\ s.thState[v] = "RUNNING" => r.cid[v] = s.cid[v] /\ s.cid[v] # c
        /\ r.handoff[v] = s.handoff[v]

\* One context joins, leaves or syncs, and its thread with it.
LEMMA GoesKeeps ==
    ASSUME NEW s \in SchedType, NEW p, NEW st, NEW syn, BarrierIs(s, p, st, syn),
           NEW st2, NEW syn2, NEW c \in Contexts, Goes(st, st2, syn, syn2, c),
           NEW t \in Threads, NEW r, NEW q, Apart(s, p, r, q, t, c),
           s.thState[t] = "RUNNING" => s.cid[t] = c,
           r.thState[t] = "RUNNING" =>
              /\ r.cid[t] = c
              /\ q[t] \notin {"join", "sync"} => st2[c] = "RUNNING"
              /\ c \in syn2 => q[t] = "sync" /\ r.handoff[t] = NoThread,
           st2[c] \in {"WAITING", "RUNNING"} <=> r.thState[t] = "RUNNING"
    PROVE  BarrierIs(r, q, st2, syn2)
  <1>1. ASSUME NEW d \in Contexts
        PROVE  st2[d] \in {"WAITING", "RUNNING"} <=> \E v \in In(r, {"RUNNING"}) : r.cid[v] = d
    <2>1. CASE d = c
      <3>1. \A v \in Threads : v # t /\ r.thState[v] = "RUNNING" => r.cid[v] # c
        BY DEF Apart
      <3> QED
        BY <2>1, <3>1 DEF In
    <2>2. CASE d # c
      <3>1. st2[d] \in {"WAITING", "RUNNING"} <=> st[d] \in {"WAITING", "RUNNING"}
        BY <2>2 DEF Goes, BP!Moves
      <3>2. st[d] \in {"WAITING", "RUNNING"} <=> \E v \in In(s, {"RUNNING"}) : s.cid[v] = d
        BY DEF BarrierIs
      <3>3. (\E v \in In(s, {"RUNNING"}) : s.cid[v] = d) <=> (\E v \in In(r, {"RUNNING"}) : r.cid[v] = d)
        BY <2>2 DEF Apart, In
      <3> QED
        BY <3>1, <3>2, <3>3
    <2> QED
      BY <2>1, <2>2
  <1>2. ASSUME NEW v \in In(r, {"RUNNING"})
        PROVE  /\ q[v] \notin {"join", "sync"} => st2[r.cid[v]] = "RUNNING"
               /\ r.cid[v] \in syn2 => q[v] = "sync" /\ r.handoff[v] = NoThread
    <2>1. CASE v = t
      BY <2>1 DEF In
    <2>2. CASE v # t
      <3>1. /\ v \in Threads /\ v \in In(s, {"RUNNING"}) /\ r.cid[v] = s.cid[v] /\ s.cid[v] # c
            /\ q[v] = p[v] /\ r.handoff[v] = s.handoff[v]
        BY <2>2 DEF Apart, In
      <3>2. s.cid[v] \in Contexts
        BY <3>1 DEF SchedType
      <3>3. /\ p[v] \notin {"join", "sync"} => st[s.cid[v]] = "RUNNING"
            /\ s.cid[v] \in syn => p[v] = "sync" /\ s.handoff[v] = NoThread
        BY <3>1 DEF BarrierIs
      <3>4. st[s.cid[v]] = "RUNNING" => st2[s.cid[v]] = "RUNNING"
        BY <3>1, <3>2 DEF Goes, BP!Moves
      <3>5. s.cid[v] \in syn2 => s.cid[v] \in syn
        BY <3>1 DEF Goes
      <3> QED
        BY <3>1, <3>3, <3>4, <3>5
    <2> QED
      BY <2>1, <2>2
  <1> QED
    BY <1>1, <1>2 DEF BarrierIs

\* bar.join() within a critical section, with the callback if it ends a phase.
LEMMA BarJoinKeeps ==
    ASSUME BP!IInv, NEW s \in SchedType, NEW p, BarrierIs(s, p, state, synced),
           NEW t \in Threads, NEW c \in Contexts, NEW r, NEW q, Apart(s, p, r, q, t, c),
           s.thState[t] # "RUNNING", r.thState[t] = "RUNNING", r.cid[t] = c, q[t] = "join",
           barJoin(r, c)
    PROVE  sched' = r /\ BarrierIs(r, q, state', synced') /\ BP!IInv'
  <1>1. BP!Join(c)
    BY SameJoin DEF barJoin
  <1>2. /\ BP!IInv' /\ phaseCount' = phaseCount /\ synced' = synced
        /\ state[c] \in {"LEFT", "OFFLINE"} /\ state'[c] \in {"WAITING", "RUNNING"}
        /\ \A d \in Contexts : d # c => BP!Moves(state[d], state'[d])
    BY <1>1, BarrierGiven, BP!JoinMoves
  <1>3. sched' = r
    BY <1>2 DEF barJoin, Settle
  <1>4. Goes(state, state', synced, synced', c)
    BY <1>2 DEF Goes
  <1>5. c \notin synced'
    BY <1>2 DEF BP!IInv, BP!Good, BP!GoodSynced
  <1>6. BarrierIs(r, q, state', synced')
    BY <1>2, <1>4, <1>5, GoesKeeps
  <1> QED
    BY <1>2, <1>3, <1>6

\* bar.leave(): it may end the phase of the others.
LEMMA BarLeaveKeeps ==
    ASSUME BP!IInv, NEW s \in SchedType, NEW p, BarrierIs(s, p, state, synced),
           NEW t \in Threads, s.thState[t] = "RUNNING", NEW c \in Contexts, c = s.cid[t],
           NEW r, Core(r, {}, {}), NEW q, NEW u, Agrees(r, q, u), Apart(s, p, r, q, t, c),
           r.thState[t] # "RUNNING", barLeave(r, c)
    PROVE  /\ Core(sched', {}, {}) /\ Agrees(sched', q, u)
           /\ BarrierIs(sched', q, state', synced') /\ BP!IInv'
  <1>1. BP!Leave(c)
    BY SameLeave DEF barLeave
  <1>2. /\ state[c] = "RUNNING" /\ state'[c] \in {"LEFT", "OFFLINE"}
        /\ \A d \in Contexts : d # c => BP!Moves(state[d], state'[d])
    BY <1>1, BarrierGiven, BP!LeaveMoves
  <1>3. /\ BP!IInv'
        /\ \/ phaseCount' = phaseCount /\ synced' = synced
           \/ /\ phaseCount' # phaseCount /\ synced' = {}
              /\ \A d \in Contexts : state[d] = "WAITING" => d \in synced
              /\ \A d \in Contexts : d # c => state[d] # "RUNNING"
    BY <1>1, BarrierGiven, BP!LeaveStep
  <1>4. Goes(state, state', synced, synced', c)
    BY <1>2, <1>3 DEF Goes
  <1>5. BarrierIs(r, q, state', synced')
    BY <1>2, <1>4, GoesKeeps
  <1>6. CASE phaseCount' = phaseCount
    BY <1>3, <1>5, <1>6 DEF barLeave, Settle
  <1>7. CASE phaseCount' # phaseCount
    <2>1. Quiet(r, q)
      <3> SUFFICES ASSUME NEW v \in In(r, {"RUNNING"})
                   PROVE  q[v] = "sync" /\ r.handoff[v] = NoThread
        BY DEF Quiet
      <3>1. /\ v \in Threads /\ v # t /\ v \in In(s, {"RUNNING"}) /\ s.cid[v] # c
            /\ q[v] = p[v] /\ r.handoff[v] = s.handoff[v]
        BY DEF Apart, In
      <3>2. s.cid[v] \in Contexts
        BY <3>1 DEF SchedType
      <3>3. state[s.cid[v]] \in {"WAITING", "RUNNING"}
        BY <3>1, <3>2 DEF BarrierIs
      <3>4. s.cid[v] \in synced
        BY <1>3, <1>7, <3>1, <3>2, <3>3
      <3> QED
        BY <3>1, <3>4 DEF BarrierIs
    <2>2. sched' \in callback(r) /\ synced' = {}
      BY <1>3, <1>7 DEF barLeave, Settle
    <2>3. BarrierIs(r, q, state', {})
      BY <1>5, <2>2
    <2>4. Core(sched', {}, {}) /\ Agrees(sched', q, u) /\ BarrierIs(sched', q, state', {})
      BY <2>1, <2>2, <2>3, CallbackKeeps
    <2> QED
      BY <1>3, <2>2, <2>4
  <1> QED
    BY <1>6, <1>7

\* bar.sync(): it may end the phase.
LEMMA BarSyncKeeps ==
    ASSUME BP!IInv, NEW s, Core(s, {}, {}), NEW p, BarrierIs(s, p, state, synced),
           NEW t \in Threads, s.thState[t] = "RUNNING", s.handoff[t] = NoThread,
           NEW c \in Contexts, c = s.cid[t],
           NEW q, NEW u, Agrees(s, q, u), Apart(s, p, s, q, t, c), q[t] = "sync",
           bar!Sync(c), Settle(s)
    PROVE  /\ Core(sched', {}, {}) /\ Agrees(sched', q, u)
           /\ BarrierIs(sched', q, state', synced') /\ BP!IInv'
  <1>0. s \in SchedType
    BY DEF Core
  <1>1. BP!Sync(c)
    BY SameSync
  <1>2. /\ state[c] = "RUNNING" /\ state'[c] \in {"WAITING", "RUNNING"}
        /\ \A d \in Contexts : d # c => BP!Moves(state[d], state'[d])
    BY <1>1, BarrierGiven, BP!SyncMoves
  <1>3. /\ BP!IInv'
        /\ \/ phaseCount' = phaseCount /\ synced' = synced \cup {c}
           \/ /\ phaseCount' # phaseCount /\ synced' = {}
              /\ \A d \in Contexts : state[d] = "WAITING" => d \in synced
              /\ \A d \in Contexts : d # c => state[d] # "RUNNING"
    BY <1>1, BarrierGiven, BP!SyncStep
  <1>4. Goes(state, state', synced, synced', c)
    BY <1>2, <1>3 DEF Goes
  <1>5. BarrierIs(s, q, state', synced')
    BY <1>0, <1>2, <1>4, GoesKeeps
  <1>6. CASE phaseCount' = phaseCount
    BY <1>3, <1>5, <1>6 DEF Settle
  <1>7. CASE phaseCount' # phaseCount
    <2>1. Quiet(s, q)
      <3> SUFFICES ASSUME NEW v \in In(s, {"RUNNING"})
                   PROVE  q[v] = "sync" /\ s.handoff[v] = NoThread
        BY DEF Quiet
      <3>0. CASE v = t
        BY <3>0
      <3>1. CASE v # t
        <4>1. v \in Threads /\ s.cid[v] # c /\ q[v] = p[v]
          BY <3>1 DEF Apart, In
        <4>2. s.cid[v] \in Contexts
          BY <1>0, <4>1 DEF SchedType
        <4>3. state[s.cid[v]] \in {"WAITING", "RUNNING"}
          BY <4>2 DEF BarrierIs
        <4>4. s.cid[v] \in synced
          BY <1>3, <1>7, <4>1, <4>2, <4>3
        <4> QED
          BY <4>1, <4>4 DEF BarrierIs
      <3> QED
        BY <3>0, <3>1
    <2>2. sched' \in callback(s) /\ synced' = {}
      BY <1>3, <1>7 DEF Settle
    <2>3. BarrierIs(s, q, state', {})
      BY <1>5, <2>2
    <2>4. Core(sched', {}, {}) /\ Agrees(sched', q, u) /\ BarrierIs(sched', q, state', {})
      BY <2>1, <2>2, <2>3, CallbackKeeps
    <2> QED
      BY <1>3, <2>2, <2>4
  <1> QED
    BY <1>6, <1>7

-----------------------------------------------------------------------------
(***************************************************************************)
(* The actions.                                                            *)
(***************************************************************************)

\* A thread that does nothing itself still agrees: at most it loses, to
\* another thread, the context it retained while OUT, or is woken.
LEMMA AgreesStill ==
    ASSUME NEW s, NEW p, NEW u, NEW r, NEW q, NEW w, NEW v, ThreadAgrees(s, p, u, v),
           \/ r.thState[v] = s.thState[v]
           \/ s.thState[v] \in {"OUT", "SLEEPING"} /\ r.thState[v] = "BLOCKED"
           \/ s.thState[v] = "QUEUED" /\ r.thState[v] = "RUNNING",
           q[v] = p[v], v \in FakeLeft(r) <=> v \in FakeLeft(s), v = w <=> v = u,
           p[v] = "marked" => r.wakeIn[v] = s.wakeIn[v] /\ r.futex[v] = s.futex[v],
           r.handoff[v] = s.handoff[v]
    PROVE  ThreadAgrees(r, q, w, v)
  BY DEF ThreadAgrees

\* What GiveContext() assigns.
LEMMA GiveFields ==
    ASSUME NEW s \in SchedType, NEW t \in Threads, NEW c \in Contexts, NEW r, r = GiveContext(s, t, c)
    PROVE  /\ \A v \in Threads : r.thState[v] = (IF v = t THEN "RUNNING" ELSE s.thState[v])
           /\ \A v \in Threads : r.cid[v] = (IF v = t THEN c ELSE s.cid[v])
           /\ \A v \in Threads : r.futex[v] = (IF v = t THEN 0 ELSE s.futex[v])
           /\ r.handoff = s.handoff /\ r.wakeIn = s.wakeIn /\ r.fakeLeaves = s.fakeLeaves
  <1>1. PICK b : b = [s EXCEPT !.runQueue = Without(@, {t})]
    OBVIOUS
  <1>2. /\ b.thState = s.thState /\ b.cid = s.cid /\ b.futex = s.futex /\ b.handoff = s.handoff
        /\ b.wakeIn = s.wakeIn /\ b.fakeLeaves = s.fakeLeaves /\ b.curThread = s.curThread
        /\ DOMAIN b = DOMAIN s
    BY <1>1 DEF SchedType
  <1>3. PICK d : d = schedule(b, t, c)
    OBVIOUS
  <1>4. DOMAIN b = {"thState", "cid", "handoff", "futex", "wakeIn", "curThread", "freeList",
                    "runQueue", "outQueue", "sleepQueue", "fakeLeaves", "curPhase"}
    BY <1>2 DEF SchedType
  <1>5. /\ s.thState \in [Threads -> ThreadStates] /\ s.cid \in [Threads -> Contexts]
        /\ s.futex \in [Threads -> {0, 1}]
    BY DEF SchedType
  <1>6. /\ d.thState = [s.thState EXCEPT ![t] = "RUNNING"] /\ d.cid = [s.cid EXCEPT ![t] = c]
        /\ d.futex = s.futex /\ d.handoff = s.handoff
        /\ d.wakeIn = s.wakeIn /\ d.fakeLeaves = s.fakeLeaves /\ DOMAIN d = DOMAIN b
    BY <1>2, <1>3, <1>4 DEF schedule
  <1>7. r = [d EXCEPT !.futex[t] = 0]
    BY <1>1, <1>3 DEF GiveContext, wakeup
  <1>8. /\ r.thState = d.thState /\ r.cid = d.cid /\ r.handoff = d.handoff
        /\ r.wakeIn = d.wakeIn /\ r.fakeLeaves = d.fakeLeaves
        /\ r.futex = [s.futex EXCEPT ![t] = 0]
    BY <1>4, <1>6, <1>7
  <1> QED
    BY <1>5, <1>6, <1>8

\* A context passes from t to the thread in while the barrier lets it run.
LEMMA PassKeeps ==
    ASSUME NEW s \in SchedType, Used(s), NEW p, NEW st, NEW syn, BarrierIs(s, p, st, syn),
           NEW t \in Threads, s.thState[t] = "RUNNING", NEW c \in Contexts, c = s.cid[t],
           st[c] = "RUNNING", c \notin syn,
           NEW in \in Threads, in # t, s.thState[in] # "RUNNING",
           NEW r, NEW q, r.thState[in] = "RUNNING", r.cid[in] = c, r.thState[t] # "RUNNING",
           \A v \in Threads : v \notin {t, in} =>
              /\ r.thState[v] = s.thState[v] /\ r.cid[v] = s.cid[v]
              /\ r.handoff[v] = s.handoff[v] /\ q[v] = p[v]
    PROVE  BarrierIs(r, q, st, syn)
  <1>0. \A v \in Threads : v # t /\ s.thState[v] = "RUNNING" => s.cid[v] # c
    BY DEF Used
  <1>1. ASSUME NEW d \in Contexts
        PROVE  st[d] \in {"WAITING", "RUNNING"} <=> \E v \in In(r, {"RUNNING"}) : r.cid[v] = d
    <2>1. CASE d = c
      BY <2>1 DEF In
    <2>2. CASE d # c
      <3>1. st[d] \in {"WAITING", "RUNNING"} <=> \E v \in In(s, {"RUNNING"}) : s.cid[v] = d
        BY DEF BarrierIs
      <3>2. \A v \in Threads : v \in In(s, {"RUNNING"}) /\ s.cid[v] = d
                                 <=> v \in In(r, {"RUNNING"}) /\ r.cid[v] = d
        BY <2>2 DEF In
      <3> QED
        BY <3>1, <3>2 DEF In
    <2> QED
      BY <2>1, <2>2
  <1>2. ASSUME NEW v \in In(r, {"RUNNING"})
        PROVE  /\ q[v] \notin {"join", "sync"} => st[r.cid[v]] = "RUNNING"
               /\ r.cid[v] \in syn => q[v] = "sync" /\ r.handoff[v] = NoThread
    <2>1. CASE v = in
      BY <2>1
    <2>2. CASE v # in
      <3>1. v \in Threads /\ v \notin {t, in} /\ v \in In(s, {"RUNNING"})
        BY <2>2 DEF In
      <3> QED
        BY <3>1 DEF BarrierIs
    <2> QED
      BY <2>1, <2>2
  <1> QED
    BY <1>1, <1>2 DEF BarrierIs

\* What the callers of leave() know of the thread t that leaves, and of the
\* others: u was and w is the thread that the watchdog has taken.
Leaving(s, p, u, q, w, t) ==
    /\ s.thState[t] = "RUNNING" /\ s.handoff[t] = NoThread
    /\ t \notin FakeLeft(s) /\ t # w
    /\ state[s.cid[t]] = "RUNNING"
    /\ \A v \in Threads : v # t => ThreadAgrees(s, p, u, v) /\ q[v] = p[v] /\ (v = w <=> v = u)

\* s is the scheduler, once t has left a context that nobody wants ...
LEMMA GoneKeeps ==
    ASSUME BP!IInv, NEW s, Core(s, {}, {}), NEW p, NEW u, NEW q, NEW w, NEW t \in Threads,
           BarrierIs(s, p, state, synced), Leaving(s, p, u, q, w, t),
           NEW to \in {"OUT", "SLEEPING"}, q[t] = "out" \/ (q[t] = "fini" /\ to = "OUT"),
           NEW r, Core(r, {}, {}),
           \A v \in Threads : r.thState[v] = (IF v = t THEN to ELSE s.thState[v]),
           r.cid = s.cid, r.handoff = s.handoff, r.wakeIn = s.wakeIn, r.futex = s.futex,
           r.fakeLeaves = s.fakeLeaves,
           barLeave(r, s.cid[t])
    PROVE  /\ Core(sched', {}, {}) /\ Agrees(sched', q, w)
           /\ BarrierIs(sched', q, state', synced') /\ BP!IInv'
  <1>1. FakeLeft(r) = FakeLeft(s)
    BY DEF FakeLeft
  <1>2. s \in SchedType /\ Used(s)
    BY DEF Core
  <1>3. PICK c \in Contexts : c = s.cid[t]
    BY <1>2 DEF SchedType
  <1>4. ASSUME NEW v \in Threads PROVE ThreadAgrees(r, q, w, v)
    <2>1. CASE v = t
      BY <1>1, <2>1 DEF Leaving, ThreadAgrees
    <2>2. CASE v # t
      BY <1>1, <2>2, AgreesStill DEF Leaving
    <2> QED
      BY <2>1, <2>2
  <1>5. Agrees(r, q, w)
    BY <1>4 DEF Agrees
  <1>6. Apart(s, p, r, q, t, c)
    BY <1>2, <1>3 DEF Apart, Leaving, Used
  <1> QED
    BY <1>2, <1>3, <1>5, <1>6, BarLeaveKeeps DEF Leaving

\* ... and b, once it has left one that the queued thread in gets.
Vacated(s, b, t) ==
    /\ Core(b, {s.cid[t]}, {})
    /\ b.thState[t] \in {"BLOCKED", "SLEEPING"}
    /\ \A v \in Threads : v # t => b.thState[v] = s.thState[v]
    /\ b.cid = s.cid /\ b.handoff = s.handoff /\ b.wakeIn = s.wakeIn /\ b.futex = s.futex
    /\ b.fakeLeaves = s.fakeLeaves /\ b.runQueue = s.runQueue

\* leave() with a queued thread that takes the context over.
LEMMA PassedKeeps ==
    ASSUME BP!IInv, NEW s, Core(s, {}, {}), NEW p, NEW u, NEW q, NEW w, NEW t \in Threads,
           BarrierIs(s, p, state, synced), Leaving(s, p, u, q, w, t),
           NEW b, Vacated(s, b, t), q[t] = "out" \/ (q[t] = "fini" /\ b.thState[t] = "BLOCKED"),
           NEW in \in ThreadFor(s, s.cid[t]),
           NEW r, r = GiveContext(b, in, s.cid[t])
    PROVE  Core(r, {}, {}) /\ Agrees(r, q, w) /\ BarrierIs(r, q, state, synced)
  <1>0. /\ Core(b, {s.cid[t]}, {}) /\ b.thState[t] \in {"BLOCKED", "SLEEPING"}
        /\ \A v \in Threads : v # t => b.thState[v] = s.thState[v]
        /\ b.cid = s.cid /\ b.handoff = s.handoff /\ b.wakeIn = s.wakeIn /\ b.futex = s.futex
        /\ b.fakeLeaves = s.fakeLeaves /\ b.runQueue = s.runQueue
    BY DEF Vacated
  <1>1. s \in SchedType /\ Used(s) /\ Queued(s, {}) /\ b \in SchedType
    BY <1>0 DEF Core
  <1>2. PICK c \in Contexts : c = s.cid[t]
    BY <1>1 DEF SchedType
  <1>3. in \in ThreadFor(b, c)
    BY <1>0, <1>2 DEF ThreadFor
  <1>4. Core(r, {}, {}) /\ in \in ToSet(b.runQueue) /\ in \in Threads
    BY <1>0, <1>2, <1>3, GiveCore
  <1>5. /\ \A v \in Threads : r.thState[v] = (IF v = in THEN "RUNNING" ELSE b.thState[v])
        /\ \A v \in Threads : r.cid[v] = (IF v = in THEN c ELSE b.cid[v])
        /\ \A v \in Threads : r.futex[v] = (IF v = in THEN 0 ELSE b.futex[v])
        /\ r.handoff = b.handoff /\ r.wakeIn = b.wakeIn /\ r.fakeLeaves = b.fakeLeaves
    BY <1>0, <1>1, <1>2, <1>4, GiveFields
  <1>6. s.thState[in] = "QUEUED" /\ in # t
    BY <1>0, <1>1, <1>4 DEF Queued, Holds, In, Leaving
  <1>7. FakeLeft(r) = FakeLeft(s)
    BY <1>0, <1>5 DEF FakeLeft
  <1>8. ASSUME NEW v \in Threads PROVE ThreadAgrees(r, q, w, v)
    <2>1. CASE v = t
      BY <1>0, <1>5, <1>6, <1>7, <2>1 DEF Leaving, ThreadAgrees
    <2>2. CASE v = in
      <3>1. p[v] = "ctx" /\ ThreadAgrees(s, p, u, v) /\ q[v] = p[v] /\ (v = w <=> v = u)
        BY <1>6, <2>2 DEF Leaving, ThreadAgrees
      <3> QED
        BY <1>0, <1>5, <1>6, <1>7, <2>2, <3>1, AgreesStill
    <2>3. CASE v # t /\ v # in
      BY <1>0, <1>5, <1>7, <2>3, AgreesStill DEF Leaving
    <2> QED
      BY <2>1, <2>2, <2>3
  <1>9. c \notin synced
    BY <1>0, <1>2 DEF Leaving, BP!IInv, BP!Good, BP!GoodSynced
  <1>10. BarrierIs(r, q, state, synced)
    BY <1>0, <1>1, <1>2, <1>4, <1>5, <1>6, <1>9, PassKeeps DEF Leaving
  <1> QED
    BY <1>4, <1>8, <1>10 DEF Agrees

\* A step that leaves the barrier alone.
LEMMA BarStutters ==
    ASSUME BP!IInv, UNCHANGED barVars PROVE BP!IInv' /\ state' = state /\ synced' = synced
  <1>1. UNCHANGED BP!vars
    BY DEF barVars, BP!vars, BP!listVars
  <1> QED
    BY <1>1, BarrierGiven, BP!StutterStep DEF barVars

\* leave() of a thread that does not sleep.
LEMMA LeaveForSyscallKeeps ==
    ASSUME BP!IInv, NEW s, Core(s, {}, {}), NEW p, NEW u, NEW q, NEW w, NEW t \in Threads,
           BarrierIs(s, p, state, synced), Leaving(s, p, u, q, w, t), q[t] \in {"out", "fini"},
           LeaveForSyscall(s, t)
    PROVE  /\ Core(sched', {}, {}) /\ Agrees(sched', q, w)
           /\ BarrierIs(sched', q, state', synced') /\ BP!IInv'
  <1>1. CASE Replaced(s, t)
    <2>1. PICK in \in ThreadFor(s, s.cid[t]) :
             /\ sched' = GiveContext(deschedule(s, t, "BLOCKED"), in, s.cid[t])
             /\ UNCHANGED barVars
      BY <1>1 DEF Replaced
    <2>2. PICK b : b = deschedule(s, t, "BLOCKED")
      OBVIOUS
    <2>3. /\ Core(b, {s.cid[t]}, {})
          /\ \A v \in Threads : b.thState[v] = (IF v = t THEN "BLOCKED" ELSE s.thState[v])
          /\ b.cid = s.cid /\ b.handoff = s.handoff /\ b.wakeIn = s.wakeIn /\ b.futex = s.futex
          /\ b.fakeLeaves = s.fakeLeaves /\ b.runQueue = s.runQueue
      <3>1. PICK to \in {"BLOCKED", "QUEUED"} : to = "BLOCKED"
        OBVIOUS
      <3>2. s.thState[t] = "RUNNING" /\ s.handoff[t] = NoThread /\ b = deschedule(s, t, to)
        BY <2>2, <3>1 DEF Leaving
      <3>3. (to = "QUEUED" => {} = {} \cup {t}) /\ (to = "BLOCKED" => {} = {})
        BY <3>1
      <3>4. /\ Core(b, {s.cid[t]}, {})
            /\ \A v \in Threads : b.thState[v] = (IF v = t THEN to ELSE s.thState[v])
            /\ b.cid = s.cid /\ b.handoff = s.handoff /\ b.wakeIn = s.wakeIn /\ b.futex = s.futex
            /\ b.fakeLeaves = s.fakeLeaves /\ b.runQueue = s.runQueue
        BY <3>1, <3>2, <3>3, VacateCore
      <3> QED
        BY <3>1, <3>4
    <2>4. PICK r : r = GiveContext(b, in, s.cid[t])
      OBVIOUS
    <2>5. Core(r, {}, {}) /\ Agrees(r, q, w) /\ BarrierIs(r, q, state, synced)
      <3>1. Vacated(s, b, t) /\ (q[t] = "out" \/ (q[t] = "fini" /\ b.thState[t] = "BLOCKED"))
        BY <2>3 DEF Vacated
      <3> QED
        BY <2>4, <3>1, PassedKeeps
    <2>6. sched' = r
      BY <2>1, <2>2, <2>4
    <2> QED
      BY <2>1, <2>5, <2>6, BarStutters
  <1>2. CASE ThreadFor(s, s.cid[t]) = {} /\ barLeave(GoneOut(s, t), s.cid[t])
    <2>1. PICK r : r = GoneOut(s, t)
      OBVIOUS
    <2>2. /\ Core(r, {}, {})
          /\ \A v \in Threads : r.thState[v] = (IF v = t THEN "OUT" ELSE s.thState[v])
          /\ r.cid = s.cid /\ r.handoff = s.handoff /\ r.wakeIn = s.wakeIn /\ r.futex = s.futex
          /\ r.fakeLeaves = s.fakeLeaves
      BY <1>2, <2>1, GoneOutCore DEF Leaving
    <2>3. barLeave(r, s.cid[t])
      BY <1>2, <2>1
    <2> QED
      BY <2>2, <2>3, GoneKeeps
  <1> QED
    BY <1>1, <1>2 DEF LeaveForSyscall

\* leave() of a thread that was marked for sleep.
LEMMA LeaveToSleepKeeps ==
    ASSUME BP!IInv, NEW s, Core(s, {}, {}), NEW p, NEW u, NEW q, NEW w, NEW t \in Threads,
           BarrierIs(s, p, state, synced), Leaving(s, p, u, q, w, t), q[t] = "out",
           s.wakeIn[t] > 0, s.futex[t] = 1,
           LeaveToSleep(s, t)
    PROVE  /\ Core(sched', {}, {}) /\ Agrees(sched', q, w)
           /\ BarrierIs(sched', q, state', synced') /\ BP!IInv'
  <1>0. s \in SchedType /\ s.cid[t] \in Contexts
    BY DEF Core, SchedType
  <1>1. PICK b : b = InsertSleeper(deschedule(s, t, "SLEEPING"), t)
    OBVIOUS
  <1>2. /\ Core(b, {s.cid[t]}, {})
        /\ \A v \in Threads : b.thState[v] = (IF v = t THEN "SLEEPING" ELSE s.thState[v])
        /\ b.cid = s.cid /\ b.handoff = s.handoff /\ b.wakeIn = s.wakeIn /\ b.futex = s.futex
        /\ b.fakeLeaves = s.fakeLeaves /\ b.runQueue = s.runQueue
    BY <1>1, SleepCore, SMTT(30) DEF Leaving
  <1>3. CASE \E in \in ThreadFor(s, s.cid[t]) : /\ sched' = GiveContext(b, in, s.cid[t])
                                                /\ UNCHANGED barVars
    <2>1. PICK in \in ThreadFor(s, s.cid[t]) : /\ sched' = GiveContext(b, in, s.cid[t])
                                               /\ UNCHANGED barVars
      BY <1>3
    <2>2. PICK r : r = GiveContext(b, in, s.cid[t])
      OBVIOUS
    <2>3. Core(r, {}, {}) /\ Agrees(r, q, w) /\ BarrierIs(r, q, state, synced)
      <3>1. Vacated(s, b, t)
        BY <1>2 DEF Vacated
      <3> QED
        BY <2>2, <3>1, PassedKeeps
    <2> QED
      BY <2>1, <2>2, <2>3, BarStutters
  <1>4. CASE /\ ThreadFor(s, s.cid[t]) = {}
             /\ barLeave([b EXCEPT !.freeList = Append(@, s.cid[t])], s.cid[t])
    <2>1. PICK r : r = [b EXCEPT !.freeList = Append(@, s.cid[t])]
      OBVIOUS
    <2>2. \A v \in ToSet(b.runQueue) : s.cid[t] \notin mask[v]
      BY <1>0, <1>2, <1>4, NobodyFor
    <2>3. /\ Core(r, {}, {})
          /\ r.thState = b.thState /\ r.cid = b.cid /\ r.handoff = b.handoff
          /\ r.wakeIn = b.wakeIn /\ r.futex = b.futex /\ r.fakeLeaves = b.fakeLeaves
      BY <1>0, <1>2, <2>1, <2>2, FreeCore
    <2>4. barLeave(r, s.cid[t])
      BY <1>4, <2>1
    <2> QED
      BY <1>2, <2>3, <2>4, GoneKeeps
  <1> QED
    BY <1>1, <1>3, <1>4 DEF LeaveToSleep

\* The barrier still agrees if no thread starts or stops running and those that
\* go on from where they were are on a context that runs.
LEMMA BarrierStill ==
    ASSUME NEW s \in SchedType, NEW p, NEW st, NEW syn, BarrierIs(s, p, st, syn), NEW r, NEW q,
           \A v \in Threads : r.thState[v] = "RUNNING" <=> s.thState[v] = "RUNNING",
           \A v \in In(s, {"RUNNING"}) :
              /\ r.cid[v] = s.cid[v] /\ r.handoff[v] = s.handoff[v]
              /\ q[v] = p[v] \/ (st[s.cid[v]] = "RUNNING" /\ s.cid[v] \notin syn)
    PROVE  BarrierIs(r, q, st, syn)
  <1>1. In(r, {"RUNNING"}) = In(s, {"RUNNING"})
    BY DEF In
  <1>2. ASSUME NEW d \in Contexts
        PROVE  st[d] \in {"WAITING", "RUNNING"} <=> \E v \in In(r, {"RUNNING"}) : r.cid[v] = d
    BY <1>1 DEF BarrierIs
  <1>3. ASSUME NEW v \in In(r, {"RUNNING"})
        PROVE  /\ q[v] \notin {"join", "sync"} => st[r.cid[v]] = "RUNNING"
               /\ r.cid[v] \in syn => q[v] = "sync" /\ r.handoff[v] = NoThread
    BY <1>1 DEF BarrierIs
  <1> QED
    BY <1>2, <1>3 DEF BarrierIs

\* The contexts that run have not synced.
LEMMA RunsUnsynced ==
    ASSUME BP!IInv PROVE \A c \in Contexts : state[c] = "RUNNING" => c \notin synced
  BY DEF BP!IInv, BP!Good, BP!GoodSynced

\* Only the fields of the thread t change.
OnlyOf(s, r, t) ==
    /\ \A v \in Threads : v # t => /\ r.thState[v] = s.thState[v] /\ r.cid[v] = s.cid[v]
                                   /\ r.futex[v] = s.futex[v] /\ r.wakeIn[v] = s.wakeIn[v]
    /\ r.curThread = s.curThread /\ r.handoff = s.handoff
    /\ r.freeList = s.freeList /\ r.runQueue = s.runQueue /\ r.outQueue = s.outQueue
    /\ r.sleepQueue = s.sleepQueue /\ r.fakeLeaves = s.fakeLeaves

\* A thread that waits for nothing changes, and keeps its context if it has one.
LEMMA IdleCore ==
    ASSUME NEW s, Core(s, {}, {}), NEW t \in Threads, NEW r \in SchedType, OnlyOf(s, r, t),
           \/ /\ s.thState[t] \in {"NONE", "STARTED", "BLOCKED"}
              /\ r.thState[t] \in {"NONE", "STARTED", "BLOCKED"}
           \/ s.thState[t] = "RUNNING" /\ r.thState[t] = "RUNNING" /\ r.cid[t] = s.cid[t]
    PROVE  Core(r, {}, {})
  <1>0. /\ s \in SchedType /\ Used(s) /\ Free(s, {}) /\ Out(s) /\ Asleep(s)
        /\ Queued(s, {}) /\ Promising(s) /\ NoContext(s, {}) /\ FakedOnce(s)
    BY DEF Core
  <1> USE DEF OnlyOf
  <1>2. /\ In(r, {"OUT"}) = In(s, {"OUT"}) /\ In(r, {"SLEEPING"}) = In(s, {"SLEEPING"})
        /\ In(r, {"QUEUED"}) = In(s, {"QUEUED"}) /\ In(r, {"RUNNING"}) = In(s, {"RUNNING"})
    BY DEF In
  <1>3. Used(r)
    <2> SUFFICES ASSUME NEW v \in Threads, NEW c \in Contexts
                 PROVE  /\ r.curThread[c] = v <=> r.thState[v] \in {"RUNNING", "OUT"} /\ r.cid[v] = c
                        /\ r.curThread[c] = v => c \in mask[v]
      BY DEF Used
    <2>1. /\ s.curThread[c] = v <=> s.thState[v] \in {"RUNNING", "OUT"} /\ s.cid[v] = c
          /\ s.curThread[c] = v => c \in mask[v]
      BY <1>0 DEF Used
    <2> QED
      BY <2>1
  <1>4. Free(r, {}) /\ Out(r) /\ FakedOnce(r) /\ NoContext(r, {})
    BY <1>0, <1>2 DEF Free, Out, FakedOnce, NoContext
  <1>5. Asleep(r)
    <2>1. t \notin In(s, {"SLEEPING"}) /\ ToSet(s.sleepQueue) = In(s, {"SLEEPING"})
      BY <1>0 DEF In, Asleep, Holds
    <2>2. \A i \in DOMAIN s.sleepQueue : s.sleepQueue[i] \in Threads /\ s.sleepQueue[i] # t
      BY <2>1 DEF ToSet, In
    <2>3. \A v \in In(s, {"SLEEPING"}) : v \in Threads /\ v # t
      BY <2>1 DEF In
    <2>4. \A i, j \in DOMAIN r.sleepQueue :
             i < j => r.wakeIn[r.sleepQueue[i]] <= r.wakeIn[r.sleepQueue[j]]
      BY <1>0, <2>2 DEF Asleep
    <2>5. \A v \in In(r, {"SLEEPING"}) : r.wakeIn[v] > 0 /\ r.futex[v] = 1
      BY <1>0, <1>2, <2>3 DEF Asleep
    <2> QED
      BY <1>0, <1>2, <2>4, <2>5 DEF Asleep
  <1>6. Queued(r, {})
    <2>1. Promised(r) = Promised(s)
      BY DEF Promised
    <2>2. \A v \in In(s, {"QUEUED"}) : v \in Threads /\ v # t
      BY DEF In
    <2> QED
      BY <1>0, <1>2, <2>1, <2>2 DEF Queued
  <1>7. Promising(r)
    <2>1. \A v \in Threads : s.handoff[v] # NoThread => v # t \/ s.thState[v] = "RUNNING"
      BY <1>0 DEF Promising
    <2> QED
      BY <1>0, <2>1 DEF Promising
  <1> QED
    BY <1>3, <1>4, <1>5, <1>6, <1>7 DEF Core

\* start().
LEMMA StartStep ==
    ASSUME IInv, NEW t \in Threads, Start(t) PROVE IInv'
  <1>0. /\ Core(sched, {}, {}) /\ Agrees(sched, pc, unfaked) /\ sched \in SchedType
        /\ BarrierIs(sched, pc, state, synced) /\ BP!IInv /\ pc \in [Threads -> ThreadPcs]
    BY DEF IInv, Core
  <1>1. PICK r : r = sched'
    OBVIOUS
  <1>2. /\ pc[t] = "none" /\ sched.thState[t] = "NONE" /\ sched.handoff[t] = NoThread
        /\ t \notin FakeLeft(sched) /\ t # unfaked
    BY <1>0 DEF Start, Agrees, ThreadAgrees
  <1>3. PICK q : q = pc' /\ q = [pc EXCEPT ![t] = "out"]
    BY DEF Start
  <1>4. q \in [Threads -> ThreadPcs] /\ q[t] = "out" /\ \A v \in Threads : v # t => q[v] = pc[v]
    BY <1>0, <1>3 DEF ThreadPcs
  <1>5. [sched.handoff EXCEPT ![t] = NoThread] = sched.handoff
    BY <1>0, <1>2 DEF SchedType
  <1>6. /\ r \in SchedType
        /\ r.thState = [sched.thState EXCEPT ![t] = "STARTED"] /\ r.cid = [sched.cid EXCEPT ![t] = 0]
        /\ r.handoff = [sched.handoff EXCEPT ![t] = NoThread]
        /\ r.futex = [sched.futex EXCEPT ![t] = 0] /\ r.wakeIn = [sched.wakeIn EXCEPT ![t] = 0]
        /\ r.curThread = sched.curThread
        /\ r.freeList = sched.freeList /\ r.runQueue = sched.runQueue /\ r.outQueue = sched.outQueue
        /\ r.sleepQueue = sched.sleepQueue /\ r.fakeLeaves = sched.fakeLeaves
    <2>1. r = [sched EXCEPT !.thState[t] = "STARTED", !.cid[t] = 0,
                            !.handoff[t] = NoThread, !.futex[t] = 0, !.wakeIn[t] = 0]
      BY <1>1 DEF Start
    <2>2. 0 \in Contexts /\ 0 \in 0..MaxSleep
      BY SchedulerAssumption DEF Contexts
    <2> QED
      BY <1>0, <2>1, <2>2 DEF SchedType, ThreadStates
  <1>7. /\ r.thState[t] = "STARTED" /\ r.handoff = sched.handoff
        /\ \A v \in Threads : v # t =>
              /\ r.thState[v] = sched.thState[v] /\ r.cid[v] = sched.cid[v]
              /\ r.futex[v] = sched.futex[v] /\ r.wakeIn[v] = sched.wakeIn[v]
    BY <1>0, <1>5, <1>6 DEF SchedType
  <1>8. Core(r, {}, {})
    <2>1. OnlyOf(sched, r, t)
      BY <1>6, <1>7 DEF OnlyOf
    <2> QED
      BY <1>0, <1>2, <1>6, <1>7, <2>1, IdleCore
  <1>9. FakeLeft(r) = FakeLeft(sched)
    BY <1>6 DEF FakeLeft
  <1>10. ASSUME NEW v \in Threads PROVE ThreadAgrees(r, q, unfaked, v)
    <2>1. CASE v = t
      BY <1>2, <1>4, <1>7, <1>9, <2>1 DEF ThreadAgrees
    <2>2. CASE v # t
      BY <1>0, <1>4, <1>7, <1>9, <2>2, AgreesStill DEF Agrees
    <2> QED
      BY <2>1, <2>2
  <1>11. BarrierIs(r, q, state, synced)
    BY <1>0, <1>2, <1>4, <1>7, BarrierStill DEF In
  <1>12. BP!IInv' /\ state' = state /\ synced' = synced
    BY <1>0, BarStutters DEF Start
  <1>13. Core(sched', {}, {}) /\ Agrees(sched', pc', unfaked') /\ BarrierIs(sched', pc', state', synced')
    BY <1>1, <1>3, <1>8, <1>10, <1>11, <1>12 DEF Agrees, Start
  <1> QED
    BY <1>3, <1>4, <1>12, <1>13 DEF IInv, Start

\* The parts of the invariant.
LEMMA Parts ==
    ASSUME IInv
    PROVE  /\ Core(sched, {}, {}) /\ Agrees(sched, pc, unfaked) /\ sched \in SchedType
           /\ BarrierIs(sched, pc, state, synced) /\ BP!IInv
           /\ pc \in [Threads -> ThreadPcs] /\ unfaked \in Threads \cup {NoThread}
           /\ blockingSyscalls \subseteq Pcs
  BY DEF IInv, Core

\* Where t goes on to.
LEMMA GoesTo ==
    ASSUME pc \in [Threads -> ThreadPcs], NEW t \in Threads, NEW to \in ThreadPcs, pc' = [pc EXCEPT ![t] = to]
    PROVE  /\ pc' \in [Threads -> ThreadPcs] /\ pc'[t] = to
           /\ \A v \in Threads : v # t => pc'[v] = pc[v]
  OBVIOUS

\* A thread goes on and touches neither queues nor barrier.
LEMMA GoOn ==
    ASSUME IInv, NEW t \in Threads, sched.thState[t] = "RUNNING", state[sched.cid[t]] = "RUNNING",
           sched.handoff[t] = NoThread, pc[t] \in {"join", "ctx", "sync"},
           pc' = [pc EXCEPT ![t] = "app"], UNCHANGED <<sched, blockingSyscalls, unfaked, barVars>>
    PROVE  IInv'
  <1>1. /\ pc' \in [Threads -> ThreadPcs] /\ pc'[t] = "app"
        /\ \A v \in Threads : v # t => pc'[v] = pc[v]
    BY Parts, GoesTo DEF ThreadPcs
  <1>2. PICK q : q = pc'
    OBVIOUS
  <1>3. ASSUME NEW v \in Threads PROVE ThreadAgrees(sched, q, unfaked, v)
    <2>1. ThreadAgrees(sched, pc, unfaked, v)
      BY Parts DEF Agrees
    <2>2. CASE v = t
      BY <1>1, <1>2, <2>1, <2>2 DEF ThreadAgrees
    <2>3. CASE v # t
      BY <1>1, <1>2, <2>1, <2>3, AgreesStill
    <2> QED
      BY <2>2, <2>3
  <1>4. sched.cid[t] \in Contexts /\ sched.cid[t] \notin synced
    <2>1. sched.cid[t] \in Contexts
      BY Parts DEF SchedType
    <2> QED
      BY <2>1, Parts, RunsUnsynced
  <1>5. BarrierIs(sched, q, state, synced)
    BY <1>1, <1>2, <1>4, Parts, BarrierStill DEF In
  <1>6. BP!IInv' /\ state' = state /\ synced' = synced
    BY Parts, BarStutters
  <1>7. Core(sched', {}, {}) /\ Agrees(sched', pc', unfaked') /\ BarrierIs(sched', pc', state', synced')
    BY <1>2, <1>3, <1>5, <1>6, Parts DEF Agrees
  <1> QED
    BY <1>1, <1>6, <1>7, Parts DEF IInv

\* The barrier lets a thread run that has joined.
LEMMA JoinDoneStep ==
    ASSUME IInv, NEW t \in Threads, JoinDone(t) PROVE IInv'
  <1>1. ThreadAgrees(sched, pc, unfaked, t)
    BY Parts DEF Agrees
  <1> QED
    BY <1>1, GoOn DEF JoinDone, ThreadAgrees

\* waitForContext() returns.
LEMMA WaitDoneStep ==
    ASSUME IInv, NEW t \in Threads, WaitDone(t) PROVE IInv'
  <1>1. ThreadAgrees(sched, pc, unfaked, t)
    BY Parts DEF Agrees
  <1>2. pc[t] = "ctx" /\ sched.futex[t] = 0
    BY DEF WaitDone
  <1>3. sched.thState[t] # "QUEUED"
    BY <1>2, Parts DEF Core, Queued, In
  <1>4. sched.thState[t] = "RUNNING" /\ sched.handoff[t] = NoThread
    BY <1>1, <1>2, <1>3 DEF ThreadAgrees
  <1>5. state[sched.cid[t]] = "RUNNING"
    BY <1>2, <1>4, Parts DEF BarrierIs, In
  <1> QED
    BY <1>2, <1>4, <1>5, GoOn DEF WaitDone

\* sync() returns to a thread that has promised nothing.
LEMMA SyncDoneStep ==
    ASSUME IInv, NEW t \in Threads, SyncDone(t) PROVE IInv'
  <1>1. ThreadAgrees(sched, pc, unfaked, t)
    BY Parts DEF Agrees
  <1> QED
    BY <1>1, GoOn DEF SyncDone, ThreadAgrees

\* finishFakeLeave(): t, and nobody else, is no longer in a fake leave.
LEMMA UnfakeCore ==
    ASSUME NEW s, Core(s, {}, {}), NEW t \in Threads, NEW r, r = finishFakeLeave(s, t)
    PROVE  /\ Core(r, {}, {}) /\ FakeLeft(r) = FakeLeft(s) \ {t}
           /\ r.thState = s.thState /\ r.cid = s.cid /\ r.handoff = s.handoff
           /\ r.wakeIn = s.wakeIn /\ r.futex = s.futex
  <1>0. /\ s \in SchedType /\ Used(s) /\ Free(s, {}) /\ Out(s) /\ Asleep(s)
        /\ Queued(s, {}) /\ Promising(s) /\ NoContext(s, {}) /\ FakedOnce(s)
    BY DEF Core
  <1>1. PICK f \in Seq(Threads \X Pcs) : f = s.fakeLeaves
    BY <1>0 DEF SchedType
  <1>2. \A i, j \in DOMAIN f : f[i][1] = f[j][1] => i = j
    BY <1>0, <1>1 DEF FakedOnce
  <1>3. IsInjective(f)
    BY <1>2 DEF IsInjective
  <1>4. PICK S : S = {t} \X Pcs
    OBVIOUS
  <1>5. PICK z : z = Without(f, S)
    OBVIOUS
  <1>6. z \in Seq(Threads \X Pcs) /\ IsInjective(z) /\ ToSet(z) = ToSet(f) \ S
    BY <1>3, <1>5, WithoutFacts
  <1>7. \A i \in DOMAIN z : \E k \in DOMAIN f : z[i] = f[k]
    BY <1>6 DEF ToSet
  <1>8. FakedOnce(r) /\ r.fakeLeaves = z
    <2>1. r.fakeLeaves = z
      BY <1>0, <1>1, <1>4, <1>5 DEF finishFakeLeave, SchedType
    <2>2. ASSUME NEW i \in DOMAIN z, NEW j \in DOMAIN z, z[i][1] = z[j][1] PROVE i = j
      <3>1. PICK k \in DOMAIN f : z[i] = f[k]
        BY <1>7
      <3>2. PICK l \in DOMAIN f : z[j] = f[l]
        BY <1>7
      <3>3. k = l
        BY <2>2, <3>1, <3>2, <1>2
      <3> QED
        BY <3>1, <3>2, <3>3, <1>6 DEF IsInjective
    <2> QED
      BY <2>1, <2>2 DEF FakedOnce
  <1>9. FakeLeft(r) = FakeLeft(s) \ {t}
    <2>1. \A x : x \in FakeLeft(s) <=> \E e \in ToSet(f) : x = e[1]
      BY <1>1 DEF FakeLeft, ToSet
    <2>2. \A x : x \in FakeLeft(r) <=> \E e \in ToSet(z) : x = e[1]
      BY <1>8 DEF FakeLeft, ToSet
    <2>3. \A e \in ToSet(f) : e \in Threads \X Pcs
      BY <1>1 DEF ToSet
    <2>4. \A e \in Threads \X Pcs : e \in S <=> e[1] = t
      BY <1>4
    <2>5. \A x : x \in FakeLeft(r) <=> x \in FakeLeft(s) /\ x # t
      BY <1>6, <2>1, <2>2, <2>3, <2>4
    <2> QED
      BY <2>5
  <1>10. /\ r \in SchedType
         /\ r.thState = s.thState /\ r.cid = s.cid /\ r.handoff = s.handoff
         /\ r.wakeIn = s.wakeIn /\ r.futex = s.futex /\ r.curThread = s.curThread
         /\ r.freeList = s.freeList /\ r.runQueue = s.runQueue /\ r.outQueue = s.outQueue
         /\ r.sleepQueue = s.sleepQueue
    <2>1. r = [s EXCEPT !.fakeLeaves = z]
      BY <1>0, <1>1, <1>4, <1>5 DEF finishFakeLeave, SchedType
    <2> QED
      BY <1>0, <1>6, <2>1 DEF SchedType
  <1>11. Used(r) /\ Free(r, {}) /\ Promising(r)
    BY <1>0, <1>10 DEF Used, Free, Promising
  <1>12. \A ss : In(r, ss) = In(s, ss)
    BY <1>10 DEF In
  <1>13. Out(r) /\ NoContext(r, {}) /\ Asleep(r)
    BY <1>0, <1>10, <1>12 DEF Out, NoContext, Asleep
  <1>14. Queued(r, {})
    BY <1>0, <1>10, <1>12, ZenonT(60) DEF Queued, Promised
  <1> QED
    BY <1>8, <1>9, <1>10, <1>11, <1>13, <1>14 DEF Core

\* join() after a fake leave.
LEMMA JoinFakeStep ==
    ASSUME IInv, NEW t \in Threads, JoinFake(t) PROVE IInv'
  <1>1. pc[t] = "out" /\ t \in FakeLeft(sched) /\ pc' = [pc EXCEPT ![t] = "app"]
    BY DEF JoinFake
  <1>2. /\ pc' \in [Threads -> ThreadPcs] /\ pc'[t] = "app"
        /\ \A v \in Threads : v # t => pc'[v] = pc[v]
    BY <1>1, Parts, GoesTo DEF ThreadPcs
  <1>3. PICK q : q = pc'
    OBVIOUS
  <1>4. PICK r : r = finishFakeLeave(sched, t)
    OBVIOUS
  <1>5. /\ Core(r, {}, {}) /\ FakeLeft(r) = FakeLeft(sched) \ {t}
        /\ r.thState = sched.thState /\ r.cid = sched.cid /\ r.handoff = sched.handoff
        /\ r.wakeIn = sched.wakeIn /\ r.futex = sched.futex
    BY <1>4, Parts, UnfakeCore
  <1>6. ThreadAgrees(sched, pc, unfaked, t)
    BY Parts DEF Agrees
  <1>7. /\ sched.thState[t] = "RUNNING" /\ t # unfaked /\ sched.cid[t] \in Contexts
        /\ state[sched.cid[t]] = "RUNNING"
    BY <1>1, <1>6, Parts DEF ThreadAgrees, SchedType, BarrierIs, In
  <1>8. ASSUME NEW v \in Threads PROVE ThreadAgrees(r, q, unfaked, v)
    <2>1. CASE v = t
      BY <1>1, <1>2, <1>3, <1>5, <1>6, <1>7, <2>1 DEF ThreadAgrees
    <2>2. CASE v # t
      BY <1>2, <1>3, <1>5, <2>2, Parts, AgreesStill DEF Agrees
    <2> QED
      BY <2>1, <2>2
  <1>9. sched.cid[t] \notin synced
    BY <1>7, Parts, RunsUnsynced
  <1>10. BarrierIs(r, q, state, synced)
    BY <1>2, <1>3, <1>5, <1>7, <1>9, Parts, BarrierStill DEF In
  <1>11. BP!IInv' /\ state' = state /\ synced' = synced
    BY Parts, BarStutters DEF JoinFake
  <1>12. sched' = r /\ unfaked' = unfaked /\ blockingSyscalls' = blockingSyscalls
    BY <1>4 DEF JoinFake
  <1>13. Core(sched', {}, {}) /\ Agrees(sched', pc', unfaked') /\ BarrierIs(sched', pc', state', synced')
    BY <1>3, <1>5, <1>8, <1>10, <1>11, <1>12 DEF Agrees
  <1> QED
    BY <1>2, <1>11, <1>12, <1>13, Parts DEF IInv

\* The watchdog takes a fake leave off the list.
LEMMA WatchdogUnfakesStep ==
    ASSUME IInv, WatchdogUnfakes PROVE IInv'
  <1>1. PICK f : f = Head(sched.fakeLeaves)
    OBVIOUS
  <1>2. f \in Threads \X Pcs /\ f[1] \in FakeLeft(sched)
    <2>1. sched.fakeLeaves \in Seq(Threads \X Pcs) /\ sched.fakeLeaves # << >>
      BY Parts DEF WatchdogUnfakes, SchedType
    <2>2. 1 \in DOMAIN sched.fakeLeaves /\ f = sched.fakeLeaves[1]
      BY <1>1, <2>1
    <2> QED
      BY <2>1, <2>2 DEF FakeLeft
  <1>3. PICK t \in Threads : t = f[1]
    BY <1>2
  <1>4. PICK r : r = finishFakeLeave(sched, t)
    OBVIOUS
  <1>5. /\ Core(r, {}, {}) /\ FakeLeft(r) = FakeLeft(sched) \ {t}
        /\ r.thState = sched.thState /\ r.cid = sched.cid /\ r.handoff = sched.handoff
        /\ r.wakeIn = sched.wakeIn /\ r.futex = sched.futex
    BY <1>4, Parts, UnfakeCore
  <1>6. /\ unfaked = NoThread /\ unfaked' = t /\ sched' = r /\ pc' = pc
        /\ blockingSyscalls' \subseteq Pcs
    <2>1. f[2] \in Pcs
      BY <1>2
    <2> QED
      BY <1>1, <1>3, <1>4, <2>1, Parts DEF WatchdogUnfakes
  <1>7. ASSUME NEW v \in Threads PROVE ThreadAgrees(r, pc, t, v)
    <2>1. ThreadAgrees(sched, pc, unfaked, v)
      BY Parts DEF Agrees
    <2>2. CASE v = t
      BY <1>2, <1>3, <1>5, <2>1, <2>2 DEF ThreadAgrees
    <2>3. CASE v # t
      BY <1>5, <1>6, <2>1, <2>3, Given, AgreesStill
    <2> QED
      BY <2>2, <2>3
  <1>8. BarrierIs(r, pc, state, synced)
    BY <1>5, Parts, BarrierStill DEF In
  <1>9. BP!IInv' /\ state' = state /\ synced' = synced
    BY Parts, BarStutters DEF WatchdogUnfakes
  <1>10. Core(sched', {}, {}) /\ Agrees(sched', pc', unfaked') /\ BarrierIs(sched', pc', state', synced')
    BY <1>5, <1>6, <1>7, <1>8, <1>9 DEF Agrees
  <1> QED
    BY <1>6, <1>9, <1>10, Parts DEF IInv

\* The watchdog ends a phase while everyone sleeps or is blocked.
LEMMA WatchdogAdvancesStep ==
    ASSUME IInv, WatchdogAdvances PROVE IInv'
  <1>1. /\ \A c \in Contexts : sched.curThread[c] # NoThread
                                  => sched.thState[sched.curThread[c]] = "OUT"
        /\ sched' \in callback(sched) /\ pc' = pc /\ unfaked' = unfaked
        /\ blockingSyscalls' = blockingSyscalls
    BY DEF WatchdogAdvances
  <1>2. \A t \in Threads : sched.thState[t] # "RUNNING"
    <2> SUFFICES ASSUME NEW t \in Threads, sched.thState[t] = "RUNNING" PROVE FALSE
      OBVIOUS
    <2>1. PICK c \in Contexts : c = sched.cid[t]
      BY Parts DEF SchedType
    <2>2. sched.curThread[c] = t
      BY <2>1, Parts DEF Core, Used
    <2> QED
      BY <1>1, <2>1, <2>2, Given
  <1>3. Quiet(sched, pc)
    BY <1>2 DEF Quiet, In
  <1>4. BarrierIs(sched, pc, state, {})
    BY <1>2, Parts DEF BarrierIs, In
  <1>5. Core(sched', {}, {}) /\ Agrees(sched', pc, unfaked) /\ BarrierIs(sched', pc, state, {})
    BY <1>1, <1>3, <1>4, Parts, CallbackKeeps
  <1>6. \A t \in Threads : sched'.thState[t] # "RUNNING"
    <2>1. PICK r \in callback(sched) : r = sched'
      BY <1>1
    <2>2. \A t \in Threads : \/ r.thState[t] = sched.thState[t]
                             \/ sched.thState[t] = "SLEEPING" /\ r.thState[t] = "BLOCKED"
      BY <1>3, Parts, CallbackCore
    <2> QED
      BY <1>2, <2>1, <2>2
  <1>7. BarrierIs(sched', pc, state, synced)
    BY <1>5, <1>6 DEF BarrierIs, In
  <1>8. BP!IInv' /\ state' = state /\ synced' = synced
    BY Parts, BarStutters DEF WatchdogAdvances
  <1>9. Agrees(sched', pc', unfaked') /\ BarrierIs(sched', pc', state', synced')
    BY <1>1, <1>5, <1>7, <1>8
  <1> QED
    BY <1>1, <1>5, <1>8, <1>9, Parts DEF IInv

\* markForSleep().
LEMMA MarkForSleepStep ==
    ASSUME IInv, NEW t \in Threads, NEW n \in 1..MaxSleep, markForSleep(t, n) PROVE IInv'
  <1>1. pc[t] = "app" /\ pc' = [pc EXCEPT ![t] = "marked"]
    BY DEF markForSleep
  <1>2. /\ pc' \in [Threads -> ThreadPcs] /\ pc'[t] = "marked"
        /\ \A v \in Threads : v # t => pc'[v] = pc[v]
    BY <1>1, Parts, GoesTo DEF ThreadPcs
  <1>3. PICK q : q = pc'
    OBVIOUS
  <1>4. PICK r : r = sched'
    OBVIOUS
  <1>5. /\ r \in SchedType
        /\ r.futex = [sched.futex EXCEPT ![t] = 1] /\ r.wakeIn = [sched.wakeIn EXCEPT ![t] = n]
        /\ r.thState = sched.thState /\ r.cid = sched.cid /\ r.handoff = sched.handoff
        /\ r.curThread = sched.curThread
        /\ r.freeList = sched.freeList /\ r.runQueue = sched.runQueue /\ r.outQueue = sched.outQueue
        /\ r.sleepQueue = sched.sleepQueue /\ r.fakeLeaves = sched.fakeLeaves
    <2>1. r = [sched EXCEPT !.wakeIn[t] = n, !.futex[t] = 1]
      BY <1>4 DEF markForSleep
    <2>2. n \in 0..MaxSleep
      BY Given
    <2> QED
      BY <2>1, <2>2, Parts DEF SchedType
  <1>6. /\ r.futex[t] = 1 /\ r.wakeIn[t] = n
        /\ \A v \in Threads : v # t => r.futex[v] = sched.futex[v] /\ r.wakeIn[v] = sched.wakeIn[v]
    BY <1>5, Parts DEF SchedType
  <1>7. ThreadAgrees(sched, pc, unfaked, t)
    BY Parts DEF Agrees
  <1>8. /\ sched.thState[t] = "RUNNING" /\ sched.cid[t] \in Contexts
        /\ state[sched.cid[t]] = "RUNNING"
    BY <1>1, <1>7, Parts DEF ThreadAgrees, SchedType, BarrierIs, In
  <1>9. Core(r, {}, {})
    <2>1. OnlyOf(sched, r, t)
      BY <1>5, <1>6 DEF OnlyOf
    <2> QED
      BY <1>5, <1>8, <2>1, Parts, IdleCore
  <1>10. FakeLeft(r) = FakeLeft(sched)
    BY <1>5 DEF FakeLeft
  <1>11. ASSUME NEW v \in Threads PROVE ThreadAgrees(r, q, unfaked, v)
    <2>1. CASE v = t
      <3>1. r.wakeIn[t] > 0
        BY <1>6
      <3> QED
        BY <1>1, <1>2, <1>3, <1>5, <1>6, <1>7, <1>8, <1>10, <2>1, <3>1 DEF ThreadAgrees
    <2>2. CASE v # t
      BY <1>2, <1>3, <1>5, <1>6, <1>10, <2>2, Parts, AgreesStill DEF Agrees
    <2> QED
      BY <2>1, <2>2
  <1>12. sched.cid[t] \notin synced
    BY <1>8, Parts, RunsUnsynced
  <1>13. BarrierIs(r, q, state, synced)
    BY <1>2, <1>3, <1>5, <1>8, <1>12, Parts, BarrierStill DEF In
  <1>14. BP!IInv' /\ state' = state /\ synced' = synced
    BY Parts, BarStutters DEF markForSleep
  <1>15. unfaked' = unfaked /\ blockingSyscalls' = blockingSyscalls
    BY DEF markForSleep
  <1>16. Core(sched', {}, {}) /\ Agrees(sched', pc', unfaked') /\ BarrierIs(sched', pc', state', synced')
    BY <1>3, <1>4, <1>9, <1>11, <1>13, <1>14, <1>15 DEF Agrees
  <1> QED
    BY <1>2, <1>14, <1>15, <1>16, Parts DEF IInv

\* syscallLeave() that only records the leave.
LEMMA SyscallFakesLeaveStep ==
    ASSUME IInv, NEW t \in Threads, SyscallFakesLeave(t) PROVE IInv'
  <1>1. pc[t] = "app" /\ pc' = [pc EXCEPT ![t] = "out"]
    BY DEF SyscallFakesLeave
  <1>2. /\ pc' \in [Threads -> ThreadPcs] /\ pc'[t] = "out"
        /\ \A v \in Threads : v # t => pc'[v] = pc[v]
    BY <1>1, Parts, GoesTo DEF ThreadPcs
  <1>3. PICK q : q = pc'
    OBVIOUS
  <1>4. PICK r : r = sched'
    OBVIOUS
  <1>5. PICK a \in Pcs : r = [sched EXCEPT !.fakeLeaves = Append(@, <<t, a>>)]
    BY <1>4 DEF SyscallFakesLeave
  <1>6. PICK f \in Seq(Threads \X Pcs) : f = sched.fakeLeaves
    BY Parts DEF SchedType
  <1>7. PICK z : z = Append(f, <<t, a>>)
    OBVIOUS
  <1>8. PICK n \in Nat : n = Len(f) /\ DOMAIN f = 1..n
    OBVIOUS
  <1>9. /\ z \in Seq(Threads \X Pcs) /\ DOMAIN z = 1..(n + 1) /\ z[n + 1] = <<t, a>>
        /\ \A i \in 1..n : z[i] = f[i]
    BY <1>7, <1>8
  <1>10. /\ r \in SchedType /\ r.fakeLeaves = z
         /\ r.futex = sched.futex /\ r.wakeIn = sched.wakeIn
         /\ r.thState = sched.thState /\ r.cid = sched.cid /\ r.handoff = sched.handoff
         /\ r.curThread = sched.curThread
         /\ r.freeList = sched.freeList /\ r.runQueue = sched.runQueue /\ r.outQueue = sched.outQueue
         /\ r.sleepQueue = sched.sleepQueue
    <2>1. r = [sched EXCEPT !.fakeLeaves = z]
      BY <1>5, <1>6, <1>7, Parts DEF SchedType
    <2> QED
      BY <1>9, <2>1, Parts DEF SchedType
  <1>11. ThreadAgrees(sched, pc, unfaked, t)
    BY Parts DEF Agrees
  <1>12. /\ sched.thState[t] = "RUNNING" /\ sched.cid[t] \in Contexts
         /\ state[sched.cid[t]] = "RUNNING" /\ t \notin FakeLeft(sched) /\ t # unfaked
    BY <1>1, <1>11, Parts DEF ThreadAgrees, SchedType, BarrierIs, In
  <1>13. \A i \in 1..n : f[i][1] # t
    BY <1>6, <1>8, <1>12 DEF FakeLeft
  <1>14. FakedOnce(r)
    <2>1. \A i, j \in 1..n : f[i][1] = f[j][1] => i = j
      BY <1>6, <1>8, Parts DEF Core, FakedOnce
    <2>2. \A i, j \in 1..(n + 1) : z[i][1] = z[j][1] => i = j
      BY <1>9, <1>13, <2>1, SMTT(30)
    <2> QED
      BY <1>9, <1>10, <2>2 DEF FakedOnce
  <1>15. FakeLeft(r) = FakeLeft(sched) \cup {t}
    <2>1. FakeLeft(r) = {z[i][1] : i \in 1..(n + 1)}
      BY <1>9, <1>10 DEF FakeLeft
    <2>2. FakeLeft(sched) = {f[i][1] : i \in 1..n}
      BY <1>6, <1>8 DEF FakeLeft
    <2>3. z[n + 1][1] = t /\ \A i \in 1..n : z[i][1] = f[i][1]
      BY <1>9
    <2> QED
      BY <2>1, <2>2, <2>3
  <1>16. Core(r, {}, {})
    <2>1. \A ss : In(r, ss) = In(sched, ss)
      BY <1>10 DEF In
    <2>2. Used(r) /\ Free(r, {}) /\ Promising(r)
      BY <1>10, Parts DEF Core, Used, Free, Promising
    <2>3. Out(r) /\ NoContext(r, {}) /\ Asleep(r)
      BY <1>10, <2>1, Parts DEF Core, Out, NoContext, Asleep
    <2>4. Queued(r, {})
      BY <1>10, <2>1, Parts DEF Core, Queued, Promised
    <2> QED
      BY <1>10, <1>14, <2>2, <2>3, <2>4 DEF Core
  <1>17. ASSUME NEW v \in Threads PROVE ThreadAgrees(r, q, unfaked, v)
    <2>1. CASE v = t
      BY <1>1, <1>2, <1>3, <1>10, <1>11, <1>12, <1>15, <2>1 DEF ThreadAgrees
    <2>2. CASE v # t
      BY <1>2, <1>3, <1>10, <1>15, <2>2, Parts, AgreesStill DEF Agrees
    <2> QED
      BY <2>1, <2>2
  <1>18. sched.cid[t] \notin synced
    BY <1>12, Parts, RunsUnsynced
  <1>19. BarrierIs(r, q, state, synced)
    BY <1>2, <1>3, <1>10, <1>12, <1>18, Parts, BarrierStill DEF In
  <1>20. BP!IInv' /\ state' = state /\ synced' = synced
    BY Parts, BarStutters DEF SyscallFakesLeave
  <1>21. unfaked' = unfaked /\ blockingSyscalls' = blockingSyscalls
    BY DEF SyscallFakesLeave
  <1>22. Core(sched', {}, {}) /\ Agrees(sched', pc', unfaked') /\ BarrierIs(sched', pc', state', synced')
    BY <1>3, <1>4, <1>16, <1>17, <1>19, <1>20, <1>21 DEF Agrees
  <1> QED
    BY <1>2, <1>20, <1>21, <1>22, Parts DEF IInv

\* notifySleepEnd(): a sleep is cut short.
LEMMA NotifySleepEndStep ==
    ASSUME IInv, NEW t \in Threads, notifySleepEnd(t) PROVE IInv'
  <1>1. /\ pc[t] = "out" /\ sched.thState[t] = "SLEEPING" /\ pc' = pc /\ unfaked' = unfaked
        /\ blockingSyscalls' = blockingSyscalls
    BY DEF notifySleepEnd
  <1>2. PICK r : r = sched'
    OBVIOUS
  <1>3. PICK z : z = Without(sched.sleepQueue, {t})
    OBVIOUS
  <1>4. z \in Seq(Threads)
    BY <1>3, Parts, WithoutFacts DEF SchedType, Core, Asleep, Holds
  <1>5. r = [sched EXCEPT !.sleepQueue = z, !.thState[t] = "BLOCKED", !.wakeIn[t] = 0]
    BY <1>2, <1>3, Parts DEF notifySleepEnd, SchedType
  <1>6. /\ r \in SchedType /\ r.sleepQueue = z
        /\ r.thState = [sched.thState EXCEPT ![t] = "BLOCKED"]
        /\ r.wakeIn = [sched.wakeIn EXCEPT ![t] = 0]
        /\ r.futex = sched.futex /\ r.cid = sched.cid /\ r.handoff = sched.handoff
        /\ r.curThread = sched.curThread
        /\ r.freeList = sched.freeList /\ r.runQueue = sched.runQueue /\ r.outQueue = sched.outQueue
        /\ r.fakeLeaves = sched.fakeLeaves
    <2>1. 0 \in 0..MaxSleep
      BY Given
    <2> QED
      BY <1>4, <1>5, <2>1, Parts DEF SchedType, ThreadStates
  <1>7. /\ \A v \in Threads : r.thState[v] = (IF v = t THEN "BLOCKED" ELSE sched.thState[v])
        /\ \A v \in Threads : v # t => r.wakeIn[v] = sched.wakeIn[v]
    BY <1>6, Parts DEF SchedType
  <1>8. Core(r, {}, {})
    <2>1. Awoken(sched, r, t)
      BY <1>1, <1>3, <1>6, <1>7 DEF Awoken
    <2> QED
      BY <1>6, <2>1, Parts, EndSleepCore
  <1>9. FakeLeft(r) = FakeLeft(sched)
    BY <1>6 DEF FakeLeft
  <1>10. ASSUME NEW v \in Threads PROVE ThreadAgrees(r, pc, unfaked, v)
    <2>1. pc[v] = "marked" => v # t
      BY <1>1
    <2>2. ThreadAgrees(sched, pc, unfaked, v)
      BY Parts DEF Agrees
    <2> QED
      BY <1>1, <1>6, <1>7, <1>9, <2>1, <2>2, AgreesStill
  <1>11. BarrierIs(r, pc, state, synced)
    <2>1. \A v \in Threads : r.thState[v] = "RUNNING" <=> sched.thState[v] = "RUNNING"
      BY <1>1, <1>7
    <2> QED
      BY <1>6, <2>1, Parts, BarrierStill
  <1>12. BP!IInv' /\ state' = state /\ synced' = synced
    BY Parts, BarStutters DEF notifySleepEnd
  <1>13. Core(sched', {}, {}) /\ Agrees(sched', pc', unfaked') /\ BarrierIs(sched', pc', state', synced')
    BY <1>1, <1>2, <1>8, <1>10, <1>11, <1>12 DEF Agrees
  <1> QED
    BY <1>1, <1>12, <1>13, Parts DEF IInv

\* The rest of finish().
LEMMA FinishStep ==
    ASSUME IInv, NEW t \in Threads, Finish(t) PROVE IInv'
  <1>1. /\ pc[t] \in {"out", "fini"} /\ pc' = [pc EXCEPT ![t] = "none"]
        /\ sched.thState[t] \in {"STARTED", "OUT", "BLOCKED"}
        /\ unfaked' = unfaked /\ blockingSyscalls' = blockingSyscalls
    BY DEF Finish
  <1>2. /\ pc' \in [Threads -> ThreadPcs] /\ pc'[t] = "none"
        /\ \A v \in Threads : v # t => pc'[v] = pc[v]
    BY <1>1, Parts, GoesTo DEF ThreadPcs
  <1>3. PICK q : q = pc'
    OBVIOUS
  <1>4. PICK r : r = sched' /\ r = finish(sched, t)
    BY DEF Finish
  <1>5. /\ Core(r, {}, {})
        /\ \A v \in Threads : r.thState[v] = (IF v = t THEN "NONE" ELSE sched.thState[v])
        /\ \A v \in Threads : r.cid[v] = (IF v = t THEN 0 ELSE sched.cid[v])
        /\ r.handoff = sched.handoff /\ r.wakeIn = sched.wakeIn /\ r.futex = sched.futex
        /\ r.fakeLeaves = sched.fakeLeaves
    <2>1. CASE sched.thState[t] = "OUT"
      BY <1>4, <2>1, Parts, FinishOutCore
    <2>2. CASE sched.thState[t] # "OUT"
      <3>1. r = [sched EXCEPT !.thState[t] = "NONE", !.cid[t] = 0]
        BY <1>4, <2>2 DEF finish
      <3>2. 0 \in Contexts
        BY SchedulerAssumption DEF Contexts
      <3>3. /\ r \in SchedType
            /\ r.thState = [sched.thState EXCEPT ![t] = "NONE"] /\ r.cid = [sched.cid EXCEPT ![t] = 0]
            /\ r.futex = sched.futex /\ r.wakeIn = sched.wakeIn
            /\ r.handoff = sched.handoff /\ r.curThread = sched.curThread
            /\ r.freeList = sched.freeList /\ r.runQueue = sched.runQueue
            /\ r.outQueue = sched.outQueue
            /\ r.sleepQueue = sched.sleepQueue /\ r.fakeLeaves = sched.fakeLeaves
        BY <3>1, <3>2, Parts DEF SchedType, ThreadStates
      <3>4. /\ \A v \in Threads : r.thState[v] = (IF v = t THEN "NONE" ELSE sched.thState[v])
            /\ \A v \in Threads : r.cid[v] = (IF v = t THEN 0 ELSE sched.cid[v])
        BY <3>3, Parts DEF SchedType
      <3>5. OnlyOf(sched, r, t)
        BY <3>3, <3>4 DEF OnlyOf
      <3>6. Core(r, {}, {})
        BY <1>1, <2>2, <3>3, <3>4, <3>5, Parts, IdleCore
      <3> QED
        BY <3>3, <3>4, <3>6
    <2> QED
      BY <2>1, <2>2
  <1>6. FakeLeft(r) = FakeLeft(sched)
    BY <1>5 DEF FakeLeft
  <1>7. ASSUME NEW v \in Threads PROVE ThreadAgrees(r, q, unfaked, v)
    <2>1. ThreadAgrees(sched, pc, unfaked, v)
      BY Parts DEF Agrees
    <2>2. CASE v = t
      BY <1>1, <1>2, <1>3, <1>5, <1>6, <2>1, <2>2 DEF ThreadAgrees
    <2>3. CASE v # t
      BY <1>2, <1>3, <1>5, <1>6, <2>1, <2>3, AgreesStill
    <2> QED
      BY <2>2, <2>3
  <1>8. BarrierIs(r, q, state, synced)
    BY <1>1, <1>2, <1>3, <1>5, Parts, BarrierStill DEF In
  <1>9. BP!IInv' /\ state' = state /\ synced' = synced
    BY Parts, BarStutters DEF Finish
  <1>10. Core(sched', {}, {}) /\ Agrees(sched', pc', unfaked') /\ BarrierIs(sched', pc', state', synced')
    BY <1>1, <1>3, <1>4, <1>5, <1>7, <1>8, <1>9 DEF Agrees
  <1> QED
    BY <1>1, <1>2, <1>9, <1>10, Parts DEF IInv

\* A thread that executes may leave.
LEMMA MayLeave ==
    ASSUME IInv, NEW t \in Threads, NEW q, pc[t] \in {"app", "marked"},
           \A v \in Threads : v # t => q[v] = pc[v]
    PROVE  Leaving(sched, pc, unfaked, q, unfaked, t)
  <1>1. ThreadAgrees(sched, pc, unfaked, t)
    BY Parts DEF Agrees
  <1>2. /\ sched.thState[t] = "RUNNING" /\ sched.handoff[t] = NoThread
        /\ t \notin FakeLeft(sched) /\ t # unfaked
    BY <1>1 DEF ThreadAgrees
  <1>3. state[sched.cid[t]] = "RUNNING"
    BY <1>2, Parts DEF BarrierIs, In
  <1> QED
    BY <1>2, <1>3, Parts DEF Leaving, Agrees

\* The leave() of a thread that sleeps.
LEMMA SyscallSleepsStep ==
    ASSUME IInv, NEW t \in Threads, SyscallSleeps(t) PROVE IInv'
  <1>1. /\ pc[t] = "marked" /\ pc' = [pc EXCEPT ![t] = "out"] /\ LeaveToSleep(sched, t)
        /\ unfaked' = unfaked /\ blockingSyscalls' = blockingSyscalls
    BY DEF SyscallSleeps
  <1>2. /\ pc' \in [Threads -> ThreadPcs] /\ pc'[t] = "out"
        /\ \A v \in Threads : v # t => pc'[v] = pc[v]
    BY <1>1, Parts, GoesTo DEF ThreadPcs
  <1>3. PICK q : q = pc'
    OBVIOUS
  <1>4. Leaving(sched, pc, unfaked, q, unfaked, t)
    <2>1. pc[t] \in {"app", "marked"} /\ \A v \in Threads : v # t => q[v] = pc[v]
      BY <1>1, <1>2, <1>3
    <2> QED
      BY <2>1, MayLeave
  <1>5. sched.wakeIn[t] > 0 /\ sched.futex[t] = 1
    BY <1>1, Parts DEF Agrees, ThreadAgrees
  <1>6. /\ Core(sched', {}, {}) /\ Agrees(sched', q, unfaked)
        /\ BarrierIs(sched', q, state', synced') /\ BP!IInv'
    BY <1>1, <1>2, <1>3, <1>4, <1>5, Parts, LeaveToSleepKeeps
  <1>7. Agrees(sched', pc', unfaked') /\ BarrierIs(sched', pc', state', synced')
    BY <1>1, <1>3, <1>6
  <1> QED
    BY <1>1, <1>2, <1>6, <1>7, Parts DEF IInv

\* syscallLeave() that leaves, and the leave() of TakeBarrier().
LEMMA LeavesStep ==
    ASSUME IInv, NEW t \in Threads, NEW to \in {"out", "fini"}, pc[t] = "app",
           LeaveForSyscall(sched, t), pc' = [pc EXCEPT ![t] = to],
           unfaked' = unfaked, blockingSyscalls' = blockingSyscalls
    PROVE  IInv'
  <1>2. /\ pc' \in [Threads -> ThreadPcs] /\ pc'[t] = to
        /\ \A v \in Threads : v # t => pc'[v] = pc[v]
    BY Parts, GoesTo DEF ThreadPcs
  <1>3. PICK q : q = pc'
    OBVIOUS
  <1>4. Leaving(sched, pc, unfaked, q, unfaked, t)
    <2>1. pc[t] \in {"app", "marked"} /\ \A v \in Threads : v # t => q[v] = pc[v]
      BY <1>2, <1>3
    <2> QED
      BY <2>1, MayLeave
  <1>6. /\ Core(sched', {}, {}) /\ Agrees(sched', q, unfaked)
        /\ BarrierIs(sched', q, state', synced') /\ BP!IInv'
    BY <1>2, <1>3, <1>4, Parts, LeaveForSyscallKeeps
  <1>7. Agrees(sched', pc', unfaked') /\ BarrierIs(sched', pc', state', synced')
    BY <1>3, <1>6
  <1> QED
    BY <1>2, <1>6, <1>7, Parts DEF IInv

\* A real leave(), for a syscall or for fast-forward.
LEMMA SyscallLeavesStep ==
    ASSUME IInv, NEW t \in Threads, SyscallLeaves(t) \/ LeaveForGood(t) PROVE IInv'
  BY LeavesStep DEF SyscallLeaves, LeaveForGood

\* finish() does the leave() that was faked.
LEMMA FinishFakeStep ==
    ASSUME IInv, NEW t \in Threads, FinishFake(t) PROVE IInv'
  <1>1. /\ pc[t] = "out" /\ t \in FakeLeft(sched) /\ pc' = [pc EXCEPT ![t] = "fini"]
        /\ unfaked' = unfaked /\ blockingSyscalls' = blockingSyscalls
    BY DEF FinishFake
  <1>2. /\ pc' \in [Threads -> ThreadPcs] /\ pc'[t] = "fini"
        /\ \A v \in Threads : v # t => pc'[v] = pc[v]
    BY <1>1, Parts, GoesTo DEF ThreadPcs
  <1>3. PICK q : q = pc'
    OBVIOUS
  <1>4. PICK r : r = finishFakeLeave(sched, t)
    OBVIOUS
  <1>5. /\ Core(r, {}, {}) /\ FakeLeft(r) = FakeLeft(sched) \ {t}
        /\ r.thState = sched.thState /\ r.cid = sched.cid /\ r.handoff = sched.handoff
        /\ r.wakeIn = sched.wakeIn /\ r.futex = sched.futex
    BY <1>4, Parts, UnfakeCore
  <1>6. ThreadAgrees(sched, pc, unfaked, t)
    BY Parts DEF Agrees
  <1>7. /\ sched.thState[t] = "RUNNING" /\ t # unfaked /\ sched.handoff[t] = NoThread
        /\ state[sched.cid[t]] = "RUNNING"
    BY <1>1, <1>6, Parts DEF ThreadAgrees, BarrierIs, In
  <1>8. ASSUME NEW v \in Threads, v # t PROVE ThreadAgrees(r, pc, unfaked, v)
    BY <1>5, <1>8, Parts, AgreesStill DEF Agrees
  <1>9. Leaving(r, pc, unfaked, q, unfaked, t)
    BY <1>2, <1>3, <1>5, <1>7, <1>8 DEF Leaving
  <1>10. BarrierIs(r, pc, state, synced)
    BY <1>5, Parts, BarrierStill DEF In
  <1>11. LeaveForSyscall(r, t)
    BY <1>4 DEF FinishFake
  <1>12. /\ Core(sched', {}, {}) /\ Agrees(sched', q, unfaked)
         /\ BarrierIs(sched', q, state', synced') /\ BP!IInv'
    BY <1>2, <1>3, <1>5, <1>9, <1>10, <1>11, Parts, LeaveForSyscallKeeps
  <1>13. Agrees(sched', pc', unfaked') /\ BarrierIs(sched', pc', state', synced')
    BY <1>1, <1>3, <1>12
  <1> QED
    BY <1>1, <1>2, <1>12, <1>13, Parts DEF IInv

\* The watchdog's leave() for the thread it has picked.
LEMMA WatchdogLeavesStep ==
    ASSUME IInv, WatchdogLeaves PROVE IInv'
  <1>1. PICK t \in Threads : t = unfaked
    BY Parts DEF WatchdogLeaves
  <1>2. /\ LeaveForSyscall(sched, t) /\ unfaked' = NoThread /\ pc' = pc
        /\ blockingSyscalls' = blockingSyscalls
    BY <1>1 DEF WatchdogLeaves
  <1>3. ThreadAgrees(sched, pc, unfaked, t)
    BY Parts DEF Agrees
  <1>4. /\ pc[t] = "out" /\ sched.thState[t] = "RUNNING" /\ sched.handoff[t] = NoThread
        /\ t \notin FakeLeft(sched)
    BY <1>1, <1>3 DEF ThreadAgrees
  <1>5. state[sched.cid[t]] = "RUNNING"
    BY <1>4, Parts DEF BarrierIs, In
  <1>6. Leaving(sched, pc, unfaked, pc, NoThread, t)
    BY <1>1, <1>4, <1>5, Parts, Given DEF Leaving, Agrees
  <1>7. /\ Core(sched', {}, {}) /\ Agrees(sched', pc, NoThread)
        /\ BarrierIs(sched', pc, state', synced') /\ BP!IInv'
    BY <1>2, <1>4, <1>6, Parts, LeaveForSyscallKeeps
  <1>8. Agrees(sched', pc', unfaked') /\ BarrierIs(sched', pc', state', synced')
    BY <1>2, <1>7
  <1> QED
    BY <1>2, <1>7, <1>8, Parts DEF IInv

\* sync() up to its wait.
LEMMA SyncStep ==
    ASSUME IInv, NEW t \in Threads, Sync(t) PROVE IInv'
  <1>1. /\ pc[t] = "app" /\ pc' = [pc EXCEPT ![t] = "sync"]
        /\ bar!Sync(sched.cid[t]) /\ Settle(sched)
        /\ unfaked' = unfaked /\ blockingSyscalls' = blockingSyscalls
    BY DEF Sync
  <1>2. /\ pc' \in [Threads -> ThreadPcs] /\ pc'[t] = "sync"
        /\ \A v \in Threads : v # t => pc'[v] = pc[v]
    BY <1>1, Parts, GoesTo DEF ThreadPcs
  <1>3. PICK q : q = pc'
    OBVIOUS
  <1>4. ThreadAgrees(sched, pc, unfaked, t)
    BY Parts DEF Agrees
  <1>5. sched.thState[t] = "RUNNING" /\ sched.handoff[t] = NoThread
    BY <1>1, <1>4 DEF ThreadAgrees
  <1>6. PICK c \in Contexts : c = sched.cid[t]
    BY Parts DEF SchedType
  <1>7. ASSUME NEW v \in Threads PROVE ThreadAgrees(sched, q, unfaked, v)
    <2>1. ThreadAgrees(sched, pc, unfaked, v)
      BY Parts DEF Agrees
    <2>2. CASE v = t
      BY <1>1, <1>2, <1>3, <1>5, <2>1, <2>2 DEF ThreadAgrees
    <2>3. CASE v # t
      BY <1>2, <1>3, <2>1, <2>3, AgreesStill
    <2> QED
      BY <2>2, <2>3
  <1>8. Agrees(sched, q, unfaked)
    BY <1>7 DEF Agrees
  <1>9. Apart(sched, pc, sched, q, t, c)
    BY <1>2, <1>3, <1>5, <1>6, Parts DEF Apart, Core, Used
  <1>10. /\ Core(sched', {}, {}) /\ Agrees(sched', q, unfaked)
         /\ BarrierIs(sched', q, state', synced') /\ BP!IInv'
    BY <1>1, <1>2, <1>3, <1>5, <1>6, <1>8, <1>9, Parts, BarSyncKeeps
  <1>11. Agrees(sched', pc', unfaked') /\ BarrierIs(sched', pc', state', synced')
    BY <1>1, <1>3, <1>10
  <1> QED
    BY <1>1, <1>2, <1>10, <1>11, Parts DEF IInv

\* join() of a thread that is OUT.
LEMMA JoinOutStep ==
    ASSUME IInv, NEW t \in Threads, JoinOut(t) PROVE IInv'
  <1>1. /\ pc[t] = "out" /\ sched.thState[t] = "OUT" /\ pc' = [pc EXCEPT ![t] = "join"]
        /\ unfaked' = unfaked /\ blockingSyscalls' = blockingSyscalls
    BY DEF JoinOut
  <1>2. /\ pc' \in [Threads -> ThreadPcs] /\ pc'[t] = "join"
        /\ \A v \in Threads : v # t => pc'[v] = pc[v]
    BY <1>1, Parts, GoesTo DEF ThreadPcs
  <1>3. PICK q : q = pc'
    OBVIOUS
  <1>4. PICK c \in Contexts : c = sched.cid[t]
    BY Parts DEF SchedType
  <1>5. PICK r : r = Rejoined(sched, t)
    OBVIOUS
  <1>6. barJoin(r, c)
    BY <1>4, <1>5 DEF JoinOut, Rejoined
  <1>7. /\ Core(r, {}, {})
        /\ \A v \in Threads : r.thState[v] = (IF v = t THEN "RUNNING" ELSE sched.thState[v])
        /\ r.cid = sched.cid /\ r.handoff = sched.handoff /\ r.wakeIn = sched.wakeIn
        /\ r.futex = sched.futex /\ r.fakeLeaves = sched.fakeLeaves
    BY <1>1, <1>5, Parts, JoinOutCore
  <1>8. FakeLeft(r) = FakeLeft(sched)
    BY <1>7 DEF FakeLeft
  <1>9. ASSUME NEW v \in Threads PROVE ThreadAgrees(r, q, unfaked, v)
    <2>1. ThreadAgrees(sched, pc, unfaked, v)
      BY Parts DEF Agrees
    <2>2. CASE v = t
      <3>1. sched.handoff[t] = NoThread /\ t \notin FakeLeft(sched) /\ t # unfaked
        BY <1>1, <2>1, <2>2 DEF ThreadAgrees
      <3> QED
        BY <1>2, <1>3, <1>7, <1>8, <2>2, <3>1 DEF ThreadAgrees
    <2>3. CASE v # t
      BY <1>2, <1>3, <1>7, <1>8, <2>1, <2>3, AgreesStill
    <2> QED
      BY <2>2, <2>3
  <1>10. Apart(sched, pc, r, q, t, c)
    BY <1>1, <1>2, <1>3, <1>4, <1>7, Parts DEF Apart, Core, Used
  <1>11. sched' = r /\ BarrierIs(r, q, state', synced') /\ BP!IInv'
    <2>1. /\ sched.thState[t] # "RUNNING" /\ r.thState[t] = "RUNNING" /\ r.cid[t] = c
          /\ q[t] = "join"
      BY <1>1, <1>2, <1>3, <1>4, <1>7
    <2> QED
      BY <1>6, <1>10, <2>1, Parts, BarJoinKeeps
  <1>12. Core(sched', {}, {}) /\ Agrees(sched', pc', unfaked') /\ BarrierIs(sched', pc', state', synced')
    BY <1>1, <1>3, <1>7, <1>9, <1>11 DEF Agrees
  <1> QED
    BY <1>1, <1>2, <1>11, <1>12, Parts DEF IInv

\* What is known of a thread t that needs a context, and of the others.
Joining(s, p, u, q, X, t) ==
    /\ Core(s, {}, X) /\ X \ {t} = {} /\ (s.thState[t] = "QUEUED" => t \in X)
    /\ s.thState[t] \in {"STARTED", "BLOCKED", "QUEUED"} /\ s.handoff[t] = NoThread
    /\ t \notin FakeLeft(s) /\ t # u
    /\ \A v \in Threads : v # t => ThreadAgrees(s, p, u, v) /\ q[v] = p[v]

\* A thread that needs a context gets one and joins the barrier.
LEMMA RunOnKeeps ==
    ASSUME BP!IInv, NEW s, NEW p, NEW u, NEW q, NEW X, NEW t \in Threads,
           Joining(s, p, u, q, X, t), BarrierIs(s, p, state, synced), q[t] = "join",
           NEW c \in ContextFor(s, t), barJoin(schedule(TakeContext(s, c), t, c), c)
    PROVE  /\ Core(sched', {}, {}) /\ Agrees(sched', q, u)
           /\ BarrierIs(sched', q, state', synced') /\ BP!IInv'
  <1>1. /\ Core(s, {}, X) /\ X \ {t} = {} /\ (s.thState[t] = "QUEUED" => t \in X)
        /\ s.thState[t] \in {"STARTED", "BLOCKED", "QUEUED"} /\ s.handoff[t] = NoThread
        /\ t \notin FakeLeft(s) /\ t # u /\ s \in SchedType /\ Used(s)
    BY DEF Joining, Core
  <1>2. PICK r : r = schedule(TakeContext(s, c), t, c)
    OBVIOUS
  <1>3. /\ Core(r, {}, X \ {t}) /\ c \in Contexts
        /\ \A v \in Threads : v # t =>
             \/ r.thState[v] = s.thState[v]
             \/ s.thState[v] = "OUT" /\ r.thState[v] = "BLOCKED"
        /\ \A v \in Threads : v # t => r.cid[v] = s.cid[v]
        /\ r.thState[t] = "RUNNING" /\ r.cid[t] = c
        /\ r.handoff = s.handoff /\ r.futex = s.futex /\ r.wakeIn = s.wakeIn
        /\ r.fakeLeaves = s.fakeLeaves
        /\ ~ \E v \in In(s, {"RUNNING"}) : s.cid[v] = c
    <2>1. Needs(s, X, t)
      BY <1>1 DEF Needs
    <2>2. Ran(s, r, X, t, c)
      BY <1>2, <2>1, RunCore
    <2> QED
      BY <2>2 DEF Ran
  <1>4. FakeLeft(r) = FakeLeft(s)
    BY <1>3 DEF FakeLeft
  <1>5. ASSUME NEW v \in Threads PROVE ThreadAgrees(r, q, u, v)
    <2>1. CASE v = t
      BY <1>1, <1>3, <1>4, <2>1 DEF ThreadAgrees
    <2>2. CASE v # t
      BY <1>3, <1>4, <2>2, AgreesStill DEF Joining
    <2> QED
      BY <2>1, <2>2
  <1>6. Apart(s, p, r, q, t, c)
    BY <1>3 DEF Apart, Joining, In
  <1>7. barJoin(r, c)
    BY <1>2
  <1>8. sched' = r /\ BarrierIs(r, q, state', synced') /\ BP!IInv'
    BY <1>1, <1>3, <1>6, <1>7, BarJoinKeeps
  <1> QED
    BY <1>1, <1>3, <1>5, <1>8 DEF Agrees

\* A thread that needs a context and finds none is queued.
LEMMA WaitInQueueKeeps ==
    ASSUME NEW s, NEW p, NEW u, NEW q, NEW X, NEW t \in Threads, NEW st, NEW syn,
           Joining(s, p, u, q, X, t), BarrierIs(s, p, st, syn), q[t] = "ctx",
           ContextFor(s, t) = {},
           NEW r, r = Enqueued(s, t)
    PROVE  Core(r, {}, {}) /\ Agrees(r, q, u) /\ BarrierIs(r, q, st, syn)
  <1>1. /\ Core(s, {}, X) /\ X \ {t} = {} /\ (s.thState[t] = "QUEUED" => t \in X)
        /\ s.thState[t] \in {"STARTED", "BLOCKED", "QUEUED"} /\ s.handoff[t] = NoThread
        /\ t \notin FakeLeft(s) /\ t # u /\ s \in SchedType
    BY DEF Joining, Core
  <1>2. /\ Core(r, {}, X \ {t})
        /\ \A v \in Threads : r.thState[v] = (IF v = t THEN "QUEUED" ELSE s.thState[v])
        /\ \A v \in Threads : r.futex[v] = (IF v = t THEN 1 ELSE s.futex[v])
        /\ r.cid = s.cid /\ r.handoff = s.handoff /\ r.wakeIn = s.wakeIn
        /\ r.fakeLeaves = s.fakeLeaves
    BY <1>1, EnqueueCore
  <1>3. FakeLeft(r) = FakeLeft(s)
    BY <1>2 DEF FakeLeft
  <1>4. ASSUME NEW v \in Threads PROVE ThreadAgrees(r, q, u, v)
    <2>1. CASE v = t
      BY <1>1, <1>2, <1>3, <2>1 DEF ThreadAgrees
    <2>2. CASE v # t
      <3>1. r.thState[v] = s.thState[v] /\ r.futex[v] = s.futex[v]
        BY <1>2, <2>2
      <3>2. ThreadAgrees(s, p, u, v) /\ q[v] = p[v]
        BY <2>2 DEF Joining
      <3> QED
        BY <1>2, <1>3, <3>1, <3>2, AgreesStill
    <2> QED
      BY <2>1, <2>2
  <1>5. BarrierIs(r, q, st, syn)
    <2>1. \A v \in Threads : r.thState[v] = "RUNNING" <=> s.thState[v] = "RUNNING"
      BY <1>1, <1>2
    <2>2. \A v \in In(s, {"RUNNING"}) : v # t /\ v \in Threads
      BY <1>1 DEF In
    <2>3. \A v \in In(s, {"RUNNING"}) : r.cid[v] = s.cid[v] /\ r.handoff[v] = s.handoff[v] /\ q[v] = p[v]
      BY <1>2, <2>2 DEF Joining
    <2> QED
      BY <1>1, <2>1, <2>3, BarrierStill
  <1> QED
    BY <1>1, <1>2, <1>4, <1>5 DEF Agrees

\* The end of join() without a context, and of a sync() that handed it over.
LEMMA JoinsStep ==
    ASSUME IInv, NEW t \in Threads, NEW s, NEW X, BarrierIs(s, pc, state, synced),
           \A q : (\A v \in Threads : v # t => q[v] = pc[v]) => Joining(s, pc, unfaked, q, X, t),
           \/ \E c \in ContextFor(s, t) : RunOn(s, t, c)
           \/ ContextFor(s, t) = {} /\ WaitInQueue(s, t),
           unfaked' = unfaked, blockingSyscalls' = blockingSyscalls
    PROVE  IInv'
  <1>1. PICK q : q = pc'
    OBVIOUS
  <1>2. CASE \E c \in ContextFor(s, t) : RunOn(s, t, c)
    <2>1. PICK c \in ContextFor(s, t) : RunOn(s, t, c)
      BY <1>2
    <2>2. pc' = [pc EXCEPT ![t] = "join"] /\ barJoin(schedule(TakeContext(s, c), t, c), c)
      BY <2>1 DEF RunOn
    <2>3. /\ pc' \in [Threads -> ThreadPcs] /\ pc'[t] = "join"
          /\ \A v \in Threads : v # t => pc'[v] = pc[v]
      BY <2>2, Parts, GoesTo DEF ThreadPcs
    <2>4. Joining(s, pc, unfaked, q, X, t)
      BY <1>1, <2>3
    <2>5. /\ Core(sched', {}, {}) /\ Agrees(sched', q, unfaked)
          /\ BarrierIs(sched', q, state', synced') /\ BP!IInv'
      BY <1>1, <2>2, <2>3, <2>4, Parts, RunOnKeeps
    <2>6. Agrees(sched', pc', unfaked') /\ BarrierIs(sched', pc', state', synced')
      BY <1>1, <2>5
    <2> QED
      BY <2>3, <2>5, <2>6, Parts DEF IInv
  <1>3. CASE ContextFor(s, t) = {} /\ WaitInQueue(s, t)
    <2>1. PICK r : /\ r = sched'
                   /\ r = Enqueued(s, t)
      BY <1>3 DEF WaitInQueue, Enqueued
    <2>2. pc' = [pc EXCEPT ![t] = "ctx"] /\ UNCHANGED barVars
      BY <1>3 DEF WaitInQueue
    <2>3. /\ pc' \in [Threads -> ThreadPcs] /\ pc'[t] = "ctx"
          /\ \A v \in Threads : v # t => pc'[v] = pc[v]
      BY <2>2, Parts, GoesTo DEF ThreadPcs
    <2>4. Joining(s, pc, unfaked, q, X, t)
      BY <1>1, <2>3
    <2>5. Core(r, {}, {}) /\ Agrees(r, q, unfaked) /\ BarrierIs(r, q, state, synced)
      BY <1>1, <1>3, <2>1, <2>3, <2>4, WaitInQueueKeeps
    <2>6. BP!IInv' /\ state' = state /\ synced' = synced
      BY <2>2, Parts, BarStutters
    <2>7. Core(sched', {}, {}) /\ Agrees(sched', pc', unfaked') /\ BarrierIs(sched', pc', state', synced')
      BY <1>1, <2>1, <2>5, <2>6
    <2> QED
      BY <2>3, <2>6, <2>7, Parts DEF IInv
  <1> QED
    BY <1>2, <1>3

\* join() without a context.
LEMMA JoinNewStep ==
    ASSUME IInv, NEW t \in Threads, JoinNew(t) PROVE IInv'
  <1>1. PICK s : s = [sched EXCEPT !.sleepQueue = Without(@, {t}), !.wakeIn[t] = 0,
                           !.thState[t] = IF @ = "SLEEPING" THEN "BLOCKED" ELSE @]
    OBVIOUS
  <1>2. /\ pc[t] = "out" /\ s.thState[t] \in {"BLOCKED", "STARTED"}
        /\ \/ \E c \in ContextFor(s, t) : RunOn(s, t, c)
           \/ ContextFor(s, t) = {} /\ WaitInQueue(s, t)
        /\ unfaked' = unfaked /\ blockingSyscalls' = blockingSyscalls
    BY <1>1 DEF JoinNew
  <1>3. PICK z : z = Without(sched.sleepQueue, {t})
    OBVIOUS
  <1>4. z \in Seq(Threads)
    BY <1>3, Parts, WithoutFacts DEF SchedType, Core, Asleep, Holds
  <1>5. PICK to : to = (IF sched.thState[t] = "SLEEPING" THEN "BLOCKED" ELSE sched.thState[t])
    OBVIOUS
  <1>6. s = [sched EXCEPT !.sleepQueue = z, !.wakeIn[t] = 0, !.thState[t] = to]
    BY <1>1, <1>3, <1>5, Parts DEF SchedType
  <1>7. /\ s \in SchedType /\ s.sleepQueue = z
        /\ s.thState = [sched.thState EXCEPT ![t] = to]
        /\ s.wakeIn = [sched.wakeIn EXCEPT ![t] = 0]
        /\ s.futex = sched.futex /\ s.cid = sched.cid /\ s.handoff = sched.handoff
        /\ s.curThread = sched.curThread
        /\ s.freeList = sched.freeList /\ s.runQueue = sched.runQueue /\ s.outQueue = sched.outQueue
        /\ s.fakeLeaves = sched.fakeLeaves
    <2>1. 0 \in 0..MaxSleep
      BY Given
    <2>2. to \in ThreadStates
      BY <1>5, Parts DEF SchedType, ThreadStates
    <2> QED
      BY <1>4, <1>6, <2>1, <2>2, Parts DEF SchedType
  <1>8. /\ s.thState[t] = to /\ s.wakeIn[t] = 0
        /\ \A v \in Threads : v # t => s.thState[v] = sched.thState[v] /\ s.wakeIn[v] = sched.wakeIn[v]
    BY <1>7, Parts DEF SchedType
  <1>9. sched.thState[t] \in {"SLEEPING", "BLOCKED", "STARTED"}
    BY <1>2, <1>5, <1>8
  <1>10. Core(s, {}, {})
    <2>1. Awoken(sched, s, t)
      BY <1>2, <1>3, <1>7, <1>8, <1>9 DEF Awoken
    <2> QED
      BY <1>7, <2>1, Parts, EndSleepCore
  <1>11. FakeLeft(s) = FakeLeft(sched)
    BY <1>7 DEF FakeLeft
  <1>12. ThreadAgrees(sched, pc, unfaked, t)
    BY Parts DEF Agrees
  <1>13. t \notin FakeLeft(s) /\ t # unfaked /\ s.handoff[t] = NoThread
    BY <1>2, <1>7, <1>9, <1>11, <1>12 DEF ThreadAgrees
  <1>14. ASSUME NEW v \in Threads, v # t PROVE ThreadAgrees(s, pc, unfaked, v)
    BY <1>7, <1>8, <1>11, <1>14, Parts, AgreesStill DEF Agrees
  <1>15. ASSUME NEW q, \A v \in Threads : v # t => q[v] = pc[v]
         PROVE  Joining(s, pc, unfaked, q, {}, t)
    BY <1>2, <1>10, <1>13, <1>14, <1>15 DEF Joining
  <1>16. BarrierIs(s, pc, state, synced)
    <2>1. \A v \in Threads : s.thState[v] = "RUNNING" <=> sched.thState[v] = "RUNNING"
      BY <1>2, <1>8, <1>9
    <2> QED
      BY <1>7, <2>1, Parts, BarrierStill
  <1> QED
    BY <1>2, <1>15, <1>16, JoinsStep

\* sync() gives the promise up: the thread it was made to is in no queue.
Freed(s, t) == [s EXCEPT !.handoff[t] = NoThread]

\* Nobody else's promise changes.
LEMMA FreedCore ==
    ASSUME NEW s, Core(s, {}, {}), NEW t \in Threads, NEW dst \in Threads, s.handoff[t] = dst,
           NEW r, r = Freed(s, t)
    PROVE  /\ Core(r, {}, {dst}) /\ r.handoff[t] = NoThread
           /\ \A v \in Threads : v # t => r.handoff[v] = s.handoff[v]
           /\ r.thState = s.thState /\ r.cid = s.cid /\ r.wakeIn = s.wakeIn /\ r.futex = s.futex
           /\ r.fakeLeaves = s.fakeLeaves
  <1>0. /\ s \in SchedType /\ Used(s) /\ Free(s, {}) /\ Out(s) /\ Asleep(s)
        /\ Queued(s, {}) /\ Promising(s) /\ NoContext(s, {}) /\ FakedOnce(s)
    BY DEF Core
  <1>1. NoThread \notin Threads
    BY Given
  <1>2. /\ r \in SchedType
        /\ \A v \in Threads : r.handoff[v] = (IF v = t THEN NoThread ELSE s.handoff[v])
        /\ r.thState = s.thState /\ r.cid = s.cid /\ r.curThread = s.curThread
        /\ r.futex = s.futex /\ r.wakeIn = s.wakeIn
        /\ r.freeList = s.freeList /\ r.runQueue = s.runQueue /\ r.outQueue = s.outQueue
        /\ r.sleepQueue = s.sleepQueue /\ r.fakeLeaves = s.fakeLeaves
    BY <1>0 DEF SchedType, Freed
  <1>3. Used(r) /\ Free(r, {}) /\ FakedOnce(r)
    BY <1>0, <1>2 DEF Used, Free, FakedOnce
  <1>4. \A ss : In(r, ss) = In(s, ss)
    BY <1>2 DEF In
  <1>5. Out(r) /\ Asleep(r) /\ NoContext(r, {})
    BY <1>0, <1>2, <1>4 DEF Out, Asleep, NoContext
  <1>6. Promised(r) = Promised(s) \ {dst}
    <2>1. ASSUME NEW v \in Threads PROVE r.handoff[v] # dst
      BY <1>0, <1>1, <1>2 DEF Promising
    <2>2. ASSUME NEW v \in Threads, s.handoff[v] # dst PROVE r.handoff[v] = s.handoff[v]
      BY <1>2, <2>2
    <2> QED
      BY <1>1, <1>2, <2>1, <2>2 DEF Promised
  <1>7. dst \in Promised(s)
    BY <1>1 DEF Promised
  <1>8. Queued(r, {dst})
    BY <1>0, <1>2, <1>4, <1>6, <1>7 DEF Queued
  <1>9. Promising(r)
    BY <1>0, <1>2 DEF Promising
  <1> QED
    BY <1>2, <1>3, <1>5, <1>8, <1>9 DEF Core

\* deschedule() to QUEUED: the thread is not yet in the queue.
LEMMA RequeueCore ==
    ASSUME NEW s, NEW Z, Core(s, {}, Z), NEW t \in Threads, s.thState[t] = "RUNNING",
           s.handoff[t] = NoThread, NEW r, r = deschedule(s, t, "QUEUED"), NEW Y, Y = Z \cup {t}
    PROVE  Core(r, {s.cid[t]}, Y)
  <1>1. \A target \in {"BLOCKED", "QUEUED"} :
            /\ r = deschedule(s, t, target) /\ (target = "QUEUED" => Y = Z \cup {t})
            /\ (target = "BLOCKED" => Y = Z)
            => Core(r, {s.cid[t]}, Y)
    BY VacateCore
  <1>2. /\ "QUEUED" \in {"BLOCKED", "QUEUED"} /\ ("QUEUED" = "QUEUED" => Y = Z \cup {t})
        /\ ("QUEUED" = "BLOCKED" => Y = Z)
    OBVIOUS
  <1> QED
    BY <1>1, <1>2

\* ... and gets the context.
HandedOver(s, t) ==
    wakeup(schedule(deschedule(Freed(s, t), t, "QUEUED"), s.handoff[t], s.cid[t]), s.handoff[t])

Handed(s, r, t, dst) ==
    /\ Core(r, {}, {t}) /\ dst # t /\ s.thState[dst] = "QUEUED"
    /\ \A v \in Threads : r.thState[v] = (IF v = t THEN "QUEUED" ELSE
                                          IF v = dst THEN "RUNNING" ELSE s.thState[v])
    /\ \A v \in Threads : r.cid[v] = (IF v = dst THEN s.cid[t] ELSE s.cid[v])
    /\ \A v \in Threads : r.handoff[v] = (IF v = t THEN NoThread ELSE s.handoff[v])
    /\ \A v \in Threads : v # dst => r.futex[v] = s.futex[v]
    /\ r.wakeIn = s.wakeIn /\ r.fakeLeaves = s.fakeLeaves

\* sync() hands its context over.
LEMMA HandOverCore ==
    ASSUME NEW s, Core(s, {}, {}), NEW t \in Threads, s.thState[t] = "RUNNING",
           NEW dst \in Threads, s.handoff[t] = dst, NEW r, r = HandedOver(s, t)
    PROVE  Handed(s, r, t, dst)
  <1>1. PICK c \in Contexts : c = s.cid[t]
    BY DEF Core, SchedType
  <1>2. s.thState[dst] = "QUEUED" /\ c \in mask[dst]
    BY <1>1, Given DEF Core, Queued, Promised, Promising, In
  <1>3. PICK a : a = Freed(s, t)
    OBVIOUS
  <1>4. /\ Core(a, {}, {dst}) /\ a.handoff[t] = NoThread
        /\ \A v \in Threads : v # t => a.handoff[v] = s.handoff[v]
        /\ a.thState = s.thState /\ a.cid = s.cid /\ a.wakeIn = s.wakeIn /\ a.futex = s.futex
        /\ a.fakeLeaves = s.fakeLeaves
    BY <1>3, FreedCore
  <1>5. PICK Z, Y : Z = {dst} /\ Y = Z \cup {t}
    OBVIOUS
  <1>6. PICK b : b = deschedule(a, t, "QUEUED")
    OBVIOUS
  <1>8. a.thState[t] = "RUNNING" /\ Core(a, {}, Z)
    BY <1>4, <1>5
  <1>9. /\ Core(b, {a.cid[t]}, Y)
        /\ \A v \in Threads : b.thState[v] = (IF v = t THEN "QUEUED" ELSE a.thState[v])
        /\ b.cid = a.cid /\ b.handoff = a.handoff /\ b.wakeIn = a.wakeIn /\ b.futex = a.futex
        /\ b.fakeLeaves = a.fakeLeaves
    <2>1. Core(b, {a.cid[t]}, Y)
      BY <1>4, <1>5, <1>6, <1>8, RequeueCore
    <2>2. a \in SchedType
      BY <1>8 DEF Core
    <2> QED
      BY <2>1, <2>2, <1>6 DEF SchedType, deschedule
  <1>10. PICK C : C = {c}
    OBVIOUS
  <1>11. /\ Core(b, C, Y) /\ C \in SUBSET Contexts /\ c \in C /\ dst \in Y
         /\ b.thState[dst] = "QUEUED" /\ dst # t
    BY <1>1, <1>2, <1>4, <1>5, <1>9, <1>10
  <1>12. PICK d : d = schedule(b, dst, c)
    OBVIOUS
  <1>13. Core(d, C \ {c}, Y \ {dst})
    BY <1>2, <1>11, <1>12, ScheduleCore
  <1>14. C \ {c} = {} /\ Y \ {dst} = {t}
    BY <1>5, <1>10, <1>11
  <1>15. Core(d, {}, {t})
    BY <1>13, <1>14
  <1>16. b \in SchedType /\ d \in SchedType
    BY <1>11, <1>15 DEF Core
  <1>17. /\ \A v \in Threads : d.thState[v] = (IF v = dst THEN "RUNNING" ELSE b.thState[v])
         /\ \A v \in Threads : d.cid[v] = (IF v = dst THEN c ELSE b.cid[v])
         /\ d.handoff = b.handoff /\ d.futex = b.futex /\ d.wakeIn = b.wakeIn
         /\ d.fakeLeaves = b.fakeLeaves
    BY <1>12, <1>16, SMTT(30) DEF schedule, SchedType
  <1>18. r = wakeup(d, dst)
    BY <1>1, <1>3, <1>6, <1>12 DEF HandedOver
  <1>19. Core(r, {}, {t})
    BY <1>15, <1>17, <1>18, WakeupCore
  <1>20. /\ r.thState = d.thState /\ r.cid = d.cid /\ r.handoff = d.handoff /\ r.wakeIn = d.wakeIn
         /\ r.fakeLeaves = d.fakeLeaves /\ \A v \in Threads : v # dst => r.futex[v] = d.futex[v]
    BY <1>16, <1>18 DEF wakeup, SchedType
  <1> QED
    BY <1>1, <1>2, <1>4, <1>9, <1>11, <1>17, <1>19, <1>20 DEF Handed

\* sync() returns to a thread that has promised its context.
LEMMA SyncHandsOffStep ==
    ASSUME IInv, NEW t \in Threads, SyncHandsOff(t) PROVE IInv'
  <1>1. PICK dst : dst = sched.handoff[t]
    OBVIOUS
  <1>2. PICK s : s = HandedOver(sched, t)
    OBVIOUS
  <1>3. s = wakeup(schedule(deschedule([sched EXCEPT !.handoff[t] = NoThread], t, "QUEUED"),
                            sched.handoff[t], sched.cid[t]), sched.handoff[t])
    BY <1>2 DEF HandedOver, Freed
  <1>4. /\ pc[t] = "sync" /\ state[sched.cid[t]] = "RUNNING" /\ dst # NoThread
        /\ \/ \E d \in ContextFor(s, t) : RunOn(s, t, d)
           \/ ContextFor(s, t) = {} /\ WaitInQueue(s, t)
        /\ unfaked' = unfaked /\ blockingSyscalls' = blockingSyscalls
    BY <1>1, <1>3 DEF SyncHandsOff
  <1>5. /\ dst \in Threads /\ sched.thState[t] = "RUNNING" /\ t \notin FakeLeft(sched)
        /\ t # unfaked /\ sched \in SchedType /\ Used(sched)
    BY <1>1, <1>4, Parts DEF Agrees, ThreadAgrees, SchedType, Core
  <1>6. /\ Core(s, {}, {t}) /\ dst # t /\ sched.thState[dst] = "QUEUED"
        /\ \A v \in Threads : s.thState[v] = (IF v = t THEN "QUEUED" ELSE
                                              IF v = dst THEN "RUNNING" ELSE sched.thState[v])
        /\ \A v \in Threads : s.cid[v] = (IF v = dst THEN sched.cid[t] ELSE sched.cid[v])
        /\ \A v \in Threads : s.handoff[v] = (IF v = t THEN NoThread ELSE sched.handoff[v])
        /\ \A v \in Threads : v # dst => s.futex[v] = sched.futex[v]
        /\ s.wakeIn = sched.wakeIn /\ s.fakeLeaves = sched.fakeLeaves
    <2>1. Handed(sched, s, t, dst)
      BY <1>1, <1>2, <1>5, Parts, HandOverCore
    <2> QED
      BY <2>1 DEF Handed
  <1>7. FakeLeft(s) = FakeLeft(sched)
    BY <1>6 DEF FakeLeft
  <1>8. PICK c \in Contexts : c = sched.cid[t]
    BY <1>5 DEF SchedType
  <1>9. BarrierIs(s, pc, state, synced)
    <2>1. c \notin synced /\ state[c] = "RUNNING"
      BY <1>4, <1>8, Parts, RunsUnsynced
    <2>2. /\ s.thState[dst] = "RUNNING" /\ s.cid[dst] = c /\ s.thState[t] # "RUNNING"
          /\ \A v \in Threads : v \notin {t, dst} =>
               /\ s.thState[v] = sched.thState[v] /\ s.cid[v] = sched.cid[v]
               /\ s.handoff[v] = sched.handoff[v] /\ pc[v] = pc[v]
      BY <1>5, <1>6, <1>8
    <2>3. sched.thState[dst] # "RUNNING"
      BY <1>6
    <2> QED
      BY <1>5, <1>6, <1>8, <2>1, <2>2, <2>3, Parts, PassKeeps
  <1>10. ASSUME NEW v \in Threads, v # t PROVE ThreadAgrees(s, pc, unfaked, v)
    <2>1. ThreadAgrees(sched, pc, unfaked, v)
      BY Parts DEF Agrees
    <2>2. CASE v = dst
      BY <1>6, <1>7, <1>10, <2>1, <2>2 DEF ThreadAgrees
    <2>3. CASE v # dst
      BY <1>6, <1>7, <1>10, <2>1, <2>3 DEF ThreadAgrees
    <2> QED
      BY <2>2, <2>3
  <1>11. PICK X : X = {t}
    OBVIOUS
  <1>12. /\ Core(s, {}, X) /\ X \ {t} = {} /\ t \in X /\ s.thState[t] = "QUEUED"
         /\ s.handoff[t] = NoThread /\ t \notin FakeLeft(s)
    BY <1>5, <1>6, <1>7, <1>11
  <1>13. ASSUME NEW q, \A v \in Threads : v # t => q[v] = pc[v]
         PROVE  Joining(s, pc, unfaked, q, X, t)
    BY <1>5, <1>10, <1>12, <1>13 DEF Joining
  <1> QED
    BY <1>4, <1>9, <1>13, JoinsStep

-----------------------------------------------------------------------------
(***************************************************************************)
(* The invariant holds initially, and every step keeps it.                 *)
(***************************************************************************)

\* Nothing changes.
LEMMA StutterStep ==
    ASSUME IInv, UNCHANGED vars PROVE IInv'
  <1>1. UNCHANGED barVars /\ UNCHANGED <<sched, pc, unfaked, blockingSyscalls>>
    BY DEF vars
  <1> QED
    BY <1>1, Parts, BarStutters DEF IInv

\* Every step of a thread keeps the invariant.
LEMMA ThreadStep ==
    ASSUME IInv, NEW t \in Threads, Thread(t) PROVE IInv'
  <1>1. CASE Start(t) \/ Finish(t) \/ FinishFake(t)
    BY <1>1, StartStep, FinishStep, FinishFakeStep
  <1>2. CASE JoinFake(t) \/ JoinOut(t) \/ JoinNew(t) \/ JoinDone(t) \/ WaitDone(t)
    BY <1>2, JoinFakeStep, JoinOutStep, JoinNewStep, JoinDoneStep, WaitDoneStep
  <1>3. CASE Sync(t) \/ SyncDone(t) \/ SyncHandsOff(t)
    BY <1>3, SyncStep, SyncDoneStep, SyncHandsOffStep
  <1>4. CASE \E n \in 1..MaxSleep : markForSleep(t, n)
    BY <1>4, MarkForSleepStep
  <1>5. CASE SyscallSleeps(t) \/ SyscallLeaves(t) \/ SyscallFakesLeave(t)
    BY <1>5, SyscallSleepsStep, SyscallLeavesStep, SyscallFakesLeaveStep
  <1>6. CASE notifySleepEnd(t) \/ LeaveForGood(t)
    BY <1>6, NotifySleepEndStep, SyscallLeavesStep
  <1> QED
    BY <1>1, <1>2, <1>3, <1>4, <1>5, <1>6 DEF Thread

\* Every step keeps the invariant.
LEMMA NextStep ==
    ASSUME IInv, [Next]_vars PROVE IInv'
  <1>1. CASE Watchdog
    BY <1>1, WatchdogUnfakesStep, WatchdogLeavesStep, WatchdogAdvancesStep DEF Watchdog
  <1>2. CASE \E t \in Threads : Thread(t)
    BY <1>2, ThreadStep
  <1>3. CASE UNCHANGED vars
    BY <1>3, StutterStep
  <1> QED
    BY <1>1, <1>2, <1>3 DEF Next

\* Nothing is in a queue that is empty.
LEMMA EmptyHolds ==
    ASSUME NEW q, q = << >> PROVE Holds(q, {}) /\ DOMAIN q = {}
  BY DEF Holds, IsInjective, ToSet

\* Initially all contexts are free and all queues empty.
LEMMA InitCore ==
    ASSUME Init PROVE Core(sched, {}, {})
  <1>1. PICK l : l = [i \in 1..numCores |-> i - 1]
    OBVIOUS
  <1>2. l \in Seq(Contexts) /\ Holds(l, Contexts)
    <2>1. numCores \in Nat /\ Len(l) = numCores /\ DOMAIN l = 1..numCores
          /\ \A i \in 1..numCores : l[i] = i - 1
      BY <1>1, Given
    <2>2. l \in Seq(Contexts)
      BY <1>1, Given DEF Contexts
    <2>3. IsInjective(l)
      BY <2>1 DEF IsInjective
    <2>4. ToSet(l) \subseteq Contexts
      BY <2>1 DEF ToSet, Contexts
    <2>5. ASSUME NEW c \in Contexts PROVE c \in ToSet(l)
      <3>1. c + 1 \in 1..numCores /\ l[c + 1] = c
        BY <2>1 DEF Contexts
      <3> QED
        BY <2>1, <3>1 DEF ToSet
    <2> QED
      BY <2>2, <2>3, <2>4, <2>5 DEF Holds
  <1>3. 0 \in Contexts /\ 0 \in 0..MaxSleep /\ 0 \in 0..(schedQuantum - 1)
    BY SchedulerAssumption DEF Contexts
  <1>4. /\ sched.thState = [t \in Threads |-> "NONE"] /\ sched.cid = [t \in Threads |-> 0]
        /\ sched.handoff = [t \in Threads |-> NoThread] /\ sched.futex = [t \in Threads |-> 0]
        /\ sched.wakeIn = [t \in Threads |-> 0] /\ sched.curThread = [c \in Contexts |-> NoThread]
        /\ sched.freeList = l /\ sched.runQueue = << >> /\ sched.outQueue = << >>
        /\ sched.sleepQueue = << >> /\ sched.fakeLeaves = << >> /\ sched.curPhase = 0
    BY <1>1 DEF Init
  <1>5. /\ "NONE" \in ThreadStates /\ << >> \in Seq(Threads) /\ << >> \in Seq(Threads \X Pcs)
    BY DEF ThreadStates
  <1>6. sched \in SchedType
    BY <1>1, <1>2, <1>3, <1>5 DEF Init, SchedType
  <1>7. Used(sched)
    BY <1>4, Given DEF Used
  <1>8. {c \in Contexts : sched.curThread[c] = NoThread} \ {} = Contexts
    BY <1>4
  <1>9. Free(sched, {})
    BY <1>2, <1>4, <1>8 DEF Free
  <1>10. In(sched, {"OUT"}) = {} /\ In(sched, {"SLEEPING"}) = {} /\ In(sched, {"QUEUED"}) = {}
    BY <1>4 DEF In
  <1>11. Promised(sched) = {}
    BY <1>4 DEF Promised
  <1>12. \A q : q = << >> => Holds(q, {}) /\ DOMAIN q = {}
    BY EmptyHolds
  <1>13. Out(sched) /\ Asleep(sched) /\ FakedOnce(sched)
    BY <1>4, <1>10, <1>12 DEF Out, Asleep, FakedOnce
  <1>14. ((In(sched, {"QUEUED"}) \ Promised(sched)) \ {}) = {}
    BY <1>10
  <1>15. Queued(sched, {})
    BY <1>4, <1>10, <1>11, <1>12, <1>14 DEF Queued
  <1>16. Promising(sched) /\ NoContext(sched, {})
    BY <1>4, <1>12 DEF Promising, NoContext, Holds
  <1> QED
    BY <1>6, <1>7, <1>9, <1>13, <1>15, <1>16 DEF Core

\* The invariant holds initially.
LEMMA InitIInv == Init => IInv
  <1> SUFFICES ASSUME Init PROVE IInv
    OBVIOUS
  <1>1. Core(sched, {}, {})
    BY InitCore
  <1>2. /\ sched.thState = [t \in Threads |-> "NONE"] /\ sched.fakeLeaves = << >>
        /\ sched.handoff = [t \in Threads |-> NoThread]
        /\ pc = [t \in Threads |-> "none"] /\ unfaked = NoThread /\ blockingSyscalls = {}
    BY DEF Init
  <1>3. FakeLeft(sched) = {}
    BY <1>2 DEF FakeLeft
  <1>4. Agrees(sched, pc, unfaked)
    BY <1>2, <1>3, Given DEF Agrees, ThreadAgrees
  <1>5. BP!Init
    BY DEF Init, bar!Init, BP!Init
  <1>6. BP!IInv
    BY <1>5, BarrierGiven, BP!InitIInv
  <1>7. \A c \in Contexts : state[c] = "OFFLINE"
    BY <1>5 DEF BP!Init
  <1>8. BarrierIs(sched, pc, state, synced)
    BY <1>2, <1>7 DEF BarrierIs, In
  <1> QED
    BY <1>1, <1>2, <1>4, <1>6, <1>8 DEF IInv, ThreadPcs

\* What the run checks follows from the invariant.
LEMMA IInvSound ==
    ASSUME IInv PROVE SchedulerSound
  <1>0. /\ sched \in SchedType /\ Used(sched) /\ Free(sched, {}) /\ Out(sched) /\ Asleep(sched)
        /\ Queued(sched, {}) /\ Promising(sched) /\ NoContext(sched, {})
    BY DEF IInv, Core
  <1>1. TypeOK
    BY <1>0 DEF IInv, TypeOK, SchedType
  <1>2. \A ss : ThreadsIn(ss) = In(sched, ss)
    BY DEF ThreadsIn, In
  <1>3. ContextsMatch
    BY <1>0 DEF ContextsMatch, Used, ThreadsIn
  <1>4. {c \in Contexts : sched.curThread[c] = NoThread} \ {}
           = {c \in Contexts : sched.curThread[c] = NoThread}
        /\ (In(sched, {"QUEUED"}) \ Promised(sched)) \ {} = In(sched, {"QUEUED"}) \ Promised(sched)
    OBVIOUS
  <1>5. \A t \in ThreadsIn({"QUEUED", "SLEEPING"}) : sched.futex[t] = 1
    BY <1>0 DEF Queued, Asleep, ThreadsIn, In
  <1>6. QueuesExact
    BY <1>0, <1>2, <1>4, <1>5 DEF QueuesExact, Free, Out, Asleep, Queued, Promising, Promised, Holds
  <1>7. QueuedHasNoContext
    BY <1>0, <1>2 DEF QueuedHasNoContext, NoContext
  <1>8. BarrierAgrees
    <2>1. ASSUME NEW c \in Contexts
          PROVE  state[c] \in {"WAITING", "RUNNING"} <=> sched.curThread[c] \in ThreadsIn({"RUNNING"})
      BY <1>0 DEF IInv, BarrierIs, Used, ThreadsIn, In, SchedType
    <2>2. ASSUME NEW t \in Threads,
                 \/ pc[t] \in {"app", "marked"}
                 \/ pc[t] = "out" /\ t \in FakeLeft(sched)
                 \/ pc[t] = "ctx" /\ sched.futex[t] = 0
          PROVE  sched.thState[t] = "RUNNING" /\ state[sched.cid[t]] = "RUNNING"
      <3>1. ThreadAgrees(sched, pc, unfaked, t)
        BY DEF IInv, Agrees
      <3>2. sched.thState[t] = "RUNNING" /\ pc[t] \notin {"join", "sync"}
        BY <1>0, <2>2, <3>1 DEF ThreadAgrees, Queued, In
      <3> QED
        BY <3>2 DEF IInv, BarrierIs, In
    <2> QED
      BY <2>1, <2>2 DEF BarrierAgrees
  <1>9. SleepersOnTime
    <2>1. ASSUME NEW i \in DOMAIN sched.sleepQueue PROVE sched.wakeIn[sched.sleepQueue[i]] > 0
      <3>1. sched.sleepQueue[i] \in ToSet(sched.sleepQueue)
        BY DEF ToSet
      <3> QED
        BY <1>0, <3>1 DEF Asleep, Holds
    <2> QED
      BY <1>0, <2>1 DEF SleepersOnTime, Asleep
  <1>10. PromisesKept
    BY <1>0 DEF PromisesKept, Promising, IInv, Agrees, ThreadAgrees
  <1> QED
    BY <1>1, <1>3, <1>6, <1>7, <1>8, <1>9, <1>10 DEF SchedulerSound

\* Whatever the threads' system calls, the watchdog and the ends of phases do,
\* in any order and for any number of threads, contexts, masks and quanta: the
\* contexts, the four queues, the promised contexts and the deadlines that
\* join(), leave(), sync(), schedTick() and finish() maintain agree with one
\* another and with the barrier, so none of the asserts on them can fail.
THEOREM SchedulerIsSound == Spec => []SchedulerSound
  <1>1. IInv /\ [Next]_vars => IInv'
    BY NextStep
  <1>2. IInv => SchedulerSound
    BY IInvSound
  <1> QED
    BY InitIInv, <1>1, <1>2, PTL DEF Spec
=============================================================================
