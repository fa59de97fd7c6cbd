------------------------------ MODULE ProofFacts ------------------------------
(***************************************************************************)
(* Facts that the proofs of several components share: induction over the   *)
(* naturals and over finite sets, stated with the set of the values that   *)
(* are good, and what follows for the sums of Functions.                   *)
(***************************************************************************)
EXTENDS Integers, Functions, FiniteSetTheorems, WellFoundedInduction, TLAPS

-----------------------------------------------------------------------------
\* Induction over the naturals, on the set of those that are good.
LEMMA NatInduct ==
    ASSUME NEW Q \in SUBSET Nat, 0 \in Q, \A n \in Nat : n \in Q => n + 1 \in Q
    PROVE  Q = Nat
  <1>1. PICK B : B = Nat \ Q
    OBVIOUS
  <1>2. SUFFICES ASSUME B # {} PROVE FALSE
    BY <1>1
  <1>3. B \in SUBSET Nat
    BY <1>1
  <1>4. PICK n \in B : \A m \in B : ~(<<m, n>> \in OpToRel(<, Nat))
    BY <1>2, <1>3, NatLessThanWellFounded, WFMin
  <1>5. \A m \in B : ~(m < n)
    BY <1>3, <1>4 DEF OpToRel
  <1>6. n \in Nat /\ n # 0
    BY <1>1, <1>3
  <1>7. n - 1 \in Nat /\ n - 1 \notin B /\ (n - 1) + 1 = n
    BY <1>5, <1>6
  <1> QED
    BY <1>1, <1>6, <1>7

\* Induction over the subsets of a finite set, on the set Q of the good ones.
Inductive(Q, S) == \A s \in SUBSET S : s # {} /\ (\A x \in s : s \ {x} \in Q) => s \in Q

\* Induction over finite sets, for a set of sets.
LEMMA SetInduct ==
    ASSUME NEW S, IsFiniteSet(S), NEW Q \in SUBSET (SUBSET S), {} \in Q, Inductive(Q, S)
    PROVE  S \in Q
  <1>0. \A s \in SUBSET S : IsFiniteSet(s) /\ Cardinality(s) \in Nat
    BY FS_Subset, FS_CardinalityType
  <1>1. PICK N : N = {n \in Nat : \A s \in SUBSET S : Cardinality(s) = n => s \in Q}
    OBVIOUS
  <1>2. 0 \in N
    BY <1>0, <1>1, FS_EmptySet
  <1>3. ASSUME NEW n \in N PROVE n + 1 \in N
    <2> SUFFICES ASSUME NEW s \in SUBSET S, Cardinality(s) = n + 1 PROVE s \in Q
      BY <1>1, <1>3
    <2>1. n \in Nat
      BY <1>1
    <2>2. s # {}
      BY <2>1, FS_EmptySet
    <2>3. ASSUME NEW x \in s PROVE s \ {x} \in Q
      <3>1. Cardinality(s \ {x}) = n
        BY <2>1, <1>0, FS_RemoveElement, SMTT(30)
      <3> QED
        BY <1>1, <2>1, <3>1
    <2> QED
      BY <2>2, <2>3 DEF Inductive
  <1>4. N = Nat
    <2>1. N \in SUBSET Nat
      BY <1>1
    <2> QED
      BY <2>1, <1>2, <1>3, NatInduct
  <1> QED
    BY <1>0, <1>1, <1>4

\* The recursion behind a sum, for functions g on the sets of indices.
First(s) == CHOOSE x \in s : TRUE
SumStep(f, g, s) == IF s = {} THEN 0 ELSE f[First(s)] + g[s \ {First(s)}]
SumRec(f, g, S) == g = [s \in SUBSET S |-> SumStep(f, g, s)]

\* It has a solution: on the sets of at most n indices, for every n.
LEMMA SumExists ==
    ASSUME NEW f, NEW S, IsFiniteSet(S)
    PROVE  \E h : SumRec(f, h, S)
  <1> DEFINE Upto(h, n) == /\ h = [s \in SUBSET S |-> h[s]]
                           /\ \A s \in SUBSET S : Cardinality(s) <= n => h[s] = SumStep(f, h, s)
  <1>0. \A s \in SUBSET S : IsFiniteSet(s) /\ Cardinality(s) \in Nat /\ Cardinality(s) <= Cardinality(S)
    BY FS_Subset, FS_CardinalityType
  <1>1. PICK N : N = {n \in Nat : \E h : Upto(h, n)}
    OBVIOUS
  <1>2. 0 \in N
    <2>1. PICK k : k = [s \in SUBSET S |-> 0]
      OBVIOUS
    <2>2. \A s \in SUBSET S : Cardinality(s) <= 0 => s = {}
      BY <1>0, FS_EmptySet
    <2>3. Upto(k, 0)
      BY <2>1, <2>2 DEF SumStep
    <2> QED
      BY <1>1, <2>3
  <1>3. ASSUME NEW n \in N PROVE n + 1 \in N
    <2>1. n \in Nat
      BY <1>1
    <2>2. PICK h : Upto(h, n)
      BY <1>1
    <2>3. PICK k : k = [s \in SUBSET S |-> SumStep(f, h, s)]
      OBVIOUS
    <2>4. \A s \in SUBSET S : Cardinality(s) <= n => k[s] = h[s]
      BY <2>2, <2>3
    <2>5. ASSUME NEW s \in SUBSET S, Cardinality(s) <= n + 1 PROVE k[s] = SumStep(f, k, s)
      <3>1. CASE s = {}
        BY <3>1, <2>3 DEF SumStep
      <3>2. CASE s # {}
        <4>1. First(s) \in s
          BY <3>2 DEF First
        <4>2. PICK r : r = s \ {First(s)}
          OBVIOUS
        <4>3. r \in SUBSET S /\ Cardinality(r) = Cardinality(s) - 1
          BY <4>1, <4>2, <1>0, FS_RemoveElement
        <4>4. Cardinality(r) <= n
          BY <4>3, <2>1, <2>5, <1>0
        <4>5. k[r] = h[r]
          BY <4>3, <4>4, <2>4
        <4> QED
          BY <3>2, <4>2, <4>5, <2>3 DEF SumStep
      <3> QED
        BY <3>1, <3>2
    <2>6. PICK m \in Nat : m = n + 1
      BY <2>1
    <2>7. Upto(k, m)
      BY <2>3, <2>5, <2>6
    <2> HIDE DEF Upto
    <2>8. m \in N
      BY <1>1, <2>6, <2>7
    <2> QED
      BY <2>6, <2>8
  <1>4. N = Nat
    <2> HIDE DEF Upto
    <2> QED
      BY <1>1, <1>2, <1>3, NatInduct
  <1>5. Cardinality(S) \in N
    BY <1>4, FS_CardinalityType
  <1>6. PICK h : Upto(h, Cardinality(S))
    BY <1>1, <1>5
  <1> QED
    BY <1>0, <1>6 DEF SumRec

SumBy(f, g, S) ==
    /\ SumFunction(f) = g[S]
    /\ g[{}] = 0
    /\ \A s \in SUBSET S : s # {} => First(s) \in s /\ g[s] = f[First(s)] + g[s \ {First(s)}]

\* The sum of f over S is the value at S of such a solution.
LEMMA SumSolves ==
    ASSUME NEW S, IsFiniteSet(S), NEW f \in [S -> Int]
    PROVE  \E g : SumBy(f, g, S)
  <1>1. PICK g : g = CHOOSE h : SumRec(f, h, S)
    OBVIOUS
  <1>2. SumRec(f, g, S)
    <2>1. \E h : SumRec(f, h, S)
      BY SumExists
    <2> HIDE DEF SumRec
    <2> QED
      BY <1>1, <2>1
  <1>3. SumFunction(f) = g[S]
    BY <1>1 DEF SumFunction, SumFunctionOnSet, FoldFunctionOnSet, MapThenFoldSet, SumRec, SumStep, First
  <1>4. \A s \in SUBSET S : g[s] = SumStep(f, g, s)
    BY <1>2 DEF SumRec
  <1>5. \A s \in SUBSET S : s # {} => First(s) \in s
    BY DEF First
  <1> QED
    BY <1>3, <1>4, <1>5 DEF SumStep, SumBy

\* The sum of integers is one, and changes with an element by as much as it does.
LEMMA SumChange ==
    ASSUME NEW S, IsFiniteSet(S), NEW f \in [S -> Int], NEW g \in [S -> Int], NEW t \in S,
           \A x \in S : x # t => g[x] = f[x]
    PROVE  /\ SumFunction(f) \in Int /\ SumFunction(g) \in Int
           /\ SumFunction(g) = SumFunction(f) - f[t] + g[t]
  <1>1. PICK F : SumBy(f, F, S)
    BY SumSolves
  <1>2. PICK G : SumBy(g, G, S)
    BY SumSolves
  <1> DEFINE Good(s) == /\ F[s] \in Int /\ G[s] \in Int
                        /\ (t \notin s => G[s] = F[s])
                        /\ (t \in s => G[s] = F[s] - f[t] + g[t])
  <1>3. PICK Q : Q = {s \in SUBSET S : Good(s)}
    OBVIOUS
  <1>4. {} \in Q
    BY <1>1, <1>2, <1>3 DEF SumBy
  <1>5. ASSUME NEW s \in SUBSET S, s # {}, \A x \in s : s \ {x} \in Q PROVE s \in Q
    <2>1. PICK x \in s : x = First(s)
      BY <1>1, <1>5 DEF SumBy
    <2>2. PICK r : r = s \ {x}
      OBVIOUS
    <2>3. Good(r)
      BY <1>3, <1>5, <2>2
    <2>4. F[s] = f[x] + F[r] /\ G[s] = g[x] + G[r]
      BY <1>1, <1>2, <1>5, <2>1, <2>2 DEF SumBy
    <2>5. x \in S /\ f[x] \in Int /\ g[x] \in Int /\ f[t] \in Int /\ g[t] \in Int
      OBVIOUS
    <2>6. CASE x = t
      BY <1>3, <2>2, <2>3, <2>4, <2>5, <2>6
    <2>7. CASE x # t
      <3>1. g[x] = f[x] /\ (t \in r <=> t \in s)
        BY <2>2, <2>5, <2>7
      <3> QED
        BY <1>3, <2>3, <2>4, <2>5, <3>1
    <2> QED
      BY <2>6, <2>7
  <1>6. Q \in SUBSET (SUBSET S)
    BY <1>3
  <1>7. S \in Q
    BY <1>4, <1>5, <1>6, SetInduct DEF Inductive
  <1> QED
    BY <1>1, <1>2, <1>3, <1>7 DEF SumBy

\* Greater terms, greater sums.
LEMMA SumMonotone ==
    ASSUME NEW S, IsFiniteSet(S), NEW f \in [S -> Int], NEW g \in [S -> Int],
           \A x \in S : f[x] <= g[x]
    PROVE  SumFunction(f) \in Int /\ SumFunction(g) \in Int /\ SumFunction(f) <= SumFunction(g)
  <1>1. PICK F : SumBy(f, F, S)
    BY SumSolves
  <1>2. PICK G : SumBy(g, G, S)
    BY SumSolves
  <1> DEFINE Good(s) == F[s] \in Int /\ G[s] \in Int /\ F[s] <= G[s]
  <1>3. PICK Q : Q = {s \in SUBSET S : Good(s)}
    OBVIOUS
  <1>4. {} \in Q
    BY <1>1, <1>2, <1>3 DEF SumBy
  <1>5. ASSUME NEW s \in SUBSET S, s # {}, \A x \in s : s \ {x} \in Q PROVE s \in Q
    <2>1. PICK x \in s : x = First(s)
      BY <1>1, <1>5 DEF SumBy
    <2>2. PICK r : r = s \ {x}
      OBVIOUS
    <2>3. Good(r)
      BY <1>3, <1>5, <2>2
    <2>4. F[s] = f[x] + F[r] /\ G[s] = g[x] + G[r]
      BY <1>1, <1>2, <1>5, <2>1, <2>2 DEF SumBy
    <2>5. f[x] \in Int /\ g[x] \in Int /\ f[x] <= g[x]
      OBVIOUS
    <2> QED
      BY <1>3, <2>3, <2>4, <2>5
  <1>6. Q \in SUBSET (SUBSET S)
    BY <1>3
  <1>7. S \in Q
    BY <1>4, <1>5, <1>6, SetInduct DEF Inductive
  <1> QED
    BY <1>1, <1>2, <1>3, <1>7 DEF SumBy

\* A sum of equal terms.
LEMMA SumConstant ==
    ASSUME NEW S, IsFiniteSet(S), NEW c \in Int, NEW f \in [S -> Int], \A x \in S : f[x] = c
    PROVE  Cardinality(S) \in Nat /\ SumFunction(f) = Cardinality(S) * c
  <1>0. \A s \in SUBSET S : IsFiniteSet(s) /\ Cardinality(s) \in Nat
    BY FS_Subset, FS_CardinalityType
  <1>1. PICK F : SumBy(f, F, S)
    BY SumSolves
  <1>3. PICK Q : Q = {s \in SUBSET S : F[s] = Cardinality(s) * c}
    OBVIOUS
  <1>4. {} \in Q
    BY <1>1, <1>3, FS_EmptySet DEF SumBy
  <1>5. ASSUME NEW s \in SUBSET S, s # {}, \A x \in s : s \ {x} \in Q PROVE s \in Q
    <2>1. PICK x \in s : x = First(s)
      BY <1>1, <1>5 DEF SumBy
    <2>2. PICK r : r = s \ {x}
      OBVIOUS
    <2>3. r \in SUBSET S /\ F[r] = Cardinality(r) * c
      BY <1>3, <1>5, <2>2
    <2>4. F[s] = c + F[r]
      BY <1>1, <1>5, <2>1, <2>2 DEF SumBy
    <2>5. Cardinality(r) = Cardinality(s) - 1
      BY <1>0, <2>2, FS_RemoveElement
    <2>6. PICK n \in Nat : n = Cardinality(s)
      BY <1>0
    <2>7. c + (n - 1) * c = n * c
      OBVIOUS
    <2> QED
      BY <1>3, <2>3, <2>4, <2>5, <2>6, <2>7
  <1>6. Q \in SUBSET (SUBSET S)
    BY <1>3
  <1>7. S \in Q
    BY <1>4, <1>5, <1>6, SetInduct DEF Inductive
  <1> QED
    BY <1>0, <1>1, <1>3, <1>7 DEF SumBy

\* A sum of naturals is one, and not below any of its terms.
LEMMA SumOfNaturals ==
    ASSUME NEW S, IsFiniteSet(S), NEW f \in [S -> Nat]
    PROVE  SumFunction(f) \in Nat /\ \A t \in S : f[t] <= SumFunction(f)
  <1>1. PICK z : z = [x \in S |-> 0]
    OBVIOUS
  <1>2. z \in [S -> Int] /\ f \in [S -> Int]
    BY <1>1
  <1>3. SumFunction(z) = 0
    <2>1. Cardinality(S) \in Nat /\ SumFunction(z) = Cardinality(S) * 0
      BY <1>1, <1>2, SumConstant
    <2> QED
      BY <2>1
  <1>4. SumFunction(f) \in Nat
    <2>1. SumFunction(f) \in Int /\ SumFunction(z) <= SumFunction(f)
      BY <1>1, <1>2, SumMonotone
    <2> QED
      BY <1>3, <2>1
  <1>5. ASSUME NEW t \in S PROVE f[t] <= SumFunction(f)
    <2>1. PICK y : y = [x \in S |-> IF x = t THEN f[t] ELSE 0]
      OBVIOUS
    <2>2. y \in [S -> Int] /\ y[t] = f[t] /\ z[t] = 0
      BY <1>1, <2>1
    <2>3. SumFunction(y) = SumFunction(z) - z[t] + y[t]
      BY <1>1, <1>2, <2>1, <2>2, SumChange
    <2>4. SumFunction(y) <= SumFunction(f)
      BY <1>2, <2>1, <2>2, SumMonotone
    <2> QED
      BY <1>3, <2>2, <2>3, <2>4
  <1> QED
    BY <1>4, <1>5

-----------------------------------------------------------------------------
(***************************************************************************)
(* Products and quotients.                                                 *)
(***************************************************************************)

\* Multiplication grows with its factor, by at least the other one.
LEMMA TimesGrows ==
    ASSUME NEW a \in Nat, NEW b \in Nat, a < b, NEW d \in Nat
    PROVE  a * d + d <= b * d
  <1>1. PICK k \in Nat : b = a + 1 + k
    <2>1. b - a - 1 \in Nat /\ b = a + 1 + (b - a - 1)
      OBVIOUS
    <2> QED
      BY <2>1
  <1>2. k * d \in Nat /\ a * d \in Nat
    OBVIOUS
  <1>3. (a + 1 + k) * d = a * d + d + k * d
    OBVIOUS
  <1> QED
    BY <1>1, <1>2, <1>3

\* The integer part of a quotient.
LEMMA DivFacts ==
    ASSUME NEW n \in Nat, NEW d \in Nat \ {0}
    PROVE  (n \div d) \in Nat /\ (n \div d) * d <= n /\ n < (n \div d) * d + d
  OBVIOUS

\* It is at least q if the dividend is at least q times the divisor.
LEMMA DivAtLeast ==
    ASSUME NEW n \in Nat, NEW d \in Nat \ {0}, NEW q \in Nat
    PROVE  n >= q * d <=> (n \div d) >= q
  <1>1. PICK r \in Nat : r = n \div d /\ r * d <= n /\ n < r * d + d
    BY DivFacts
  <1>2. \A a, b \in Nat : a < b => a * d + d <= b * d
    BY TimesGrows
  <1>3. PICK x \in Nat : x = r * d
    OBVIOUS
  <1>4. PICK y \in Nat : y = q * d
    OBVIOUS
  <1>5. (q < r => y + d <= x) /\ (r < q => x + d <= y) /\ (r = q => x = y) /\ x <= n /\ n < x + d
    BY <1>1, <1>2, <1>3, <1>4
  <1>6. n >= y <=> r >= q
    BY <1>5
  <1> QED
    BY <1>1, <1>4, <1>6

\* Division is monotone.
LEMMA DivMonotone ==
    ASSUME NEW m \in Nat, NEW n \in Nat, m <= n, NEW d \in Nat \ {0}
    PROVE  (m \div d) <= (n \div d)
  <1>1. PICK q \in Nat : q = m \div d /\ q * d <= m
    BY DivFacts
  <1>2. PICK x \in Nat : x = q * d /\ x <= m
    BY <1>1
  <1>3. n >= q * d
    BY <1>2
  <1> QED
    BY <1>1, <1>3, DivAtLeast, DivFacts

\* Conversions round down, a sum by at most one more than its parts.
LEMMA DivSum ==
    ASSUME NEW m \in Nat, NEW n \in Nat, NEW d \in Nat \ {0}
    PROVE  /\ (m \div d) + (n \div d) <= ((m + n) \div d)
           /\ ((m + n) \div d) <= (m \div d) + (n \div d) + 1
  <1>1. PICK q \in Nat : q = m \div d /\ q * d <= m /\ m < q * d + d
    BY DivFacts
  <1>2. PICK r \in Nat : r = n \div d /\ r * d <= n /\ n < r * d + d
    BY DivFacts
  <1>3. PICK x \in Nat : x = q * d /\ x <= m /\ m < x + d
    BY <1>1
  <1>4. PICK y \in Nat : y = r * d /\ y <= n /\ n < y + d
    BY <1>2
  <1>5. (q + r) * d = x + y /\ (q + r + 2) * d = x + y + d + d
    BY <1>3, <1>4
  <1>6. m + n >= (q + r) * d /\ ~(m + n >= (q + r + 2) * d)
    BY <1>3, <1>4, <1>5
  <1>7. PICK z \in Nat : z = (m + n) \div d
    BY DivFacts
  <1>8. z >= q + r /\ ~(z >= q + r + 2)
    <2>1. m + n \in Nat /\ q + r \in Nat /\ q + r + 2 \in Nat
      OBVIOUS
    <2> QED
      BY <1>6, <1>7, <2>1, DivAtLeast
  <1>9. q + r <= z /\ z <= q + r + 1
    BY <1>8
  <1> QED
    BY <1>1, <1>2, <1>7, <1>9
=============================================================================
