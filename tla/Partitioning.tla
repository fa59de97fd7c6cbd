---------------------------- MODULE Partitioning ----------------------------
(***************************************************************************)
(* How a partitioned cache decides the sizes of its partitions: one        *)
(* utility monitor per partition (utility_monitor.cpp), the miss curves    *)
(* made from them (monitor.cpp) and the lookahead algorithm (lookahead.cpp)*)
(* that is run at each tick of the partitioner.                            *)
(***************************************************************************)
EXTENDS Integers, Sequences, SequencesExt, FiniteSets, FiniteSetsExt, Functions, Folds, TLC

CONSTANTS Parts,                \* partitions: 0 .. Parts - 1
          UMonWays,             \* buckets of a monitor
          Buckets,              \* buckets of an allocation
          WordBits              \* width of the difference of two miss counts: 32 in the code

ASSUME PartitioningAssumption ==
    /\ {Parts, UMonWays, Buckets, WordBits} \subseteq Nat \ {0}
    /\ Buckets % UMonWays = 0 \/ UMonWays % Buckets = 0

Managed == 0 .. Parts - 1

-----------------------------------------------------------------------------
(* UMon: an LRU stack of the sampled addresses of one set, most recent first *)

NewUMon == [stack |-> [b \in 1 .. UMonWays |-> 0], hits |-> [b \in 1 .. UMonWays |-> 0], misses |-> 0]

UMonAccess(u, a) ==
    LET at == {b \in 1 .. UMonWays : u.stack[b] = a}
        pos == IF at = {} THEN UMonWays ELSE Min(at)
    IN  [stack |-> <<a>> \o RemoveAt(u.stack, pos),
         hits |-> IF at = {} THEN u.hits ELSE [u.hits EXCEPT ![pos] = @ + 1],
         misses |-> IF at = {} THEN u.misses + 1 ELSE u.misses]

startNextInterval(u) == [u EXCEPT !.hits = [b \in 1 .. UMonWays |-> 0], !.misses = 0]

\* getMisses(): the misses with b of the ways, for b in 0 .. UMonWays.
getMisses(u) ==
    [b \in 0 .. UMonWays |-> u.misses + SumFunctionOnSet(u.hits, b + 1 .. UMonWays)]

\* getMissCurve(): the curve in Buckets + 1 points, by sampling or by interpolation.
getMissCurve(u) ==
    LET m == getMisses(u)
        down == UMonWays \div Buckets
        up == Buckets \div UMonWays
        between(j, k) == (m[j] * (up - k) + m[j + 1] * k) \div up
    IN  [b \in 0 .. Buckets |->
            IF b = Buckets THEN m[UMonWays]
            ELSE IF UMonWays >= Buckets THEN m[b * down]
            ELSE between(b \div up, b % up)]

\* UMonMonitor::get(): missCache has Buckets entries for a partition, so that the last
\* point of a curve is where the first one of the next partition is, which is written later.
get(mons, p, b) ==
    IF b = Buckets /\ p < Parts - 1 THEN getMissCurve(mons[p + 1])[0] ELSE getMissCurve(mons[p])[b]

-----------------------------------------------------------------------------
(* The lookahead algorithm *)

\* The first of the options with the most extra hits per bucket.
MostUseful(options) ==
    FoldLeft(LAMBDA best, o : IF o.hits * best.n > best.hits * o.n THEN o ELSE best, Head(options), Tail(options))

\* How many buckets, up to balance, a partition should get, and the hits that they add.
getMaxMarginalUtility(mons, p, alloc, balance) ==
    MostUseful([i \in 1 .. balance |->
                    [part |-> p, n |-> i, hits |-> (get(mons, p, alloc) - get(mons, p, alloc + i)) % 2^WordBits]])

\* Every partition starts with minAlloc, which is taken from the balance once.
computeBestPartitioning(mons, buckets, minAlloc) ==
    LET grant(s, o) == [allocs |-> [s.allocs EXCEPT ![o.part] = @ + o.n], balance |-> s.balance - o.n]
        best(s) == MostUseful([i \in 1 .. Parts |->
                                  getMaxMarginalUtility(mons, i - 1, s.allocs[i - 1], s.balance)])
        loop(s, i) == IF s.balance > 0 THEN grant(s, best(s)) ELSE s
    IN  FoldLeft(loop, [allocs |-> [p \in Managed |-> minAlloc], balance |-> buckets - minAlloc],
                 [i \in 1 .. buckets |-> i]).allocs

\* LookaheadPartitioner::partition(), up to setPartitionSizes(); portion is in percent.
partition(mons, portion) == computeBestPartitioning(mons, (portion * Buckets) \div 100, Parts)
=============================================================================
