---------------------------- MODULE ReplPolicies ----------------------------
(***************************************************************************)
(* The replacement policies of cache arrays (src/src/repl_policies.h,      *)
(* part_repl_policies.h, and that of ideal_arrays.h).  A policy is a       *)
(* record; update(), replaced() and rank() are operators on it.            *)
(*                                                                         *)
(* TreeLRU is LRU here: it overrides the hooks of LegacyReplPolicy, but    *)
(* inherits rank() from LRUReplPolicy, which does not call them.  SHARP,   *)
(* as BuildCacheBank() builds it, is LRU without sharers.  Vantage's        *)
(* smoothTransients (off by default) is left out.                          *)
(***************************************************************************)
EXTENDS Partitioning

CONSTANTS NumLines, Assoc,      \* lines of the array, and candidates of a replacement
          ScoreBits,            \* rank() keeps scores in uint32_t: 32 in the code
          Interval,             \* candidates between adjustments of a setpoint: 256
          BtsShare              \* a coarse timestamp lasts for a 1/16 of the partition: 16

ASSUME PolicyAssumption ==
    /\ {NumLines, Assoc, ScoreBits, Interval, BtsShare} \subseteq Nat \ {0}
    /\ Assoc <= NumLines

Lines == 0 .. NumLines - 1
\* Of the lines of each partition; Parts stands for the unmanaged region.
NoPart == [p \in 0 .. Parts |-> 0]

\* The least, by <, of a non-empty sequence of candidates; the first one wins a tie.
FirstLeast(cands, before(_, _)) ==
    FoldLeft(LAMBDA best, c : IF before(c, best) THEN c ELSE best, Head(cands), Tail(cands))

-----------------------------------------------------------------------------
(* The constructors *)

NewLRU(sharersAware) == [kind |-> "LRU", sharers |-> sharersAware, ts |-> 1, t |-> [l \in Lines |-> 0]]

NewNRU == [kind |-> "NRU", bits |-> [l \in Lines |-> 0], young |-> 0]

NewRand == [kind |-> "Rand"]

NewLFU == [kind |-> "LFU", ts |-> 1, t |-> [l \in Lines |-> 0], acc |-> [l \in Lines |-> 0]]

\* All lines are in partition 0 at first.
NewWayPart(testMode) ==
    [kind |-> "WayPart", test |-> testMode, ts |-> 1, t |-> [l \in Lines |-> 0], p |-> [l \in Lines |-> 0],
     size |-> [NoPart EXCEPT ![0] = NumLines], way |-> [w \in 1 .. Assoc |-> ((w - 1) * Parts) \div Assoc]]

\* All lines are unmanaged at first; 85% of the lines are for the partitions.
NewVantage ==
    LET target == [[p \in 0 .. Parts |-> ((NumLines * 85) \div 100) \div Parts] EXCEPT ![Parts] = 0]
    IN  [kind |-> "Vantage", ts |-> 1, t |-> [l \in Lines |-> 0], bts |-> [l \in Lines |-> 0],
         p |-> [l \in Lines |-> Parts], op |-> [l \in Lines |-> Parts],
         size |-> [NoPart EXCEPT ![Parts] = NumLines], ext |-> [NoPart EXCEPT ![Parts] = NumLines],
         target |-> target,
         cur |-> NoPart, hits |-> NoPart, setp |-> NoPart, dems |-> NoPart, seen |-> NoPart]

\* All lines are in one list; the last is the least recently used.
NewIdealLRU == [kind |-> "IdealLRU", list |-> [i \in 1 .. NumLines |-> NumLines - i]]

\* All lines are in the list of partition 0; the last of a list is the least recently used.
NewIdealPart ==
    [kind |-> "IdealPart", used |-> [l \in Lines |-> TRUE], p |-> [l \in Lines |-> 0],
     list |-> [p \in Managed |-> IF p = 0 THEN [i \in 1 .. NumLines |-> NumLines - i] ELSE <<>>],
     size |-> [NoPart EXCEPT ![0] = NumLines], target |-> [p \in Managed |-> NumLines \div Parts]]

-----------------------------------------------------------------------------
(* update(), when line id is hit or has just been filled *)

NRUUpdate(q, id) ==
    LET young == q.young + (IF q.bits[id] >= 2 THEN 0 ELSE 1)
        bits == [q.bits EXCEPT ![id] = IF @ >= 2 THEN @ ELSE @ + 2]
    IN  IF young >= NumLines \div 2
        THEN [q EXCEPT !.bits = [l \in Lines |-> bits[l] \div 2], !.young = 0]
        ELSE [q EXCEPT !.bits = bits, !.young = young]

\* The timestamp of a line is the mean of those of its accesses.
LFUUpdate(q, id) ==
    [q EXCEPT !.t[id] = (q.acc[id] * @ + q.ts) \div (q.acc[id] + 1), !.acc[id] = @ + 1, !.ts = @ + 1000]

BugWayPartUpdate(q, id, part) ==                        \* the size of the old partition is kept
    LET r == [q EXCEPT !.t[id] = q.ts, !.ts = @ + 1]
    IN  IF q.t[id] > 0 THEN r ELSE [r EXCEPT !.size[part] = @ + (IF q.p[id] = part THEN 0 ELSE 1), !.p[id] = part]

WayPartUpdate(q, id, part) ==
    LET r == [q EXCEPT !.t[id] = q.ts, !.ts = @ + 1]
    IN  IF q.t[id] > 0 THEN r
        ELSE [r EXCEPT !.size = [[@ EXCEPT ![q.p[id]] = @ - 1] EXCEPT ![part] = @ + 1], !.p[id] = part]

\* A line of the unmanaged region that is hit is promoted to the partition of the request.
VantageUpdate(q, id, part) ==
    LET hit == q.t[id] > 0
        to == IF hit /\ q.p[id] # Parts THEN q.p[id] ELSE part
        r == [q EXCEPT !.t[id] = q.ts, !.ts = @ + 1, !.p[id] = to,
                       !.size = [[@ EXCEPT ![q.p[id]] = @ - 1] EXCEPT ![to] = @ + 1],
                       !.op[id] = IF hit THEN @ ELSE to,
                       !.ext = IF hit THEN @ ELSE [[@ EXCEPT ![q.op[id]] = @ - 1] EXCEPT ![to] = @ + 1]]
        next == r.hits[to] + 1 >= r.size[to] \div BtsShare
    IN  [r EXCEPT !.bts[id] = r.cur[to], !.hits[to] = IF next THEN 0 ELSE @ + 1,
                  !.cur[to] = IF next THEN @ + 1 ELSE @, !.setp[to] = IF next THEN @ + 1 ELSE @]

IdealPartUpdate(q, id, part) ==
    LET to == IF q.used[id] THEN q.p[id] ELSE part
        gone == [q.list EXCEPT ![q.p[id]] = Remove(@, id)]
    IN  [q EXCEPT !.list = [gone EXCEPT ![to] = <<id>> \o @], !.used[id] = TRUE, !.p[id] = to,
                  !.size = [[@ EXCEPT ![q.p[id]] = @ - 1] EXCEPT ![to] = @ + 1]]

update(q, id, part) ==
    CASE q.kind = "LRU" -> [q EXCEPT !.t[id] = q.ts, !.ts = @ + 1]
      [] q.kind = "NRU" -> NRUUpdate(q, id)
      [] q.kind = "Rand" -> q
      [] q.kind = "LFU" -> LFUUpdate(q, id)
      [] q.kind = "WayPart" -> WayPartUpdate(q, id, part)
      [] q.kind = "Vantage" -> VantageUpdate(q, id, part)
      [] q.kind = "IdealLRU" -> [q EXCEPT !.list = <<id>> \o Remove(@, id)]
      [] q.kind = "IdealPart" -> IdealPartUpdate(q, id, part)

replaced(q, id) ==
    CASE q.kind \in {"LRU", "WayPart"} -> [q EXCEPT !.t[id] = 0]
      [] q.kind = "NRU" -> [q EXCEPT !.bits[id] = 0]
      [] q.kind \in {"Rand", "IdealLRU"} -> q
      [] q.kind = "LFU" -> [q EXCEPT !.acc[id] = 0]
      [] q.kind = "Vantage" -> [q EXCEPT !.t[id] = 0, !.bts[id] = 0]
      [] q.kind = "IdealPart" -> [q EXCEPT !.used[id] = FALSE]

-----------------------------------------------------------------------------
(* rank(), over a sequence of candidates; cc has their validity and sharers *)

\* Higher is less evictable: first valid, then shared, then recent.
score(q, cc, l) ==
    ((IF q.sharers THEN cc.sharers[l] ELSE 0) * q.ts + (IF cc.valid[l] THEN q.t[l] ELSE 0)) % 2^ScoreBits

LRURank(q, cands, cc) == FirstLeast(cands, LAMBDA a, b : score(q, cc, a) < score(q, cc, b))

NRURank(q, cands) ==
    LET least == SelectSeq(cands, LAMBDA l : \A i \in DOMAIN cands : q.bits[l] <= q.bits[cands[i]])
    IN  least[(q.young % Len(least)) + 1]

BugLessThan(q, cc, a, b) ==                             \* validity is not compared
    \/ cc.sharers[a] = 0 /\ cc.sharers[b] > 0
    \/ /\ (cc.sharers[a] = 0) = (cc.sharers[b] = 0)
       /\ \/ q.acc[a] = 0
          \/ q.acc[b] # 0 /\ (q.ts - q.t[a]) \div q.acc[a] > (q.ts - q.t[b]) \div q.acc[b]

\* Rank::lessThan()
LessThan(q, cc, a, b) ==
    \/ ~cc.valid[a] /\ cc.valid[b]
    \/ /\ cc.valid[a] = cc.valid[b]
       /\ \/ cc.sharers[a] = 0 /\ cc.sharers[b] > 0
          \/ /\ (cc.sharers[a] = 0) = (cc.sharers[b] = 0)
             /\ \/ q.acc[a] = 0
                \/ /\ q.acc[b] # 0
                   /\ (q.ts - q.t[a]) \div q.acc[a] > (q.ts - q.t[b]) \div q.acc[b]

LFURank(q, cands, cc) == FirstLeast(cands, LAMBDA a, b : LessThan(q, cc, a, b))

\* Among the ways of the partition, a line of another one before one of its own.
WayPartRank(q, cands, part) ==
    LET mine == SelectSeq([w \in DOMAIN cands |-> <<cands[w], w>>], LAMBDA c : q.test \/ q.way[c[2]] = part)
        own(l) == q.p[l] = part
        before(a, b) == IF q.test \/ own(a[1]) = own(b[1]) THEN q.t[a[1]] < q.t[b[1]] ELSE own(b[1])
    IN  FirstLeast(mine, before)[1]

\* A candidate of a partition above its target is demoted if it is older than the
\* setpoint, which is adjusted from time to time.
Demote(q, l) ==
    LET p == q.p[l]
        old == (q.cur[p] - q.bts[l]) % 256 >= (q.cur[p] - q.setp[p]) % 256
        r == IF old THEN [q EXCEPT !.size = [[@ EXCEPT ![p] = @ - 1] EXCEPT ![Parts] = @ + 1],
                                   !.p[l] = Parts, !.dems[p] = @ + 1] ELSE q
        seen == q.seen[p] + 1
        over == r.size[p] - q.target[p]
        most == 10 * r.size[p] >= 11 * q.target[p]      \* always with a target of 0
        \* the aperture times the candidates, as the fraction n / d
        n == IF most THEN seen ELSE 5 * over * seen
        d == IF most THEN 2 ELSE q.target[p]
        adj == IF ~most /\ over <= 0 THEN 0
               ELSE IF r.dems[p] * d < n THEN (IF q.setp[p] \in 0 .. q.cur[p] - 1 THEN 1 ELSE 0)
               ELSE IF r.dems[p] * d > n /\ q.cur[p] - q.setp[p] < 255 THEN -1 ELSE 0
    IN  IF q.t[l] = 0 \/ p = Parts \/ q.size[p] <= q.target[p] THEN q
        ELSE IF seen >= Interval THEN [r EXCEPT !.setp[p] = @ + adj, !.seen[p] = 0, !.dems[p] = 0]
        ELSE [r EXCEPT !.seen[p] = seen]

\* An empty line, else one of the unmanaged region, else any.
VantageRank(q, cands) ==
    LET empty == SelectSeq(cands, LAMBDA l : q.t[l] = 0)
        before(a, b) == IF (q.p[a] = Parts) = (q.p[b] = Parts) THEN q.t[a] < q.t[b] ELSE q.p[a] = Parts
    IN  IF empty # <<>> THEN Head(empty) ELSE FirstLeast(cands, before)

\* The partition that exceeds its target most, in proportion; if none does, that of the request.
IdealPartRank(q, part) ==
    LET over(p) == q.size[p] - q.target[p]
        exceeds(p, num, den) == q.size[p] > 0 /\ over(p) * den > num * (q.target[p] + 1)
        step(b, p) == IF exceeds(p, b.num, b.den) THEN [p |-> p, num |-> over(p), den |-> q.target[p] + 1] ELSE b
        best == FoldLeft(step, [p |-> part, num |-> IF q.size[part] = 0 THEN -2 ELSE 0, den |-> 1],
                         [i \in 1 .. Parts |-> i - 1])
    IN  Last(q.list[best.p])

\* The possible outcomes of rankCands(): a victim, and the policy afterwards.
rank(q, cands, cc, part) ==
    LET demoted == FoldLeft(Demote, q, cands)
    IN  CASE q.kind = "LRU" -> {<<LRURank(q, cands, cc), q>>}
          [] q.kind = "NRU" -> {<<NRURank(q, cands), q>>}
          [] q.kind = "Rand" -> {<<l, q>> : l \in ToSet(cands)}
          [] q.kind = "LFU" -> {<<LFURank(q, cands, cc), q>>}
          [] q.kind = "WayPart" -> {<<WayPartRank(q, cands, part), q>>}
          [] q.kind = "Vantage" -> {<<VantageRank(demoted, cands), demoted>>}
          [] q.kind = "IdealLRU" -> {<<Last(q.list), q>>}
          [] q.kind = "IdealPart" -> {<<IdealPartRank(q, part), q>>}

-----------------------------------------------------------------------------
(* setPartitionSizes() *)

\* setPartitionSizes() of WayPart gives the ways out in turn; it asserts that there are
\* as many as the cache has.
WayPartSizes(q, sizes) ==
    LET upTo(p) == SumFunctionOnSet(sizes, 0 .. p)
    IN  [q EXCEPT !.way = [w \in 1 .. Assoc |-> CHOOSE p \in Managed : w <= upTo(p) /\ (p = 0 \/ w > upTo(p - 1))]]

VantageSizes(q, sizes, buckets) ==
    [q EXCEPT !.target = [p \in 0 .. Parts |-> IF p = Parts THEN 0 ELSE (NumLines * sizes[p]) \div buckets]]

IdealPartSizes(q, sizes, buckets) ==
    [q EXCEPT !.target = [p \in Managed |-> (sizes[p] * NumLines) \div buckets]]
=============================================================================
