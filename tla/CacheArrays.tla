----------------------------- MODULE CacheArrays -----------------------------
(***************************************************************************)
(* A bank of a cache: the array that maps addresses to lines               *)
(* (cache_arrays.cpp, ideal_arrays.h) together with its replacement policy *)
(* and its partitioner, as BuildCacheBank() puts them together, under the  *)
(* calls that Cache::access() and Cache::processRefresh() make.  Which     *)
(* array and which policy is chosen in the initial state.                  *)
(*                                                                         *)
(* Address 0 is that of an empty line.  An access holds the locks of the   *)
(* cache from preinsert() to postinsert(), but for the invalidations that  *)
(* its eviction lets in.                                                   *)
(***************************************************************************)
EXTENDS ReplPolicies

CONSTANTS Addrs,                \* the addresses used, all different from 0
          Cands,                \* candidates of a zcache
          MaxSharers,           \* bound: children that share a line
          Setups                \* the banks that are examined: time and addrs bound the accesses

NumSets == NumLines \div Assoc
None == [addr |-> 0]
Orders == [array : {"SetAssoc", "Z", "CEASER", "IdealLRU", "IdealLRUPart"}, llc : {"no", "set", "way"}, ticks : BOOLEAN]

ASSUME ArraysAssumption ==
    /\ 0 \notin Addrs /\ Cands >= Assoc /\ NumLines % Assoc = 0
    /\ \A s \in Setups : /\ [array |-> s.array, llc |-> s.llc, ticks |-> s.ticks] \in Orders
                         /\ \A w \in DOMAIN s.hash : s.hash[w] \in [Addrs -> 0 .. NumSets - 1]

VARIABLES setup,                \* array, policy and hash functions
          array,                \* line -> address
          index,                \* lookupArray of a zcache, lineMap of an ideal array, switches of CEASER
          pol, mons,            \* the replacement policy, and the monitors of the partitions
          cc,                   \* what the policies ask the coherence controller
          pending               \* what preinsert() has left for postinsert()

vars == <<setup, array, index, pol, mons, cc, pending>>

-----------------------------------------------------------------------------
(* Where an address may be *)

hash(w, a) == setup.hash[w][a]
Ideal == setup.array \in {"IdealLRU", "IdealLRUPart"}

\* The set of an address in a CEASER array: by the current hash function, or by the
\* target one if that set has already been moved.
CeaserSet(a) == IF index.switched[hash(index.current, a)] THEN hash(3 - index.current, a) ELSE hash(index.current, a)

\* With setPartition or wayPartition a process has some of the sets, or ways, of the last-level cache.
FirstLine(a, part) ==
    LET perPart == NumSets \div Parts
        waysPerPart == Max({1, Assoc \div Parts})
    IN  CASE setup.array = "CEASER" -> CeaserSet(a) * Assoc
          [] setup.llc = "set" -> ((hash(1, a) % perPart) + perPart * part) * Assoc
          [] setup.llc = "way" -> hash(1, a) * Assoc + ((part * waysPerPart) % Assoc)
          [] OTHER -> hash(1, a) * Assoc

SetCands(a, part) ==
    [i \in 1 .. (IF setup.llc = "way" THEN Max({1, Assoc \div Parts}) ELSE Assoc) |-> FirstLine(a, part) + i - 1]

\* The positions of an address in a zcache, one in each way.
Positions(a) == [w \in 1 .. Assoc |-> (w - 1) * NumSets + hash(w, a)]

\* lookup(): the lines where the address is found; the first one is returned.
found(a, part) ==
    IF Ideal THEN {index[b] : b \in {a} \cap DOMAIN index}
    ELSE LET lines == IF setup.array = "Z" THEN [w \in 1 .. Assoc |-> index[Positions(a)[w]]] ELSE SetCands(a, part)
         IN  {l \in ToSet(lines) : array[l] = a}

-----------------------------------------------------------------------------
(* The walk of a zcache: candidates are positions, the lines there, and the  *)
(* candidate that would move there                                           *)

Seeds(a) == [w \in 1 .. Assoc |-> [pos |-> Positions(a)[w], line |-> index[Positions(a)[w]], parent |-> 0]]

\* Breadth-first, until there are enough candidates or an empty line is met.
Walk(a) ==
    LET expand(walk, n) ==
            LET fringe == walk[n].line
                all == [w \in 1 .. Assoc |->
                           LET pos == Positions(array[fringe])[w] IN [pos |-> pos, line |-> index[pos], parent |-> n]]
            IN  IF Len(walk) < Cands /\ \A i \in DOMAIN walk : array[walk[i].line] # 0
                THEN walk \o SelectSeq(all, LAMBDA c : c.line # fringe) ELSE walk
        walk == FoldLeft(expand, Seeds(a), [n \in 1 .. Cands |-> n])
    IN  SubSeq(walk, 1, Min({Cands, Len(walk)}))

BugPath(walk, line) ==                                  \* the last of the candidates with that line
    LET last == Max({i \in DOMAIN walk : walk[i].line = line})
        up[i \in 0 .. Len(walk)] == IF i = 0 THEN <<>> ELSE <<walk[i].pos>> \o up[walk[i].parent]
    IN  up[last]

\* swapArray: from the first candidate with the line of the victim to a seed.
Path(walk, line) ==
    LET first == Min({i \in DOMAIN walk : walk[i].line = line})
        up[i \in 0 .. Len(walk)] == IF i = 0 THEN <<>> ELSE <<walk[i].pos>> \o up[walk[i].parent]
    IN  up[first]

\* Each position on the path takes the line of the next one; the last one takes the victim's.
Swapped(path, line) ==
    LET step(la, i) == [la EXCEPT ![path[i]] = la[path[i + 1]]]
    IN  [FoldLeft(step, index, [i \in 1 .. Len(path) - 1 |-> i]) EXCEPT ![Last(path)] = line]

-----------------------------------------------------------------------------
(* BuildCacheBank() *)

NewPolicy(s) ==
    CASE s.policy = "LRU" -> NewLRU(TRUE)
      [] s.policy = "LRUNoSh" -> NewLRU(FALSE)
      [] s.policy = "NRU" -> NewNRU
      [] s.policy = "Rand" -> NewRand
      [] s.policy = "LFU" -> NewLFU
      [] s.policy = "WayPart" -> NewWayPart(FALSE)
      [] s.policy = "Vantage" -> NewVantage
      [] s.policy = "IdealLRU" -> NewIdealLRU
      [] s.policy = "IdealPart" -> NewIdealPart

Init ==
    /\ setup \in Setups
    /\ array = [l \in Lines |-> 0]
    /\ index = CASE setup.array = "Z" -> [l \in Lines |-> l]
                 [] setup.array = "CEASER" ->
                        [switched |-> [s \in 0 .. NumSets - 1 |-> FALSE], current |-> 1, set |-> 0]
                 [] OTHER -> [a \in {} |-> 0]
    /\ pol = NewPolicy(setup)
    /\ mons = [p \in Managed |-> NewUMon]
    /\ cc = [valid |-> [l \in Lines |-> FALSE], sharers |-> [l \in Lines |-> 0]]
    /\ pending = None

Partitioned == pol.kind \in {"WayPart", "Vantage", "IdealPart"}
HasTime(q) == "ts" \in DOMAIN q

\* Bound: how many accesses are counted.
InTime ==
    /\ HasTime(pol) => pol.ts <= (IF pol.kind = "LFU" THEN 1000 * setup.time ELSE setup.time)
    /\ pol.kind = "IdealPart" => SumFunction([p \in Managed |-> mons[p].misses + SumFunction(mons[p].hits)]) < setup.time

-----------------------------------------------------------------------------
(* Cache::access() *)

\* update(), which tells the monitor of the partition; CEASER calls neither.
Updated(q, l, a, part) ==
    LET r == update(q, l, part)
    IN  IF setup.array = "CEASER" THEN UNCHANGED mons /\ pol' = q
        ELSE /\ pol' = r
             /\ mons' = IF Partitioned THEN [mons EXCEPT ![r.p[l]] = UMonAccess(@, a)] ELSE mons

\* The state of line l in the coherence controller, if the policy asks for it.
AsksCC == pol.kind \in {"LRU", "LFU"}
SetCC(l, valid, n) ==
    cc' = IF AsksCC THEN [valid |-> [cc.valid EXCEPT ![l] = valid], sharers |-> [cc.sharers EXCEPT ![l] = n]] ELSE cc

\* processAccess(): the line is valid afterwards, and the requester shares it.
Serve(l) == \E n \in 1 .. MaxSharers : SetCC(l, TRUE, n)

\* Whose request it is: with a partitioned last-level cache the address tells the process.
Asks(a, part) ==
    /\ a \in setup.addrs
    /\ setup.llc # "no" => part = setup.home[a]
    /\ setup.llc = "no" /\ ~Partitioned => part = 0

Hit(a, part) ==
    /\ pending = None /\ InTime /\ Asks(a, part)
    /\ \E l \in found(a, part) : Updated(pol, l, a, part) /\ Serve(l)
    /\ UNCHANGED <<setup, array, index, pending>>

\* preinsert() and processEviction(): the victim is invalidated everywhere.
Preinsert(a, part) ==
    /\ pending = None /\ InTime /\ Asks(a, part) /\ found(a, part) = {}
    /\ LET walk == IF setup.array = "Z" THEN Walk(a) ELSE <<>>
           cands == CASE setup.array = "Z" -> [i \in DOMAIN walk |-> walk[i].line]
                      [] Ideal -> [i \in 1 .. NumLines |-> i - 1]
                      [] OTHER -> SetCands(a, part)
           choices == IF setup.array = "CEASER" THEN {<<l, pol>> : l \in ToSet(cands)} ELSE rank(pol, cands, cc, part)
       IN  \E c \in choices :
              /\ pol' = c[2]
              /\ pending' = [addr |-> a, part |-> part, line |-> c[1], cands |-> ToSet(cands),
                             path |-> IF setup.array = "Z" THEN Path(walk, c[1]) ELSE <<>>]
              /\ SetCC(c[1], FALSE, 0)
    /\ UNCHANGED <<setup, array, index, mons>>

\* postinsert() and processAccess().
Postinsert ==
    /\ pending # None
    /\ LET l == pending.line
           old == {array[l]} \ {0}
       IN  /\ array' = [array EXCEPT ![l] = pending.addr]
           /\ index' = CASE setup.array = "Z" -> Swapped(pending.path, l)
                         [] Ideal -> [a \in (DOMAIN index \ old) \cup {pending.addr} |->
                                         IF a = pending.addr THEN l ELSE index[a]]
                         [] OTHER -> index
           /\ Updated(IF setup.array = "CEASER" THEN pol ELSE replaced(pol, l), l, pending.addr, pending.part)
           /\ Serve(l)
    /\ pending' = None
    /\ UNCHANGED setup

\* An invalidation from the parent: the lookup does not update the policy.
Invalidate(l) ==
    /\ cc.valid[l]
    /\ SetCC(l, FALSE, 0)
    /\ UNCHANGED <<setup, array, index, pol, mons, pending>>

\* A PUT of a child: no update of the policy either.
Release(l) ==
    /\ pending = None /\ cc.sharers[l] > 0
    /\ cc' = [cc EXCEPT !.sharers[l] = @ - 1]
    /\ UNCHANGED <<setup, array, index, pol, mons, pending>>

-----------------------------------------------------------------------------
(* Cache::processRefresh(): CEASER moves one set to where the target hash  *)
(* function wants its lines, or starts over with the functions swapped     *)

\* moveAddr() of way i onto a random way of the target set, whose line is evicted.
Moved(arr, i, way) ==
    LET from == index.set * Assoc + i
        target == hash(3 - index.current, arr[from])
    IN  IF arr[from] = 0 \/ target = index.set THEN arr
        ELSE [arr EXCEPT ![target * Assoc + way] = arr[from], ![from] = 0]

MoveSet ==
    \E ways \in [0 .. Assoc - 1 -> 0 .. Assoc - 1] :
        array' = FoldLeft(LAMBDA arr, i : Moved(arr, i, ways[i]), array, [i \in 1 .. Assoc |-> i - 1])

Refresh ==
    /\ setup.array = "CEASER" /\ pending = None
    /\ \/ /\ index.set >= NumSets
          /\ index' = [switched |-> [s \in 0 .. NumSets - 1 |-> FALSE], current |-> 3 - index.current, set |-> 0]
          /\ UNCHANGED array
       \/ /\ index.set < NumSets
          /\ MoveSet
          /\ index' = [index EXCEPT !.switched[index.set] = TRUE, !.set = @ + 1]
    /\ UNCHANGED <<setup, pol, mons, cc, pending>>

\* PartitionEvent::callback(), between phases.
Tick ==
    /\ setup.ticks /\ pending = None
    /\ \E sizes \in {partition(mons, IF pol.kind = "Vantage" THEN 85 ELSE 100)} :
          pol' = CASE pol.kind = "WayPart" -> WayPartSizes(pol, sizes)
                   [] pol.kind = "Vantage" -> VantageSizes(pol, sizes, Buckets)
                   [] pol.kind = "IdealPart" -> IdealPartSizes(pol, sizes, Buckets)
    /\ mons' = [p \in Managed |-> startNextInterval(mons[p])]
    /\ UNCHANGED <<setup, array, index, cc, pending>>

Next ==
    \/ \E a \in Addrs, part \in Managed : Hit(a, part) \/ Preinsert(a, part)
    \/ Postinsert
    \/ \E l \in Lines : Invalidate(l) \/ Release(l)
    \/ Refresh
    \/ Tick

Spec == Init /\ [][Next]_vars

-----------------------------------------------------------------------------
(* Properties *)

\* Every address in the array is found by lookup(), and at its line only: after the
\* swaps of a zcache, whose walk may meet a line twice, while CEASER has moved
\* some of the sets only, and between preinsert() and postinsert().
LinesFound ==
    \A l \in Lines : array[l] # 0 =>
        \A part \in Managed : Asks(array[l], part) => found(array[l], part) = {l}

\* The bookkeeping of a partitioned policy agrees with the lines: sizes are numbers of
\* lines, with those that were demoted (ext) and without, the lists of IdealLRUPart
\* hold each line once, and a line has a timestamp iff it is in the cache.
SizesExact ==
    LET count(f, p) == Cardinality({l \in Lines : f[l] = p})
    IN  /\ Partitioned => \A p \in 0 .. Parts : pol.size[p] = count(pol.p, p)
        /\ pol.kind = "Vantage" => \A p \in 0 .. Parts : pol.ext[p] = count(pol.op, p)
        /\ pol.kind \in {"WayPart", "Vantage"} => \A l \in Lines : (pol.t[l] > 0) <=> (array[l] # 0)
        /\ pol.kind = "IdealPart" => \A p \in Managed : /\ Len(pol.list[p]) = pol.size[p]
                                                        /\ ToSet(pol.list[p]) = {l \in Lines : pol.p[l] = p}

\* The victim is one that may be spared: nothing valid while a candidate is invalid, and
\* nothing shared while one is not, if the policy looks at that; WayPart stays in the
\* ways of the partition, and Vantage takes no line of a partition while one is unmanaged.
VictimSpared ==
    LET l == pending'.line
        others == pending'.cands
    IN  (setup.array # "CEASER" /\ pending = None /\ pending' # None) =>
            /\ pol.kind \in {"LRU", "LFU"} => (cc.valid[l] => \A c \in others : cc.valid[c])
            /\ (pol.kind = "LFU" \/ (pol.kind = "LRU" /\ pol.sharers)) =>
                    (cc.sharers[l] > 0 => \A c \in others : cc.sharers[c] > 0)
            /\ pol.kind = "WayPart" => pol.way[(l % Assoc) + 1] = pending'.part
            /\ pol.kind = "Vantage" => (pol'.t[l] > 0 /\ pol'.p[l] # Parts =>
                                            \A c \in others : pol'.t[c] > 0 /\ pol'.p[c] # Parts)

VictimsSpared == [][VictimSpared]_vars
=============================================================================
