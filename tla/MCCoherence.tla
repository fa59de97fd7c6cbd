---------------------------- MODULE MCCoherence ----------------------------
(***************************************************************************)
(* Small hierarchies for TLC; `kind' says which of the two a behaviour is  *)
(* about.  "levels": two cores, one of them with an instruction cache that *)
(* shares its L2, over two skews of the LLC.  "ftm": two cores over one    *)
(* bank, with first-time misses and the refreshes of a CEASER array.       *)
(***************************************************************************)
EXTENDS CacheTopology, TLC

CONSTANTS d0, i0, d1,       \* the L1s: data and instructions of core 0, data of core 1
          p0, p1, b0, b1, llc

VARIABLES kind,
          cache, pc, op, dirty,         \* of either
          owners, counted, users        \* of FirstTimeMiss

\* Core 0 with a data and an instruction cache, core 1 with a data cache.
Parent == (d0 :> p0) @@ (i0 :> p0) @@ (d1 :> p1)
OneWay == [c \in L1s \cup L2s \cup Banks |-> {1}]

C == INSTANCE Coherence

\* A bank of one or two lines.
CONSTANT BankWays
FtmCaches == {d0, d1, p0, p1, llc}

F == INSTANCE FirstTimeMiss
        WITH L1s <- {d0, d1}, IFetch <- {}, Banks <- {llc}, parent <- (d0 :> p0) @@ (d1 :> p1),
             Ways <- [c \in FtmCaches |-> IF c = llc THEN BankWays ELSE {1}]

\* The skews are alike, and so are the lines.
Symmetry == Permutations(Addrs) \cup Permutations(Banks)

-----------------------------------------------------------------------------
MCInit == \/ kind = "levels" /\ C!Init /\ owners = <<>> /\ counted = FALSE /\ users = <<>>
          \/ kind = "ftm" /\ F!FtmInit

MCNext == \/ kind = "levels" /\ C!Next /\ UNCHANGED <<kind, owners, counted, users>>
          \/ kind = "ftm" /\ F!FtmNext /\ UNCHANGED kind

MCSpec == MCInit /\ [][MCNext]_<<kind, cache, pc, op, dirty, owners, counted, users>>

-----------------------------------------------------------------------------
\* The directories are exact, inclusion holds and only the races happen that the code
\* foresees, whatever accesses are between their sections (coherence_ctrls.h:402-429).
HierarchySound == kind = "levels" => C!HierarchySound

\* A write is never forgotten, nor invented (coherence_ctrls.cpp:535-543).
DirtyExact == kind = "levels" => C!DirtyExact

\* The hierarchy implements the abstract shared memory.
Abstract == INSTANCE SharedLines
        WITH Readers <- L1s, Lines <- Addrs,
             perm <- IF kind = "levels" THEN C!permission ELSE [c \in L1s |-> [a \in Addrs |-> "I"]]
AbstractSpec == Abstract!Spec

\* Neither evictions in the L2s nor refreshes of the LLC lose owner bits or break the
\* hierarchy (coherence_ctrls.h:346-350, cache.cpp:71-156).
AccountingSound == kind = "ftm" => F!AccountingSound

\* "Number of first time misses on shared data": the first access of an L2 to a
\* line that others have brought to the LLC is counted as one.
EveryFirstTimeCounts == kind = "ftm" => F!EveryFirstTimeCounts
=============================================================================
