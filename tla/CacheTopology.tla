---------------------------- MODULE CacheTopology ----------------------------
(***************************************************************************)
(* The caches of a simulated system and how they are connected, as the     *)
(* configuration gives them (init.cpp), and the accesses that first-time   *)
(* misses are counted for.                                                 *)
(***************************************************************************)
EXTENDS Integers, FiniteSets

CONSTANTS L1s, L2s, Banks,  \* the caches; Banks: the skews of one group
          parent,           \* parent[c]: the L2 above the L1 c
          IFetch,           \* the L1s that only fetch instructions, NOEXCL
          Ways,             \* Ways[c]: the line ids of cache c
          Addrs, NoAddr     \* line addresses; NoAddr: 0, the address of no line

ASSUME CoherenceAssumption ==
    /\ IsFiniteSet(L1s) /\ IsFiniteSet(L2s)
    /\ L1s \cap L2s = {} /\ L1s \cap Banks = {} /\ L2s \cap Banks = {}
    /\ parent \in [L1s -> L2s]
    /\ IFetch \subseteq L1s
    /\ DOMAIN Ways = L1s \cup L2s \cup Banks /\ \A c \in DOMAIN Ways : Ways[c] # {}
    /\ NoAddr \notin Addrs

CONSTANT FtmTypes           \* the accesses accounted for: ftmTypeFlag

ASSUME FtmAssumption == FtmTypes \subseteq {"GETS", "GETX"}
=============================================================================
