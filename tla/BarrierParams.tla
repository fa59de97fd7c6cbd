---------------------------- MODULE BarrierParams ----------------------------
(***************************************************************************)
(* The parameters of the phase barrier (barrier.h), and what is assumed of *)
(* them: zsim gives parallelThreads as sim.parallelism, at least 1.        *)
(***************************************************************************)
EXTENDS Integers, FiniteSets

CONSTANTS Tids,             \* the participants, indices of threadList[]
          parallelThreads,  \* how many may run at the same time
          CleanupPeriod,    \* LEFT participants are dropped once per so many phases (32)
          Uninit            \* what the never initialised lastIdx fields may hold

ASSUME BarrierAssumption ==
    /\ IsFiniteSet(Tids)
    /\ parallelThreads \in Nat \ {0}
    /\ CleanupPeriod \in Nat \ {0, 1}
    /\ Uninit \subseteq Nat
=============================================================================
