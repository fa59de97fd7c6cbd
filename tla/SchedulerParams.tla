--------------------------- MODULE SchedulerParams ---------------------------
(***************************************************************************)
(* The parameters of the scheduler (scheduler.h) and of its barrier, and   *)
(* what is assumed of them.                                                *)
(***************************************************************************)
EXTENDS Integers, FiniteSets

CONSTANTS Threads,          \* the gids
          NoThread,         \* nullptr
          numCores,         \* contexts are 0 .. numCores-1
          mask,             \* mask[t]: the contexts t may run on (a process attribute)
          schedQuantum,     \* in phases
          Pcs,              \* the addresses of the syscall instructions
          MaxSleep,         \* bound: the longest sleep, in phases
          parallelThreads, CleanupPeriod, Uninit      \* of the barrier

Contexts == 0..(numCores - 1)

ASSUME SchedulerAssumption ==
    /\ IsFiniteSet(Threads) /\ NoThread \notin Threads
    /\ numCores \in Nat \ {0}
    /\ mask \in [Threads -> (SUBSET Contexts) \ {{}}]      \* "Empty mask on gid"
    /\ schedQuantum \in Nat \ {0}
    /\ MaxSleep \in Nat \ {0}
    /\ parallelThreads \in Nat \ {0}
    /\ CleanupPeriod \in Nat \ {0, 1}
    /\ Uninit \subseteq Nat
=============================================================================
