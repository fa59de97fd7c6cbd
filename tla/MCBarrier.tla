------------------------------ MODULE MCBarrier ------------------------------
(***************************************************************************)
(* Those that have to wait for others: the participants of a barrier, and  *)
(* the threads of a scheduler, which has a barrier of its own; `kind' says *)
(* which of the two a behaviour is about.                                  *)
(***************************************************************************)
EXTENDS BarrierParams

CONSTANTS t1, t2, t3, NoThread

VARIABLES kind,
          bState, bWord, bLast, bList, bSize, bCur, bRunning, bLeft, bPhase, bSynced,  \* the state of Barrier
          sched, blockingSyscalls, pc, unfaked,                 \* of Scheduler, with its barrier
          state, futexWord, lastIdx, runList, runListSize, curThreadIdx,
          runningThreads, leftThreads, phaseCount, synced

barrierVars == <<bState, bWord, bLast, bList, bSize, bCur, bRunning, bLeft, bPhase, bSynced>>
schedVars == <<sched, blockingSyscalls, pc, unfaked, state, futexWord, lastIdx, runList, runListSize,
               curThreadIdx, runningThreads, leftThreads, phaseCount, synced>>

B == INSTANCE Barrier
        WITH state <- bState, futexWord <- bWord, lastIdx <- bLast, runList <- bList, runListSize <- bSize,
             curThreadIdx <- bCur, runningThreads <- bRunning, leftThreads <- bLeft, phaseCount <- bPhase,
             synced <- bSynced

\* One context, wanted by three threads.
Wanting == {t1, t2, t3}

S == INSTANCE Scheduler
        WITH Threads <- Wanting, numCores <- 1, mask <- [t \in Wanting |-> {0}],
             schedQuantum <- 2, Pcs <- {1}, MaxSleep <- 1,
             parallelThreads <- 1, CleanupPeriod <- 2, Uninit <- {0}

-----------------------------------------------------------------------------
\* The model that a behaviour is not about keeps an initial state, in which there is
\* no step that fairness would ask for.
MCInit == /\ kind \in {"barrier", "sched"}
          /\ B!Init /\ S!Init
          /\ kind = "sched" => bLast = [t \in Tids |-> 0]

MCNext == \/ kind = "barrier" /\ B!Next /\ UNCHANGED <<kind, schedVars>>
          \/ kind = "sched" /\ S!Next /\ UNCHANGED <<kind, barrierVars>>

MCSpec == MCInit /\ [][MCNext]_<<kind, barrierVars, schedVars>> /\ B!Fairness /\ S!Fairness

-----------------------------------------------------------------------------
\* Every operation leaves the barrier sound: its run list, counters, places, slots and
\* futex words agree (barrier.h:124-279).
BarrierSafe == B!BarrierSafe

\* In each phase everybody who takes part runs exactly once, although entries of the
\* run list are exchanged, dropped and shuffled (barrier.h:124-253).
PhasesExact == B!PhasesExact

\* Every participant that waits eventually runs, with fewer slots than participants
\* (barrier.h:201-279).
WaiterRuns == B!WaiterRuns

\* Every thread in the run queue, or promised a context, eventually runs
\* (scheduler.h:708-753).
QueuedRuns == S!QueuedRuns

\* Every sleep ends, if need be because the watchdog drives time forward
\* (scheduler.cpp:181-232).
SleepersWake == S!SleepersWake
=============================================================================
