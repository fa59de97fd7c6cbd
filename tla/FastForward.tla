----------------------------- MODULE FastForward -----------------------------
(***************************************************************************)
(* The life of the simulated processes and fast-forwarding (zsim.cpp,      *)
(* process_tree.h/.cpp, event_queue.h, zsim_harness.cpp, fftoggle.cpp).    *)
(*                                                                         *)
(* Four kinds of actors: the application thread of every process; its      *)
(* FF control thread, which fftoggle wakes up; whoever runs the end-of-    *)
(* phase actions (eop); and the harness.  They share the fast-forward      *)
(* flags and counters, two locks (ffLock, and qLock of the event queue)    *)
(* and the events.  The scheduler is reduced to what matters here: a phase *)
(* ends when everyone in it has synced, and nobody joins or leaves while   *)
(* one ends (schedLock).                                                   *)
(***************************************************************************)
EXTENDS Integers, FiniteSets

CONSTANTS Procs, NoProc,
          Proc0,        \* the process with the internal threads, last to finish
          Configs       \* the configurations considered, with what programs and users may do

\* launched: the processes the harness launches, others may be forked; startFF:
\* startFastForwarded; mode: syncedFastForward; ffi: with ffiPoints; restarts;
\* terminates: a termination condition is configured.  The programs that issue ROI
\* magic ops (hooks), exit (mortal) and fork (forkers); those fftoggle is called for.
ConfigType ==
    [launched : SUBSET Procs, startFF : SUBSET Procs, ffi : SUBSET Procs,
     mode : {"Always", "Multiprocess", "Never"}, restarts : [Procs -> 0..1], terminates : BOOLEAN,
     hooks : SUBSET Procs, mortal : SUBSET Procs, forkers : SUBSET Procs, toggled : SUBSET Procs]

ASSUME FastForwardAssumption ==
    /\ IsFiniteSet(Procs) /\ NoProc \notin Procs
    /\ Configs \subseteq ConfigType
    /\ \A c \in Configs : Proc0 \in c.launched /\ c.startFF \subseteq c.launched

\* What the code does not support: a second run of process 0; forks when the number
\* of processes decides whether FF is synced; a process with FFI points, whose event
\* would be left in the queue, that also enters FF otherwise, forks or is restarted;
\* fftoggle for a process that exits by itself (notifyEnd() does not take ffLock).
ASSUME ConfigsSupported ==
    \A c \in Configs :
        /\ c.restarts[Proc0] = 0
        /\ c.mode = "Multiprocess" => c.forkers = {}
        /\ \A p \in c.ffi : p \notin c.hooks \cup c.toggled \cup c.forkers /\ c.restarts[p] = 0
        /\ c.toggled \cap c.mortal = {}

VARIABLES
    config,         \* the configuration of this simulation
    thr,            \* the application thread of each process, see ThreadPcs
    inFastForward, restartsLeft,
    numProcs, globalActiveProcs, globalFFProcs, globalSyncedFFProcs,
    started,        \* the processes that notifyStart() has counted
    end,            \* who wins the race in SimEnd() ends the process, see EndStates
    sawFF,          \* what notifyEnd() read of inFastForward
    toggle,         \* ffToggleLocks[p] has been released
    fft,            \* the FF control thread, see FFThreadPcs
    ffLock,         \* its holder among the FF control threads, or NoProc
    syncEv,         \* the SyncEvent of each FF control thread, see EventStates
    ffiEvents,      \* the processes with an FFI event in the queue
    ran,            \* the processes that simulated in this phase
    firing,         \* the FFI events of this tick that have reached their target
    eop, runner,    \* the end-of-phase actions, see EopPcs, and whose thread runs them
    terminationConditionMet,
    since,          \* history: phases begun since the process entered FF, up to 2,
    simulated       \* and those of them in which its thread took part

thVars == <<thr, started, end, sawFF, restartsLeft>>
cntVars == <<config, inFastForward, numProcs, globalActiveProcs, globalFFProcs, globalSyncedFFProcs, since, simulated>>
fftVars == <<toggle, fft, ffLock, syncEv>>
eopVars == <<ffiEvents, ran, firing, eop, runner, terminationConditionMet>>
vars == <<thVars, cntVars, fftVars, eopVars>>

\* "unborn", "new" (before notifyStart), "ff", "ffiExit" (out of FF, before
\* FFITrackNFFInterval), "joining" (in join()), "run", "wait" (in sync()),
\* "woken", "ending" (in SimEnd); "restartme" and "dead" once the process is gone.
ThreadPcs == {"unborn", "new", "ff", "ffiExit", "joining", "run", "wait", "woken",
              "ending", "restartme", "dead"}

\* "no"; in notifyEnd(); "done" with it (process 0 then waits for the others).
EndStates == {"no", "notify", "done"}

FFThreadPcs == {"idle", "lock", "insert", "wait", "ending"}

\* In the queue for this phase ("now") or for a past one ("late"); "arrived":
\* callback() waits for leaveLock; "left": it has been released.
EventStates == {"none", "now", "late", "arrived", "left"}

\* "bound"; waiting for synced FF; in tick(), in a callback or between two; after
\* tick(); "panic": the simulation is killed.
EopPcs == {"bound", "sff", "tick", "callback", "ticked", "panic"}

Init ==
    /\ config \in Configs
    /\ thr = [p \in Procs |-> IF p \in config.launched THEN "new" ELSE "unborn"]
    /\ inFastForward = [p \in Procs |-> p \in config.startFF]
    /\ restartsLeft = config.restarts
    /\ numProcs = Cardinality(config.launched)
    /\ globalActiveProcs = 0 /\ globalFFProcs = 0 /\ globalSyncedFFProcs = 0
    /\ started = {} /\ sawFF = {}
    /\ end = [p \in Procs |-> "no"]
    /\ toggle = [p \in Procs |-> FALSE]
    /\ fft = [p \in Procs |-> "idle"]
    /\ ffLock = NoProc
    /\ syncEv = [p \in Procs |-> "none"]
    /\ ffiEvents = {} /\ ran = {} /\ firing = {}
    /\ eop = "bound" /\ runner = NoProc
    /\ terminationConditionMet = FALSE
    /\ since = [p \in Procs |-> 0] /\ simulated = [p \in Procs |-> 0]

-----------------------------------------------------------------------------
qLocked == eop \in {"tick", "callback"}

getSyncedFastForward(n) == config.mode = "Always" \/ (config.mode = "Multiprocess" /\ n > 1)

syncedFF == IF getSyncedFastForward(numProcs) THEN 1 ELSE 0

alive(p) == thr[p] \notin {"unborn", "new", "restartme", "dead"}

Min2(n) == IF n > 2 THEN 2 ELSE n

\* ProcessTreeNode::enterFastForward() and exitFastForward().
enterFastForward(p) ==
    /\ inFastForward' = [inFastForward EXCEPT ![p] = TRUE]
    /\ globalSyncedFFProcs' = globalSyncedFFProcs + syncedFF
    /\ globalFFProcs' = globalFFProcs + 1
    /\ since' = [since EXCEPT ![p] = 0] /\ simulated' = [simulated EXCEPT ![p] = 0]
    /\ UNCHANGED <<config, numProcs, globalActiveProcs>>

BugExitFastForward(p) ==                        \* a counter is forgotten
    /\ inFastForward' = [inFastForward EXCEPT ![p] = FALSE]
    /\ globalFFProcs' = globalFFProcs - 1
    /\ UNCHANGED <<config, numProcs, globalActiveProcs, globalSyncedFFProcs, since, simulated>>

exitFastForward(p) ==
    /\ inFastForward' = [inFastForward EXCEPT ![p] = FALSE]
    /\ globalSyncedFFProcs' = globalSyncedFFProcs - syncedFF
    /\ globalFFProcs' = globalFFProcs - 1
    /\ UNCHANGED <<config, numProcs, globalActiveProcs, since, simulated>>

-----------------------------------------------------------------------------
(***************************************************************************)
(* The application threads.                                                *)
(***************************************************************************)

\* The first start of a process is counted, also in the FF counters.
notifyStart(p) ==
    /\ started' = started \cup {p}
    /\ globalActiveProcs' = globalActiveProcs + 1
    /\ globalFFProcs' = globalFFProcs + (IF inFastForward[p] THEN 1 ELSE 0)
    /\ globalSyncedFFProcs' = globalSyncedFFProcs + (IF inFastForward[p] THEN syncedFF ELSE 0)

\* main() or AfterForkInChild(), and ThreadStart().  A start after everyone else
\* has finished is a panic; process 0 is started during initialisation.
Start(p) ==
    /\ thr[p] = "new" /\ eop # "panic"
    /\ p # Proc0 => Proc0 \in started
    /\ IF p \in started
       THEN UNCHANGED <<started, globalActiveProcs, globalFFProcs, globalSyncedFFProcs>>
       ELSE notifyStart(p)
    /\ p \in started \/ p = Proc0 \/ globalActiveProcs > 0
    /\ p \in config.ffi \cap config.launched /\ ~inFastForward[p] => ~qLocked
    /\ ffiEvents' = IF p \in config.ffi \cap config.launched /\ ~inFastForward[p]
                    THEN ffiEvents \cup {p} ELSE ffiEvents
    /\ thr' = [thr EXCEPT ![p] = IF inFastForward[p] THEN "ff" ELSE "joining"]
    /\ since' = [since EXCEPT ![p] = 0] /\ simulated' = [simulated EXCEPT ![p] = 0]
    /\ UNCHANGED <<end, sawFF, restartsLeft, config, inFastForward, numProcs, fftVars, ran, firing, eop, runner,
                   terminationConditionMet>>

StartPanics(p) ==
    /\ thr[p] = "new" /\ eop # "panic"
    /\ p # Proc0 /\ Proc0 \in started /\ p \notin started /\ globalActiveProcs = 0
    /\ eop' = "panic"
    /\ UNCHANGED <<thVars, cntVars, fftVars, ffiEvents, ran, firing, runner, terminationConditionMet>>

FFBasicBlock(p) ==
    /\ thr[p] = "ff" /\ p \notin config.ffi /\ ~inFastForward[p]
    /\ thr' = [thr EXCEPT ![p] = "joining"]
    /\ UNCHANGED <<started, end, sawFF, restartsLeft, cntVars, fftVars, eopVars>>

\* An FFI process has fast-forwarded to its next point.
FFIBasicBlock(p) ==
    /\ thr[p] = "ff" /\ p \in config.ffi /\ ffLock = NoProc
    /\ inFastForward[p] /\ exitFastForward(p)
    /\ thr' = [thr EXCEPT ![p] = "ffiExit"]
    /\ UNCHANGED <<started, end, sawFF, restartsLeft, fftVars, eopVars>>

FFITrackNFFInterval(p) ==
    /\ thr[p] = "ffiExit" /\ ~qLocked
    /\ ffiEvents' = ffiEvents \cup {p}
    /\ thr' = [thr EXCEPT ![p] = "joining"]
    /\ UNCHANGED <<started, end, sawFF, restartsLeft, cntVars, fftVars, ran, firing, eop, runner,
                   terminationConditionMet>>

\* SimEnd() up to the first read of notifyEnd(): the first thread of the process
\* to come here ends it, the others sleep.
SimEnd(p) ==
    /\ end' = [end EXCEPT ![p] = IF @ = "no" THEN "notify" ELSE @]
    /\ sawFF' = IF end[p] = "no" /\ inFastForward[p] THEN sawFF \cup {p} ELSE sawFF
    /\ UNCHANGED <<started, restartsLeft, cntVars, eopVars>>

AppEnds(p) == SimEnd(p) /\ thr' = [thr EXCEPT ![p] = "ending"] /\ UNCHANGED fftVars

\* join() has given a context.
Join(p) ==
    /\ thr[p] = "joining" /\ eop = "bound"
    /\ \/ terminationConditionMet /\ AppEnds(p)
       \/ /\ ~terminationConditionMet
          /\ thr' = [thr EXCEPT ![p] = "run"]
          /\ ran' = ran \cup {p}
          /\ UNCHANGED <<started, end, sawFF, restartsLeft, cntVars, fftVars, ffiEvents, firing, eop, runner,
                         terminationConditionMet>>

Sync(p) ==
    /\ thr[p] = "run" /\ eop = "bound"
    /\ thr' = [thr EXCEPT ![p] = "wait"]
    /\ UNCHANGED <<started, end, sawFF, restartsLeft, cntVars, fftVars, eopVars>>

\* After sync(): into fast-forward (leave(), finish()), to the end, or on.
TakeBarrier(p) ==
    /\ thr[p] = "woken" /\ eop = "bound"
    /\ \/ inFastForward[p] /\ thr' = [thr EXCEPT ![p] = "ff"]
                           /\ UNCHANGED <<started, end, sawFF, restartsLeft, cntVars, fftVars, eopVars>>
       \/ ~inFastForward[p] /\ terminationConditionMet /\ AppEnds(p)
       \/ /\ ~inFastForward[p] /\ ~terminationConditionMet
          /\ thr' = [thr EXCEPT ![p] = "run"]
          /\ ran' = ran \cup {p}
          /\ UNCHANGED <<started, end, sawFF, restartsLeft, cntVars, fftVars, ffiEvents, firing, eop, runner,
                         terminationConditionMet>>

\* ZSIM_MAGIC_OP_ROI_BEGIN and _END, under ffLock.  With synced FF an ROI_END is
\* ignored.
RoiBegin(p) ==
    /\ p \in config.hooks /\ thr[p] \in {"ff", "run"} /\ ffLock = NoProc
    /\ inFastForward[p] /\ exitFastForward(p)
    /\ UNCHANGED <<thVars, fftVars, eopVars>>

RoiEnd(p) ==
    /\ p \in config.hooks /\ thr[p] = "run" /\ ffLock = NoProc
    /\ syncedFF = 0
    /\ ~inFastForward[p] /\ enterFastForward(p)
    /\ UNCHANGED <<thVars, fftVars, eopVars>>

\* BeforeFork(): getNextChild() copies this node; the child starts later.
Fork(p, q) ==
    /\ p \in config.forkers /\ thr[p] \in {"ff", "run"} /\ thr[q] = "unborn"
    /\ numProcs' = numProcs + 1
    /\ inFastForward' = [inFastForward EXCEPT ![q] = inFastForward[p]]
    /\ thr' = [thr EXCEPT ![q] = "new"]
    /\ UNCHANGED <<started, end, sawFF, restartsLeft, config, globalActiveProcs, globalFFProcs,
                   globalSyncedFFProcs, since, simulated, fftVars, eopVars>>

\* The program exits; a simulated thread leaves first.
Exit(p) ==
    /\ p \in config.mortal
    /\ thr[p] = "ff" \/ (thr[p] = "run" /\ eop = "bound")
    /\ AppEnds(p)

\* The rest of notifyEnd() and, but for process 0, of SimEnd(): exit(0) ends the
\* threads of the process, wherever they are.
NotifyEnd(p) ==
    /\ end[p] = "notify"
    /\ LET left == IF p \in sawFF THEN 1 ELSE 0
           again == restartsLeft[p] > 0 /\ ~terminationConditionMet
       IN  /\ inFastForward' = [inFastForward EXCEPT ![p] = @ /\ p \notin sawFF]
           /\ globalSyncedFFProcs' = globalSyncedFFProcs - left * syncedFF
           /\ globalFFProcs' = globalFFProcs - left
           /\ globalActiveProcs' = globalActiveProcs - (IF again THEN 0 ELSE 1)
           /\ restartsLeft' = [restartsLeft EXCEPT ![p] = IF again THEN @ - 1 ELSE @]
           /\ thr' = IF p = Proc0 THEN thr
                     ELSE [thr EXCEPT ![p] = IF again THEN "restartme" ELSE "dead"]
    /\ end' = [end EXCEPT ![p] = "done"]
    /\ sawFF' = sawFF \ {p}
    /\ UNCHANGED <<started, config, numProcs, since, simulated, fftVars, eopVars>>

\* Process 0 dumps the final stats and exits once all are done.
Proc0Finishes ==
    /\ end[Proc0] = "done" /\ alive(Proc0) /\ globalActiveProcs = 0
    /\ thr' = [thr EXCEPT ![Proc0] = "dead"]
    /\ UNCHANGED <<started, end, sawFF, restartsLeft, cntVars, fftVars, eopVars>>

-----------------------------------------------------------------------------
(***************************************************************************)
(* fftoggle, the FF control threads and the harness.                       *)
(***************************************************************************)

Toggle(p) ==
    /\ p \in config.toggled /\ alive(p) /\ ~toggle[p]
    /\ toggle' = [toggle EXCEPT ![p] = TRUE]
    /\ UNCHANGED <<thVars, cntVars, fft, ffLock, syncEv, eopVars>>

FFThreadWakes(p) ==
    /\ alive(p) /\ fft[p] = "idle" /\ toggle[p]
    /\ toggle' = [toggle EXCEPT ![p] = FALSE]
    /\ fft' = [fft EXCEPT ![p] = "lock"]
    /\ UNCHANGED <<thVars, cntVars, ffLock, syncEv, eopVars>>

FFThreadExitsFF(p) ==
    /\ alive(p) /\ fft[p] = "lock" /\ ffLock = NoProc
    /\ inFastForward[p] /\ exitFastForward(p)
    /\ fft' = [fft EXCEPT ![p] = "idle"]
    /\ UNCHANGED <<thVars, toggle, ffLock, syncEv, eopVars>>

FFThreadLocks(p) ==
    /\ alive(p) /\ fft[p] = "lock" /\ ffLock = NoProc
    /\ ~inFastForward[p]
    /\ ffLock' = p
    /\ fft' = [fft EXCEPT ![p] = "insert"]
    /\ UNCHANGED <<thVars, cntVars, toggle, syncEv, eopVars>>

BugFFThreadInserts(p) ==                        \* ffLock is kept
    /\ alive(p) /\ fft[p] = "insert" /\ ~qLocked
    /\ syncEv' = [syncEv EXCEPT ![p] = "now"]
    /\ fft' = [fft EXCEPT ![p] = "wait"]
    /\ UNCHANGED <<thVars, cntVars, toggle, ffLock, eopVars>>

\* It holds ffLock while it waits for qLock.
FFThreadInserts(p) ==
    /\ alive(p) /\ fft[p] = "insert" /\ ~qLocked
    /\ syncEv' = [syncEv EXCEPT ![p] = "now"]
    /\ ffLock' = NoProc
    /\ fft' = [fft EXCEPT ![p] = "wait"]
    /\ UNCHANGED <<thVars, cntVars, toggle, eopVars>>

\* wait() returns; under ffLock it enters FF, unless the program has, and signals.
FFThreadEntersFF(p) ==
    /\ alive(p) /\ fft[p] = "wait" /\ syncEv[p] = "arrived" /\ ffLock = NoProc
    /\ IF inFastForward[p] THEN UNCHANGED cntVars ELSE enterFastForward(p)
    /\ syncEv' = [syncEv EXCEPT ![p] = "left"]
    /\ fft' = [fft EXCEPT ![p] = "idle"]
    /\ UNCHANGED <<thVars, toggle, ffLock, eopVars>>

\* On its timeout it ends the process if the termination condition is met, wherever
\* the application thread is.
FFThreadTimesOut(p) ==
    /\ alive(p) /\ fft[p] = "idle" /\ terminationConditionMet
    /\ SimEnd(p)
    /\ fft' = [fft EXCEPT ![p] = "ending"]
    /\ UNCHANGED <<thr, toggle, ffLock, syncEv>>

\* The harness gets SIGCHLD and launches the process again.
chldSigHandler(p) ==
    /\ thr[p] = "restartme" /\ eop # "panic"
    /\ thr' = [thr EXCEPT ![p] = "new"]
    /\ fft' = [fft EXCEPT ![p] = "idle"]
    /\ toggle' = [toggle EXCEPT ![p] = FALSE]
    /\ end' = [end EXCEPT ![p] = "no"]
    /\ UNCHANGED <<started, sawFF, restartsLeft, cntVars, ffLock, syncEv, eopVars>>

-----------------------------------------------------------------------------
(***************************************************************************)
(* The end of a phase.                                                     *)
(***************************************************************************)

\* p is the last to sync.
PhaseEnds(p) ==
    /\ eop = "bound" /\ thr[p] = "wait"
    /\ \A q \in Procs : thr[q] \notin {"run", "woken"}
    /\ eop' = "sff"
    /\ runner' = p
    /\ UNCHANGED <<thVars, cntVars, fftVars, ffiEvents, ran, firing, terminationConditionMet>>

\* One of the conditions may be met (phases, instructions, time, fftoggle).
CheckForTermination == terminationConditionMet' \in {FALSE, config.terminates}

\* EndOfPhaseActions() up to tick(): the wait for synced FF and the check.
EndOfPhaseActions ==
    /\ eop = "sff" /\ globalSyncedFFProcs = 0
    /\ CheckForTermination
    /\ firing' \in SUBSET (ffiEvents \cap ran)
    /\ eop' = "tick"
    /\ UNCHANGED <<thVars, cntVars, fftVars, ffiEvents, ran, runner>>

\* tick(): the FFI events are older than the SyncEvents of the same phase.  The
\* callback of one that has reached its target takes ffLock and enters FF.
FfiFires(p) ==
    /\ eop = "tick" /\ p \in firing /\ ffLock = NoProc
    /\ enterFastForward(p)
    /\ ffiEvents' = ffiEvents \ {p}
    /\ firing' = firing \ {p}
    /\ UNCHANGED <<thVars, fftVars, ran, eop, runner, terminationConditionMet>>

SyncCallback(p) ==
    /\ eop = "tick" /\ firing = {} /\ syncEv[p] = "now"
    /\ \A q \in Procs : syncEv[q] # "late"
    /\ syncEv' = [syncEv EXCEPT ![p] = "arrived"]
    /\ eop' = "callback"
    /\ UNCHANGED <<thVars, cntVars, toggle, fft, ffLock, ffiEvents, ran, firing, runner,
                   terminationConditionMet>>

\* An event of a past phase is a panic.
TickPanics ==
    /\ eop = "tick"
    /\ \E q \in Procs : syncEv[q] = "late"
    /\ eop' = "panic"
    /\ UNCHANGED <<thVars, cntVars, fftVars, ffiEvents, ran, firing, runner, terminationConditionMet>>

SyncReturns(p) ==
    /\ eop = "callback" /\ syncEv[p] = "left"
    /\ syncEv' = [syncEv EXCEPT ![p] = "none"]
    /\ eop' = "tick"
    /\ UNCHANGED <<thVars, cntVars, toggle, fft, ffLock, ffiEvents, ran, firing, runner,
                   terminationConditionMet>>

TickDone ==
    /\ eop = "tick" /\ firing = {}
    /\ \A p \in Procs : syncEv[p] \notin {"now", "late"}
    /\ eop' = "ticked"
    /\ UNCHANGED <<thVars, cntVars, fftVars, ffiEvents, ran, firing, runner, terminationConditionMet>>

\* numPhases++, and the barrier lets everyone go.
NextPhase ==
    /\ eop = "ticked"
    /\ syncEv' = [p \in Procs |-> IF syncEv[p] = "now" THEN "late" ELSE syncEv[p]]
    /\ thr' = [p \in Procs |-> IF thr[p] = "wait" THEN "woken" ELSE thr[p]]
    /\ since' = [p \in Procs |-> Min2(since[p] + 1)]
    /\ simulated' = [p \in Procs |-> IF p \in ran THEN Min2(simulated[p] + 1) ELSE simulated[p]]
    /\ ran' = {}
    /\ eop' = "bound" /\ runner' = NoProc
    /\ UNCHANGED <<started, end, sawFF, restartsLeft, config, inFastForward, numProcs, globalActiveProcs,
                   globalFFProcs, globalSyncedFFProcs, toggle, fft, ffLock, ffiEvents, firing,
                   terminationConditionMet>>

-----------------------------------------------------------------------------
AppNext(p) ==
    \/ Start(p) \/ FFBasicBlock(p) \/ FFIBasicBlock(p) \/ FFITrackNFFInterval(p)
    \/ Join(p) \/ Sync(p) \/ TakeBarrier(p) \/ NotifyEnd(p)

ProgramNext(p) == RoiBegin(p) \/ RoiEnd(p) \/ Exit(p) \/ \E q \in Procs : Fork(p, q)

FFThreadNext(p) ==
    \/ FFThreadWakes(p) \/ FFThreadExitsFF(p) \/ FFThreadLocks(p) \/ FFThreadInserts(p)
    \/ FFThreadEntersFF(p) \/ FFThreadTimesOut(p)

EopNext ==
    \/ \E p \in Procs : PhaseEnds(p)
    \/ /\ runner # NoProc /\ thr[runner] = "wait"
       /\ \/ EndOfPhaseActions \/ TickDone \/ NextPhase \/ TickPanics
          \/ \E p \in Procs : FfiFires(p) \/ SyncCallback(p) \/ SyncReturns(p)

Next ==
    \/ \E p \in Procs : \/ AppNext(p) \/ ProgramNext(p) \/ StartPanics(p)
                        \/ FFThreadNext(p) \/ Toggle(p) \/ chldSigHandler(p)
    \/ Proc0Finishes
    \/ EopNext

Spec == Init /\ [][Next]_vars

\* Threads that can run do, and get a lock that is free again and again; programs
\* and users need not do anything.
Fairness ==
    /\ \A p \in Procs : WF_vars(AppNext(p)) /\ SF_vars(FFThreadNext(p))
    /\ WF_vars(\E p \in Procs : chldSigHandler(p))
    /\ WF_vars(Proc0Finishes)
    /\ SF_vars(EopNext)

FairSpec == Spec /\ Fairness

-----------------------------------------------------------------------------
(***************************************************************************)
(* Properties.                                                             *)
(***************************************************************************)

\* Every flag, counter and program counter has its type; -1 stands for the
\* 2^32 - 1 of a counter that has wrapped around.
TypeOK ==
    /\ config \in Configs
    /\ thr \in [Procs -> ThreadPcs]
    /\ inFastForward \in [Procs -> BOOLEAN]
    /\ restartsLeft \in [Procs -> Nat]
    /\ numProcs \in 0..Cardinality(Procs)
    /\ globalActiveProcs \in 0..Cardinality(Procs)
    /\ {globalFFProcs, globalSyncedFFProcs} \subseteq -Cardinality(Procs)..Cardinality(Procs)
    /\ started \subseteq Procs /\ sawFF \subseteq Procs
    /\ end \in [Procs -> EndStates]
    /\ toggle \in [Procs -> BOOLEAN]
    /\ fft \in [Procs -> FFThreadPcs]
    /\ ffLock \in Procs \cup {NoProc}
    /\ syncEv \in [Procs -> EventStates]
    /\ ffiEvents \subseteq Procs /\ ran \subseteq Procs /\ firing \subseteq ffiEvents
    /\ eop \in EopPcs /\ runner \in Procs \cup {NoProc}
    /\ terminationConditionMet \in BOOLEAN
    /\ since \in [Procs -> 0..2] /\ simulated \in [Procs -> 0..2]

\* The shared counters (zsim.h:218-221) count the active processes and those in
\* fast-forward, whoever changes the flags: magic ops, FF control threads,
\* events, forks and exits; the latter until the simulation terminates (notifyEnd()
\* then takes processes out of FF without ffLock).
CountersExact ==
    LET ff == {p \in started : inFastForward[p]}
    IN  /\ globalActiveProcs =
               Cardinality({p \in started : end[p] = "done" => thr[p] = "restartme"})
        /\ ~terminationConditionMet =>
               globalFFProcs = Cardinality(ff) /\ globalSyncedFFProcs = Cardinality(ff) * syncedFF

\* With synced fast-forward the others get at most one phase ahead of a process
\* that fast-forwards (the wait in EndOfPhaseActions()).
SyncedHoldsOthers ==
    \A p \in started : inFastForward[p] /\ syncedFF = 1 => since[p] <= 1

\* A thread takes part in at most one phase, the current one, after its process has
\* entered fast-forward, whoever enters it and whether the thread is then running,
\* in the barrier or joining (the check in TakeBarrier()).
FFTakesEffect ==
    \A p \in Procs : inFastForward[p] => simulated[p] <= 1

\* FF control threads enter fast-forward only between two phases: the thread that
\* ends the phase is then blocked in the callback (zsim.cpp:1606).
EnteredBetweenPhases ==
    [][\A p \in Procs :
         ~inFastForward[p] /\ inFastForward'[p] /\ fft[p] = "wait" /\ fft'[p] = "idle"
             => eop = "callback" /\ eop' = "callback"]_vars

\* The assertion of CheckForTermination(): no phase ends after the condition is met.
TerminationAssert == eop = "sff" => ~terminationConditionMet

\* Process 0, with the internal threads, is the last to finish.
Proc0IsLast ==
    thr[Proc0] = "dead" =>
        \A p \in started \ {Proc0} : thr[p] = "dead"

\* Flags, counters, phases and the end of the simulation agree, whoever enters and
\* leaves fast-forward, and whenever.
FastForwardSound ==
    /\ TypeOK /\ CountersExact /\ SyncedHoldsOthers /\ FFTakesEffect
    /\ TerminationAssert /\ Proc0IsLast

NoneLate == \A p \in Procs : syncEv[p] # "late"

\* The end-of-phase actions complete once they are past the wait for synced FF, unless
\* the simulation is being terminated or an event has missed its phase.
TickCompletes ==
    (eop = "tick" /\ ~terminationConditionMet /\ NoneLate) ~> (eop = "bound")

\* When the termination condition is met all processes end.
TerminationCompletes ==
    (terminationConditionMet /\ NoneLate) ~> (\A p \in started : thr[p] = "dead")

\* Fast-forward is entered between phases, and it deadlocks neither the end of a
\* phase nor the end of the simulation.
FastForwardCompletes == EnteredBetweenPhases /\ TickCompletes /\ TerminationCompletes

\* The event that an FF control thread has put into the queue runs in the next end of
\* a phase ("will run on next phase", zsim.cpp:1601), and the thread that ends the
\* phase goes on after it ("blocks until signal() called", zsim.cpp:1561): neither
\* is it stuck in the callback, nor is the event found when its phase is over.
SyncEventsRun == \A p \in Procs : (syncEv[p] = "now" /\ fft[p] = "wait") ~> (syncEv[p] = "none")
=============================================================================
