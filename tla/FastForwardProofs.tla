-------------------------- MODULE FastForwardProofs --------------------------
(***************************************************************************)
(* Proofs about FastForward: whoever enters and leaves fast-forward, and   *)
(* whenever, flags, counters, phases and the end of the simulation agree,  *)
(* for any number of processes and all the configurations supported.       *)
(***************************************************************************)
EXTENDS FastForward, FiniteSetTheorems, TLAPS

-----------------------------------------------------------------------------
(***************************************************************************)
(* The inductive invariant.                                                *)
(***************************************************************************)

\* The processes that exist, are counted as in FF and as active, and have ended
\* for good.
Born == {p \in Procs : thr[p] # "unborn"}
FF == {p \in started : inFastForward[p]}
Active == {p \in started : end[p] = "done" => thr[p] = "restartme"}
Gone == {p \in started : end[p] = "done" /\ thr[p] # "restartme"}

\* A phase is being ended.
PhaseIsEnding == eop \in {"sff", "tick", "callback", "ticked"}

\* TypeOK without the bounds of the counters, which follow from Counts.
Types ==
    /\ config \in Configs
    /\ thr \in [Procs -> ThreadPcs]
    /\ inFastForward \in [Procs -> BOOLEAN]
    /\ restartsLeft \in [Procs -> Nat]
    /\ numProcs \in Int /\ globalActiveProcs \in Int
    /\ globalFFProcs \in Int /\ globalSyncedFFProcs \in Int
    /\ started \subseteq Procs /\ sawFF \subseteq Procs
    /\ end \in [Procs -> EndStates]
    /\ toggle \in [Procs -> BOOLEAN]
    /\ fft \in [Procs -> FFThreadPcs]
    /\ ffLock \in Procs \cup {NoProc}
    /\ syncEv \in [Procs -> EventStates]
    /\ ffiEvents \subseteq Procs /\ ran \subseteq Procs /\ firing \subseteq ffiEvents
    /\ eop \in EopPcs /\ runner \in Procs \cup {NoProc}
    /\ terminationConditionMet \in BOOLEAN
    /\ since \in [Procs -> 0..2] /\ simulated \in [Procs -> 0..2]

\* The counters.  notifyEnd() may take a process out of FF that has left it
\* since: once for each that has ended, and only in a simulation that terminates.
Counts ==
    /\ numProcs = Cardinality(Born)
    /\ globalActiveProcs = Cardinality(Active)
    /\ globalFFProcs <= Cardinality(FF)
    /\ globalFFProcs >= Cardinality(FF) - Cardinality(Gone)
    /\ ~terminationConditionMet => globalFFProcs = Cardinality(FF)
    /\ globalSyncedFFProcs = globalFFProcs * syncedFF

\* From the start of a process to its end, and its restarts.
Life(p) ==
    /\ p \notin started => thr[p] \in {"unborn", "new"} /\ end[p] = "no" /\ simulated[p] = 0 /\ p \notin ran
    /\ p \in started => thr[p] # "unborn" /\ Proc0 \in started
    /\ thr[p] \in {"restartme", "dead"} => end[p] = "done"
    /\ end[p] = "done" /\ p # Proc0 => thr[p] \in {"restartme", "dead"}
    /\ thr[p] = "restartme" => p \notin config.ffi \cup config.toggled
    /\ thr[p] = "new" /\ p \in started => p \notin config.ffi \cup config.toggled
    /\ restartsLeft[p] > 0 => p # Proc0 /\ p \notin config.ffi

\* Without termination only a program that exits ends, and nobody but notifyEnd()
\* then takes it out of FF; nobody ends while a phase does, but through the timeout
\* of its FF control thread.
Ends(p) ==
    /\ ~terminationConditionMet /\ end[p] = "notify" => thr[p] = "ending"
    /\ (~terminationConditionMet \/ PhaseIsEnding) /\ end[p] # "no" =>
           p \in config.mortal \/ fft[p] = "ending"
    /\ ~terminationConditionMet => fft[p] # "ending" \/ end[p] = "done"
    /\ p \in sawFF => end[p] = "notify"
    /\ p \in sawFF /\ ~terminationConditionMet => inFastForward[p]

\* Only fftoggle wakes up an FF control thread.
Toggled(p) == toggle[p] \/ fft[p] \in {"lock", "insert", "wait"} => p \in config.toggled

\* A process with an FFI event is not in FF.
Ffi(p) ==
    /\ p \in ffiEvents => p \in started /\ p \in config.ffi /\ ~inFastForward[p]
    /\ thr[p] = "ffiExit" => p \in config.ffi /\ ~inFastForward[p] /\ p \notin ffiEvents
    /\ p \in firing => p \in ran /\ eop \in {"tick", "panic"}

\* A thread that has simulated since its process entered FF does not do so again.
Simulates(p) ==
    /\ p \in ran /\ thr[p] \in {"new", "ff", "ffiExit", "joining"} =>
           p \notin config.ffi \cup config.toggled
    /\ thr[p] = "woken" => p \notin ran
    /\ inFastForward[p] => simulated[p] <= 1
    /\ inFastForward[p] /\ simulated[p] = 1 => p \notin ran /\ thr[p] \notin {"joining", "run", "wait"}
    /\ inFastForward[p] /\ thr[p] = "joining" => p \notin ran

\* While a phase ends nobody simulates; no phase ends after the termination
\* condition is met; past the wait for synced FF only those are in FF that have
\* entered it since.
Phase(p) ==
    /\ PhaseIsEnding => thr[p] \notin {"run", "woken"}
    /\ terminationConditionMet /\ eop = "bound" => thr[p] \notin {"run", "wait"}
    /\ inFastForward[p] /\ p \in started /\ syncedFF = 1 =>
           since[p] <= 1 /\ (eop \in {"tick", "callback", "ticked"} => since[p] = 0)

\* The FF control thread of an event in its callback finds the end of the phase
\* blocked there.
Callback(p) ==
    /\ syncEv[p] \in {"arrived", "left"} => eop \in {"callback", "panic"}
    /\ alive(p) /\ fft[p] = "wait" /\ syncEv[p] = "arrived" => eop = "callback"

OneCallback ==
    \A p, q \in Procs :
        syncEv[p] \in {"arrived", "left"} /\ syncEv[q] \in {"arrived", "left"} => p = q

Local(p) ==
    Life(p) /\ Ends(p) /\ Toggled(p) /\ Ffi(p) /\ Simulates(p) /\ Phase(p) /\ Callback(p)

Last == thr[Proc0] = "dead" => \A p \in started : thr[p] = "dead" /\ end[p] = "done"

\* In sff the simulation has not terminated.
NotTerminating == eop = "sff" => ~terminationConditionMet

IInv ==
    /\ Types /\ Counts /\ OneCallback /\ Last /\ NotTerminating
    /\ \A p \in Procs : Local(p)

-----------------------------------------------------------------------------
(***************************************************************************)
(* Configurations, and sets of processes.                                  *)
(***************************************************************************)

\* What the configurations supported rule out.
LEMMA ConfigFacts ==
    ASSUME config \in Configs
    PROVE  /\ config \in ConfigType /\ Proc0 \in Procs /\ NoProc \notin Procs
           /\ config.launched \in SUBSET Procs /\ config.startFF \in SUBSET config.launched
           /\ Proc0 \in config.launched
           /\ config.restarts \in [Procs -> 0..1] /\ config.restarts[Proc0] = 0
           /\ config.mode = "Multiprocess" => config.forkers = {}
           /\ \A p \in config.ffi : p \notin config.hooks /\ p \notin config.toggled
                                    /\ config.restarts[p] = 0
           /\ \A p \in config.toggled : p \notin config.mortal
           /\ config.ffi \in SUBSET Procs /\ config.terminates \in BOOLEAN
  BY FastForwardAssumption, ConfigsSupported DEF ConfigType

\* A set of processes is finite, and none is larger than all of them.
LEMMA ProcSets ==
    ASSUME NEW S \in SUBSET Procs
    PROVE  IsFiniteSet(S) /\ Cardinality(S) \in Nat /\ Cardinality(S) <= Cardinality(Procs)
  <1>1. IsFiniteSet(Procs)
    BY FastForwardAssumption
  <1>2. IsFiniteSet(S) /\ Cardinality(S) <= Cardinality(Procs)
    BY <1>1, FS_Subset
  <1> QED
    BY <1>2, FS_CardinalityType

\* A process joins a set.
LEMMA OneMore ==
    ASSUME NEW S \in SUBSET Procs, NEW p \in Procs, p \notin S
    PROVE  Cardinality(S \cup {p}) = Cardinality(S) + 1
  BY ProcSets, FS_AddElement

\* A process leaves a set.
LEMMA OneLess ==
    ASSUME NEW S \in SUBSET Procs, NEW p \in S
    PROVE  Cardinality(S \ {p}) = Cardinality(S) - 1
  BY ProcSets, FS_RemoveElement

\* Whether FF is synced does not change but by a fork.
LEMMA SyncedKept ==
    ASSUME config' = config, numProcs' = numProcs
    PROVE  syncedFF' = syncedFF
  BY DEF syncedFF, getSyncedFastForward

\* It is 0 or 1.
LEMMA SyncedBit == syncedFF \in {0, 1}
  BY DEF syncedFF

\* The sets of processes are sets of processes.
LEMMA SetTypes ==
    ASSUME Types
    PROVE  Born \in SUBSET Procs /\ FF \in SUBSET Procs /\ Active \in SUBSET Procs /\ Gone \in SUBSET Procs
  BY DEF Types, Born, FF, Active, Gone

-----------------------------------------------------------------------------
(***************************************************************************)
(* The application threads.                                                *)
(***************************************************************************)

\* The counters stay right when neither they nor the sets they count change.
LEMMA CountsKept ==
    ASSUME Counts, config' = config, UNCHANGED <<numProcs, globalActiveProcs, globalFFProcs, globalSyncedFFProcs>>,
           terminationConditionMet' = terminationConditionMet,
           Born' = Born, FF' = FF, Active' = Active, Gone' = Gone
    PROVE  Counts'
  BY SyncedKept DEF Counts

\* A thread syncs.
LEMMA SyncStep ==
    ASSUME IInv, NEW p \in Procs, Sync(p)
    PROVE  IInv'
  <1> USE DEF cntVars, fftVars, eopVars
  <1>0. syncedFF' = syncedFF
    BY SyncedKept DEF Sync
  <1>1. Types'
    BY DEF IInv, Types, Sync, ThreadPcs
  <1>2. ASSUME NEW q \in Procs PROVE Local(q)'
    BY <1>0 DEF IInv, Types, Sync, Local, Life, Ends, Toggled, Ffi, Simulates, Phase, Callback, PhaseIsEnding, alive
  <1>3. Counts'
    <2>1. Born' = Born /\ FF' = FF /\ Active' = Active /\ Gone' = Gone
      BY DEF IInv, Types, Sync, Born, FF, Active, Gone
    <2> QED
      BY <2>1, CountsKept DEF IInv, Sync
  <1>4. Last' /\ OneCallback' /\ NotTerminating'
    BY DEF IInv, Types, Last, OneCallback, NotTerminating, Sync
  <1> QED
    BY <1>1, <1>2, <1>3, <1>4 DEF IInv

\* A thread leaves FF on its own.
LEMMA FFBasicBlockStep ==
    ASSUME IInv, NEW p \in Procs, FFBasicBlock(p)
    PROVE  IInv'
  <1> USE DEF thVars, cntVars, fftVars, eopVars
  <1>0. syncedFF' = syncedFF
    BY SyncedKept DEF FFBasicBlock
  <1>1. Types'
    BY DEF IInv, Types, FFBasicBlock, ThreadPcs, EndStates, FFThreadPcs, EventStates, EopPcs
  <1>2. ASSUME NEW q \in Procs PROVE Local(q)'
    BY <1>0, ConfigFacts DEF IInv, Types, FFBasicBlock, Local, Life, Ends, Toggled, Ffi, Simulates, Phase, Callback, PhaseIsEnding, alive
  <1>3. Counts'
    <2>1. Born' = Born /\ FF' = FF /\ Active' = Active /\ Gone' = Gone
      BY DEF IInv, Types, FFBasicBlock, Born, FF, Active, Gone, Local, Life
    <2> QED
      BY <2>1, CountsKept DEF IInv, FFBasicBlock
  <1>4. Last' /\ OneCallback' /\ NotTerminating'
    BY DEF IInv, Types, Last, OneCallback, NotTerminating, FFBasicBlock
  <1> QED
    BY <1>1, <1>2, <1>3, <1>4 DEF IInv

\* The event of the next FFI point.
LEMMA FFITrackStep ==
    ASSUME IInv, NEW p \in Procs, FFITrackNFFInterval(p)
    PROVE  IInv'
  <1> USE DEF thVars, cntVars, fftVars, eopVars
  <1>0. syncedFF' = syncedFF
    BY SyncedKept DEF FFITrackNFFInterval, qLocked
  <1>1. Types'
    BY DEF IInv, Types, FFITrackNFFInterval, qLocked, ThreadPcs, EndStates, FFThreadPcs, EventStates, EopPcs
  <1>2. ASSUME NEW q \in Procs PROVE Local(q)'
    BY <1>0, ConfigFacts DEF IInv, Types, FFITrackNFFInterval, qLocked, Local, Life, Ends, Toggled, Ffi, Simulates, Phase, Callback, PhaseIsEnding, alive
  <1>3. Counts'
    <2>1. Born' = Born /\ FF' = FF /\ Active' = Active /\ Gone' = Gone
      BY DEF IInv, Types, FFITrackNFFInterval, qLocked, Born, FF, Active, Gone, Local, Life
    <2> QED
      BY <2>1, CountsKept DEF IInv, FFITrackNFFInterval, qLocked
  <1>4. Last' /\ OneCallback' /\ NotTerminating'
    BY DEF IInv, Types, Last, OneCallback, NotTerminating, FFITrackNFFInterval, qLocked
  <1> QED
    BY <1>1, <1>2, <1>3, <1>4 DEF IInv

\* A thread joins, or ends its process.
LEMMA JoinStep ==
    ASSUME IInv, NEW p \in Procs, Join(p)
    PROVE  IInv'
  <1> USE DEF thVars, cntVars, fftVars, eopVars
  <1>0. syncedFF' = syncedFF
    BY SyncedKept DEF Join, AppEnds, SimEnd
  <1>1. Types'
    BY DEF IInv, Types, Join, AppEnds, SimEnd, ThreadPcs, EndStates, FFThreadPcs, EventStates, EopPcs
  <1>2. ASSUME NEW q \in Procs PROVE Local(q)'
    BY <1>0, ConfigFacts DEF IInv, Types, Join, AppEnds, SimEnd, Local, Life, Ends, Toggled, Ffi, Simulates, Phase, Callback, PhaseIsEnding, alive
  <1>3. Counts'
    <2>1. Born' = Born /\ FF' = FF /\ Active' = Active /\ Gone' = Gone
      BY DEF IInv, Types, Join, AppEnds, SimEnd, Born, FF, Active, Gone, Local, Life
    <2> QED
      BY <2>1, CountsKept DEF IInv, Join, AppEnds, SimEnd
  <1>4. Last' /\ OneCallback' /\ NotTerminating'
    BY ConfigFacts DEF IInv, Types, Local, Life, Last, OneCallback, NotTerminating, Join, AppEnds, SimEnd
  <1> QED
    BY <1>1, <1>2, <1>3, <1>4 DEF IInv

\* A thread returns from sync().
LEMMA TakeBarrierStep ==
    ASSUME IInv, NEW p \in Procs, TakeBarrier(p)
    PROVE  IInv'
  <1> USE DEF thVars, cntVars, fftVars, eopVars
  <1>0. syncedFF' = syncedFF
    BY SyncedKept DEF TakeBarrier, AppEnds, SimEnd
  <1>1. Types'
    BY DEF IInv, Types, TakeBarrier, AppEnds, SimEnd, ThreadPcs, EndStates, FFThreadPcs, EventStates, EopPcs
  <1>2. ASSUME NEW q \in Procs PROVE Local(q)'
    BY <1>0, ConfigFacts DEF IInv, Types, TakeBarrier, AppEnds, SimEnd, Local, Life, Ends, Toggled, Ffi, Simulates, Phase, Callback, PhaseIsEnding, alive
  <1>3. Counts'
    <2>1. Born' = Born /\ FF' = FF /\ Active' = Active /\ Gone' = Gone
      BY DEF IInv, Types, TakeBarrier, AppEnds, SimEnd, Born, FF, Active, Gone, Local, Life
    <2> QED
      BY <2>1, CountsKept DEF IInv, TakeBarrier, AppEnds, SimEnd
  <1>4. Last' /\ OneCallback' /\ NotTerminating'
    BY ConfigFacts DEF IInv, Types, Local, Life, Last, OneCallback, NotTerminating, TakeBarrier, AppEnds, SimEnd
  <1> QED
    BY <1>1, <1>2, <1>3, <1>4 DEF IInv

\* A program exits.
LEMMA ExitStep ==
    ASSUME IInv, NEW p \in Procs, Exit(p)
    PROVE  IInv'
  <1> USE DEF thVars, cntVars, fftVars, eopVars
  <1>0. syncedFF' = syncedFF
    BY SyncedKept DEF Exit, AppEnds, SimEnd
  <1>1. Types'
    BY DEF IInv, Types, Exit, AppEnds, SimEnd, ThreadPcs, EndStates, FFThreadPcs, EventStates, EopPcs
  <1>2. ASSUME NEW q \in Procs PROVE Local(q)'
    BY <1>0, ConfigFacts DEF IInv, Types, Exit, AppEnds, SimEnd, Local, Life, Ends, Toggled, Ffi, Simulates, Phase, Callback, PhaseIsEnding, alive
  <1>3. Counts'
    <2>1. Born' = Born /\ FF' = FF /\ Active' = Active /\ Gone' = Gone
      BY DEF IInv, Types, Exit, AppEnds, SimEnd, Born, FF, Active, Gone, Local, Life
    <2> QED
      BY <2>1, CountsKept DEF IInv, Exit, AppEnds, SimEnd
  <1>4. Last' /\ OneCallback' /\ NotTerminating'
    BY DEF IInv, Types, Last, OneCallback, NotTerminating, Exit, AppEnds, SimEnd
  <1> QED
    BY <1>1, <1>2, <1>3, <1>4 DEF IInv

\* A process starts too late.
LEMMA StartPanicsStep ==
    ASSUME IInv, NEW p \in Procs, StartPanics(p)
    PROVE  IInv'
  <1> USE DEF thVars, cntVars, fftVars, eopVars
  <1>0. syncedFF' = syncedFF
    BY SyncedKept DEF StartPanics
  <1>1. Types'
    BY DEF IInv, Types, StartPanics, ThreadPcs, EndStates, FFThreadPcs, EventStates, EopPcs
  <1>a. Active = {}
    BY SetTypes, ProcSets, FS_EmptySet DEF IInv, Counts, StartPanics
  <1>b. ASSUME NEW q \in Procs PROVE ~(alive(q) /\ fft[q] = "wait" /\ syncEv[q] = "arrived")
    <2> SUFFICES ASSUME alive(q), fft[q] = "wait", syncEv[q] = "arrived" PROVE FALSE
      OBVIOUS
    <2>1. eop = "callback" /\ q \in config.toggled /\ q \notin config.mortal
      BY ConfigFacts DEF IInv, Types, Local, Callback, Toggled
    <2>2. end[q] = "no" /\ q \in started
      BY <2>1 DEF IInv, Types, Local, Ends, Life, PhaseIsEnding, alive
    <2> QED
      BY <1>a, <2>2 DEF Active
  <1>2. ASSUME NEW q \in Procs PROVE Local(q)'
    BY <1>0, <1>b DEF IInv, Types, StartPanics, Local, Life, Ends, Toggled, Ffi, Simulates, Phase, Callback, PhaseIsEnding, alive
  <1>3. Counts'
    <2>1. Born' = Born /\ FF' = FF /\ Active' = Active /\ Gone' = Gone
      BY DEF IInv, Types, StartPanics, Born, FF, Active, Gone, Local, Life
    <2> QED
      BY <2>1, CountsKept DEF IInv, StartPanics
  <1>4. Last' /\ OneCallback' /\ NotTerminating'
    BY DEF IInv, Types, Last, OneCallback, NotTerminating, StartPanics
  <1> QED
    BY <1>1, <1>2, <1>3, <1>4 DEF IInv

\* fftoggle.
LEMMA ToggleStep ==
    ASSUME IInv, NEW p \in Procs, Toggle(p)
    PROVE  IInv'
  <1> USE DEF thVars, cntVars, fftVars, eopVars
  <1>0. syncedFF' = syncedFF
    BY SyncedKept DEF Toggle
  <1>1. Types'
    BY DEF IInv, Types, Toggle, ThreadPcs, EndStates, FFThreadPcs, EventStates, EopPcs
  <1>2. ASSUME NEW q \in Procs PROVE Local(q)'
    BY <1>0, ConfigFacts DEF IInv, Types, Toggle, Local, Life, Ends, Toggled, Ffi, Simulates, Phase, Callback, PhaseIsEnding, alive
  <1>3. Counts'
    <2>1. Born' = Born /\ FF' = FF /\ Active' = Active /\ Gone' = Gone
      BY DEF IInv, Types, Toggle, Born, FF, Active, Gone, Local, Life
    <2> QED
      BY <2>1, CountsKept DEF IInv, Toggle
  <1>4. Last' /\ OneCallback' /\ NotTerminating'
    BY DEF IInv, Types, Last, OneCallback, NotTerminating, Toggle
  <1> QED
    BY <1>1, <1>2, <1>3, <1>4 DEF IInv

\* An FF control thread wakes up.
LEMMA FFThreadWakesStep ==
    ASSUME IInv, NEW p \in Procs, FFThreadWakes(p)
    PROVE  IInv'
  <1> USE DEF thVars, cntVars, fftVars, eopVars
  <1>0. syncedFF' = syncedFF
    BY SyncedKept DEF FFThreadWakes
  <1>1. Types'
    BY DEF IInv, Types, FFThreadWakes, ThreadPcs, EndStates, FFThreadPcs, EventStates, EopPcs
  <1>2. ASSUME NEW q \in Procs PROVE Local(q)'
    BY <1>0, ConfigFacts DEF IInv, Types, FFThreadWakes, Local, Life, Ends, Toggled, Ffi, Simulates, Phase, Callback, PhaseIsEnding, alive
  <1>3. Counts'
    <2>1. Born' = Born /\ FF' = FF /\ Active' = Active /\ Gone' = Gone
      BY DEF IInv, Types, FFThreadWakes, Born, FF, Active, Gone, Local, Life
    <2> QED
      BY <2>1, CountsKept DEF IInv, FFThreadWakes
  <1>4. Last' /\ OneCallback' /\ NotTerminating'
    BY DEF IInv, Types, Last, OneCallback, NotTerminating, FFThreadWakes
  <1> QED
    BY <1>1, <1>2, <1>3, <1>4 DEF IInv

\* It takes ffLock.
LEMMA FFThreadLocksStep ==
    ASSUME IInv, NEW p \in Procs, FFThreadLocks(p)
    PROVE  IInv'
  <1> USE DEF thVars, cntVars, fftVars, eopVars
  <1>0. syncedFF' = syncedFF
    BY SyncedKept DEF FFThreadLocks
  <1>1. Types'
    BY DEF IInv, Types, FFThreadLocks, ThreadPcs, EndStates, FFThreadPcs, EventStates, EopPcs
  <1>2. ASSUME NEW q \in Procs PROVE Local(q)'
    BY <1>0, ConfigFacts DEF IInv, Types, FFThreadLocks, Local, Life, Ends, Toggled, Ffi, Simulates, Phase, Callback, PhaseIsEnding, alive
  <1>3. Counts'
    <2>1. Born' = Born /\ FF' = FF /\ Active' = Active /\ Gone' = Gone
      BY DEF IInv, Types, FFThreadLocks, Born, FF, Active, Gone, Local, Life
    <2> QED
      BY <2>1, CountsKept DEF IInv, FFThreadLocks
  <1>4. Last' /\ OneCallback' /\ NotTerminating'
    BY DEF IInv, Types, Last, OneCallback, NotTerminating, FFThreadLocks
  <1> QED
    BY <1>1, <1>2, <1>3, <1>4 DEF IInv

\* It inserts its event.
LEMMA FFThreadInsertsStep ==
    ASSUME IInv, NEW p \in Procs, FFThreadInserts(p)
    PROVE  IInv'
  <1> USE DEF thVars, cntVars, fftVars, eopVars
  <1>0. syncedFF' = syncedFF
    BY SyncedKept DEF FFThreadInserts, qLocked
  <1>1. Types'
    BY DEF IInv, Types, FFThreadInserts, qLocked, ThreadPcs, EndStates, FFThreadPcs, EventStates, EopPcs
  <1>2. ASSUME NEW q \in Procs PROVE Local(q)'
    BY <1>0, ConfigFacts DEF IInv, Types, FFThreadInserts, qLocked, Local, Life, Ends, Toggled, Ffi, Simulates, Phase, Callback, PhaseIsEnding, alive
  <1>3. Counts'
    <2>1. Born' = Born /\ FF' = FF /\ Active' = Active /\ Gone' = Gone
      BY DEF IInv, Types, FFThreadInserts, qLocked, Born, FF, Active, Gone, Local, Life
    <2> QED
      BY <2>1, CountsKept DEF IInv, FFThreadInserts, qLocked
  <1>4. Last' /\ OneCallback' /\ NotTerminating'
    BY DEF IInv, Types, Last, OneCallback, NotTerminating, FFThreadInserts, qLocked
  <1> QED
    BY <1>1, <1>2, <1>3, <1>4 DEF IInv

\* It times out.
LEMMA FFThreadTimesOutStep ==
    ASSUME IInv, NEW p \in Procs, FFThreadTimesOut(p)
    PROVE  IInv'
  <1> USE DEF thVars, cntVars, fftVars, eopVars
  <1>0. syncedFF' = syncedFF
    BY SyncedKept DEF FFThreadTimesOut, SimEnd
  <1>1. Types'
    BY DEF IInv, Types, FFThreadTimesOut, SimEnd, ThreadPcs, EndStates, FFThreadPcs, EventStates, EopPcs
  <1>2. ASSUME NEW q \in Procs PROVE Local(q)'
    BY <1>0, ConfigFacts DEF IInv, Types, FFThreadTimesOut, SimEnd, Local, Life, Ends, Toggled, Ffi, Simulates, Phase, Callback, PhaseIsEnding, alive
  <1>3. Counts'
    <2>1. Born' = Born /\ FF' = FF /\ Active' = Active /\ Gone' = Gone
      BY DEF IInv, Types, FFThreadTimesOut, SimEnd, Born, FF, Active, Gone, Local, Life
    <2> QED
      BY <2>1, CountsKept DEF IInv, FFThreadTimesOut, SimEnd
  <1>4. Last' /\ OneCallback' /\ NotTerminating'
    BY DEF IInv, Types, Last, OneCallback, NotTerminating, FFThreadTimesOut, SimEnd
  <1> QED
    BY <1>1, <1>2, <1>3, <1>4 DEF IInv

\* The harness launches a process again.
LEMMA ChldSigHandlerStep ==
    ASSUME IInv, NEW p \in Procs, chldSigHandler(p)
    PROVE  IInv'
  <1> USE DEF thVars, cntVars, fftVars, eopVars
  <1>0. syncedFF' = syncedFF
    BY SyncedKept DEF chldSigHandler
  <1>1. Types'
    BY DEF IInv, Types, chldSigHandler, ThreadPcs, EndStates, FFThreadPcs, EventStates, EopPcs
  <1>2. ASSUME NEW q \in Procs PROVE Local(q)'
    BY <1>0, ConfigFacts DEF IInv, Types, chldSigHandler, Local, Life, Ends, Toggled, Ffi, Simulates, Phase, Callback, PhaseIsEnding, alive
  <1>3. Counts'
    <2>1. Born' = Born /\ FF' = FF /\ Active' = Active /\ Gone' = Gone
      BY DEF IInv, Types, chldSigHandler, Born, FF, Active, Gone, Local, Life
    <2> QED
      BY <2>1, CountsKept DEF IInv, chldSigHandler
  <1>4. Last' /\ OneCallback' /\ NotTerminating'
    BY DEF IInv, Types, Last, OneCallback, NotTerminating, chldSigHandler
  <1> QED
    BY <1>1, <1>2, <1>3, <1>4 DEF IInv

\* The last thread syncs.
LEMMA PhaseEndsStep ==
    ASSUME IInv, NEW p \in Procs, PhaseEnds(p)
    PROVE  IInv'
  <1> USE DEF thVars, cntVars, fftVars, eopVars
  <1>0. syncedFF' = syncedFF
    BY SyncedKept DEF PhaseEnds
  <1>1. Types'
    BY DEF IInv, Types, PhaseEnds, ThreadPcs, EndStates, FFThreadPcs, EventStates, EopPcs
  <1>2. ASSUME NEW q \in Procs PROVE Local(q)'
    BY <1>0, ConfigFacts DEF IInv, Types, PhaseEnds, Local, Life, Ends, Toggled, Ffi, Simulates, Phase, Callback, PhaseIsEnding, alive
  <1>3. Counts'
    <2>1. Born' = Born /\ FF' = FF /\ Active' = Active /\ Gone' = Gone
      BY DEF IInv, Types, PhaseEnds, Born, FF, Active, Gone, Local, Life
    <2> QED
      BY <2>1, CountsKept DEF IInv, PhaseEnds
  <1>4. Last' /\ OneCallback' /\ NotTerminating'
    BY DEF IInv, Types, Local, Phase, Last, OneCallback, NotTerminating, PhaseEnds
  <1> QED
    BY <1>1, <1>2, <1>3, <1>4 DEF IInv

\* A SyncEvent has its turn.
LEMMA SyncCallbackStep ==
    ASSUME IInv, NEW p \in Procs, SyncCallback(p)
    PROVE  IInv'
  <1> USE DEF thVars, cntVars, fftVars, eopVars
  <1>0. syncedFF' = syncedFF
    BY SyncedKept DEF SyncCallback
  <1>1. Types'
    BY DEF IInv, Types, SyncCallback, ThreadPcs, EndStates, FFThreadPcs, EventStates, EopPcs
  <1>2. ASSUME NEW q \in Procs PROVE Local(q)'
    BY <1>0, ConfigFacts DEF IInv, Types, SyncCallback, Local, Life, Ends, Toggled, Ffi, Simulates, Phase, Callback, PhaseIsEnding, alive
  <1>3. Counts'
    <2>1. Born' = Born /\ FF' = FF /\ Active' = Active /\ Gone' = Gone
      BY DEF IInv, Types, SyncCallback, Born, FF, Active, Gone, Local, Life
    <2> QED
      BY <2>1, CountsKept DEF IInv, SyncCallback
  <1>4. Last' /\ OneCallback' /\ NotTerminating'
    BY DEF IInv, Types, Local, Callback, Last, OneCallback, NotTerminating, SyncCallback
  <1> QED
    BY <1>1, <1>2, <1>3, <1>4 DEF IInv

\* It is done.
LEMMA SyncReturnsStep ==
    ASSUME IInv, NEW p \in Procs, SyncReturns(p)
    PROVE  IInv'
  <1> USE DEF thVars, cntVars, fftVars, eopVars
  <1>0. syncedFF' = syncedFF
    BY SyncedKept DEF SyncReturns
  <1>1. Types'
    BY DEF IInv, Types, SyncReturns, ThreadPcs, EndStates, FFThreadPcs, EventStates, EopPcs
  <1>2. ASSUME NEW q \in Procs PROVE Local(q)'
    BY <1>0, ConfigFacts DEF IInv, Types, SyncReturns, Local, Life, Ends, Toggled, Ffi, Simulates, Phase, Callback, OneCallback, PhaseIsEnding, alive
  <1>3. Counts'
    <2>1. Born' = Born /\ FF' = FF /\ Active' = Active /\ Gone' = Gone
      BY DEF IInv, Types, SyncReturns, Born, FF, Active, Gone, Local, Life
    <2> QED
      BY <2>1, CountsKept DEF IInv, SyncReturns
  <1>4. Last' /\ OneCallback' /\ NotTerminating'
    BY DEF IInv, Types, Last, OneCallback, NotTerminating, SyncReturns
  <1> QED
    BY <1>1, <1>2, <1>3, <1>4 DEF IInv

\* A process counted as in FF leaves it: the counters follow.
LEMMA CountsLeave ==
    ASSUME IInv, NEW p \in Procs, p \in started, inFastForward[p], exitFastForward(p),
           terminationConditionMet' = terminationConditionMet, started' = started,
           Born' = Born, Active' = Active, Gone' = Gone
    PROVE  Counts'
  <1>1. FF' = FF \ {p} /\ p \in FF
    BY DEF IInv, Types, exitFastForward, FF
  <1>2. Cardinality(FF') = Cardinality(FF) - 1
    BY <1>1, SetTypes, OneLess DEF IInv
  <1>3. syncedFF' = syncedFF /\ syncedFF \in {0, 1}
    BY SyncedKept, SyncedBit DEF exitFastForward
  <1>4. Cardinality(FF) \in Nat /\ Cardinality(Gone) \in Nat
    BY SetTypes, ProcSets DEF IInv
  <1>5. globalSyncedFFProcs' = globalFFProcs' * syncedFF'
    <2>1. CASE syncedFF = 0
      BY <1>3, <2>1 DEF IInv, Types, Counts, exitFastForward
    <2>2. CASE syncedFF = 1
      BY <1>3, <2>2 DEF IInv, Types, Counts, exitFastForward
    <2> QED
      BY <1>3, <2>1, <2>2
  <1> QED
    BY <1>2, <1>4, <1>5 DEF IInv, Types, Counts, exitFastForward

\* A process not in FF enters it: the counters follow.
LEMMA CountsEnter ==
    ASSUME IInv, NEW p \in Procs, p \in started, ~inFastForward[p], enterFastForward(p),
           terminationConditionMet' = terminationConditionMet, started' = started,
           Born' = Born, Active' = Active, Gone' = Gone
    PROVE  Counts'
  <1>1. FF' = FF \cup {p} /\ p \notin FF
    BY DEF IInv, Types, enterFastForward, FF
  <1>2. Cardinality(FF') = Cardinality(FF) + 1
    BY <1>1, SetTypes, OneMore DEF IInv
  <1>3. syncedFF' = syncedFF /\ syncedFF \in {0, 1}
    BY SyncedKept, SyncedBit DEF enterFastForward
  <1>4. Cardinality(FF) \in Nat /\ Cardinality(Gone) \in Nat
    BY SetTypes, ProcSets DEF IInv
  <1>5. globalSyncedFFProcs' = globalFFProcs' * syncedFF'
    <2>1. CASE syncedFF = 0
      BY <1>3, <2>1 DEF IInv, Types, Counts, enterFastForward
    <2>2. CASE syncedFF = 1
      BY <1>3, <2>2 DEF IInv, Types, Counts, enterFastForward
    <2> QED
      BY <1>3, <2>1, <2>2
  <1> QED
    BY <1>2, <1>4, <1>5 DEF IInv, Types, Counts, enterFastForward

\* An FFI process leaves FF.
LEMMA FFIBasicBlockStep ==
    ASSUME IInv, NEW p \in Procs, FFIBasicBlock(p)
    PROVE  IInv'
  <1> USE DEF thVars, cntVars, fftVars, eopVars
  <1>0. syncedFF' = syncedFF /\ syncedFF \in {0, 1}
    BY SyncedKept, SyncedBit DEF FFIBasicBlock, exitFastForward
  <1>1. Types'
    BY <1>0 DEF IInv, Types, FFIBasicBlock, exitFastForward, ThreadPcs, EndStates, FFThreadPcs, EventStates, EopPcs
  <1>2. ASSUME NEW q \in Procs PROVE Local(q)'
    BY <1>0, ConfigFacts DEF IInv, Types, FFIBasicBlock, exitFastForward, Local, Life, Ends, Toggled, Ffi, Simulates, Phase, Callback, PhaseIsEnding, alive
  <1>3. Counts'
    <2>1. Born' = Born /\ Active' = Active /\ Gone' = Gone
      BY DEF IInv, Types, FFIBasicBlock, exitFastForward, Born, Active, Gone, Local, Life
    <2>2. p \in started
      BY ConfigFacts DEF IInv, Types, FFIBasicBlock, Local, Life, Ffi, alive
    <2> QED
      BY <2>1, <2>2, CountsLeave DEF IInv, FFIBasicBlock
  <1>4. Last' /\ OneCallback' /\ NotTerminating'
    BY DEF IInv, Types, Last, OneCallback, NotTerminating, FFIBasicBlock, exitFastForward
  <1> QED
    BY <1>1, <1>2, <1>3, <1>4 DEF IInv

\* A program begins its region of interest.
LEMMA RoiBeginStep ==
    ASSUME IInv, NEW p \in Procs, RoiBegin(p)
    PROVE  IInv'
  <1> USE DEF thVars, cntVars, fftVars, eopVars
  <1>0. syncedFF' = syncedFF /\ syncedFF \in {0, 1}
    BY SyncedKept, SyncedBit DEF RoiBegin, exitFastForward
  <1>1. Types'
    BY <1>0 DEF IInv, Types, RoiBegin, exitFastForward, ThreadPcs, EndStates, FFThreadPcs, EventStates, EopPcs
  <1>2. ASSUME NEW q \in Procs PROVE Local(q)'
    BY <1>0, ConfigFacts DEF IInv, Types, RoiBegin, exitFastForward, Local, Life, Ends, Toggled, Ffi, Simulates, Phase, Callback, PhaseIsEnding, alive
  <1>3. Counts'
    <2>1. Born' = Born /\ Active' = Active /\ Gone' = Gone
      BY DEF IInv, Types, RoiBegin, exitFastForward, Born, Active, Gone, Local, Life
    <2>2. p \in started
      BY ConfigFacts DEF IInv, Types, RoiBegin, Local, Life, Ffi, alive
    <2> QED
      BY <2>1, <2>2, CountsLeave DEF IInv, RoiBegin
  <1>4. Last' /\ OneCallback' /\ NotTerminating'
    BY DEF IInv, Types, Last, OneCallback, NotTerminating, RoiBegin, exitFastForward
  <1> QED
    BY <1>1, <1>2, <1>3, <1>4 DEF IInv

\* It ends it.
LEMMA RoiEndStep ==
    ASSUME IInv, NEW p \in Procs, RoiEnd(p)
    PROVE  IInv'
  <1> USE DEF thVars, cntVars, fftVars, eopVars
  <1>0. syncedFF' = syncedFF /\ syncedFF \in {0, 1}
    BY SyncedKept, SyncedBit DEF RoiEnd, enterFastForward
  <1>1. Types'
    BY <1>0 DEF IInv, Types, RoiEnd, enterFastForward, ThreadPcs, EndStates, FFThreadPcs, EventStates, EopPcs
  <1>2. ASSUME NEW q \in Procs PROVE Local(q)'
    BY <1>0, ConfigFacts DEF IInv, Types, RoiEnd, enterFastForward, Local, Life, Ends, Toggled, Ffi, Simulates, Phase, Callback, PhaseIsEnding, alive
  <1>3. Counts'
    <2>1. Born' = Born /\ Active' = Active /\ Gone' = Gone
      BY DEF IInv, Types, RoiEnd, enterFastForward, Born, Active, Gone, Local, Life
    <2>2. p \in started
      BY ConfigFacts DEF IInv, Types, RoiEnd, Local, Life, Ffi, alive
    <2> QED
      BY <2>1, <2>2, CountsEnter DEF IInv, RoiEnd
  <1>4. Last' /\ OneCallback' /\ NotTerminating'
    BY DEF IInv, Types, Last, OneCallback, NotTerminating, RoiEnd, enterFastForward
  <1> QED
    BY <1>1, <1>2, <1>3, <1>4 DEF IInv

\* An FF control thread takes its process out of FF.
LEMMA FFThreadExitsFFStep ==
    ASSUME IInv, NEW p \in Procs, FFThreadExitsFF(p)
    PROVE  IInv'
  <1> USE DEF thVars, cntVars, fftVars, eopVars
  <1>0. syncedFF' = syncedFF /\ syncedFF \in {0, 1}
    BY SyncedKept, SyncedBit DEF FFThreadExitsFF, exitFastForward
  <1>1. Types'
    BY <1>0 DEF IInv, Types, FFThreadExitsFF, exitFastForward, ThreadPcs, EndStates, FFThreadPcs, EventStates, EopPcs
  <1>2. ASSUME NEW q \in Procs PROVE Local(q)'
    BY <1>0, ConfigFacts DEF IInv, Types, FFThreadExitsFF, exitFastForward, Local, Life, Ends, Toggled, Ffi, Simulates, Phase, Callback, PhaseIsEnding, alive
  <1>3. Counts'
    <2>1. Born' = Born /\ Active' = Active /\ Gone' = Gone
      BY DEF IInv, Types, FFThreadExitsFF, exitFastForward, Born, Active, Gone, Local, Life
    <2>2. p \in started
      BY ConfigFacts DEF IInv, Types, FFThreadExitsFF, Local, Life, Ffi, alive
    <2> QED
      BY <2>1, <2>2, CountsLeave DEF IInv, FFThreadExitsFF
  <1>4. Last' /\ OneCallback' /\ NotTerminating'
    BY DEF IInv, Types, Last, OneCallback, NotTerminating, FFThreadExitsFF, exitFastForward
  <1> QED
    BY <1>1, <1>2, <1>3, <1>4 DEF IInv

\* An FFI event fires.
LEMMA FfiFiresStep ==
    ASSUME IInv, NEW p \in Procs, FfiFires(p)
    PROVE  IInv'
  <1> USE DEF thVars, cntVars, fftVars, eopVars
  <1>0. syncedFF' = syncedFF /\ syncedFF \in {0, 1}
    BY SyncedKept, SyncedBit DEF FfiFires, enterFastForward
  <1>1. Types'
    BY <1>0 DEF IInv, Types, FfiFires, enterFastForward, ThreadPcs, EndStates, FFThreadPcs, EventStates, EopPcs
  <1>2. ASSUME NEW q \in Procs PROVE Local(q)'
    BY <1>0, ConfigFacts DEF IInv, Types, FfiFires, enterFastForward, Local, Life, Ends, Toggled, Ffi, Simulates, Phase, Callback, PhaseIsEnding, alive
  <1>3. Counts'
    <2>1. Born' = Born /\ Active' = Active /\ Gone' = Gone
      BY DEF IInv, Types, FfiFires, enterFastForward, Born, Active, Gone, Local, Life
    <2>2. p \in started /\ ~inFastForward[p]
      BY ConfigFacts DEF IInv, Types, FfiFires, Local, Life, Ffi, alive
    <2> QED
      BY <2>1, <2>2, CountsEnter DEF IInv, FfiFires
  <1>4. Last' /\ OneCallback' /\ NotTerminating'
    BY DEF IInv, Types, Last, OneCallback, NotTerminating, FfiFires, enterFastForward
  <1> QED
    BY <1>1, <1>2, <1>3, <1>4 DEF IInv

\* An FF control thread puts its process into FF, unless it is there.
LEMMA FFThreadEntersFFStep ==
    ASSUME IInv, NEW p \in Procs, FFThreadEntersFF(p)
    PROVE  IInv'
  <1> USE DEF thVars, cntVars, fftVars, eopVars
  <1>0. syncedFF' = syncedFF /\ syncedFF \in {0, 1}
    BY SyncedKept, SyncedBit DEF FFThreadEntersFF, enterFastForward
  <1>1. Types'
    <2>1. CASE inFastForward[p]
      BY <2>1 DEF IInv, Types, FFThreadEntersFF, FFThreadPcs, EventStates
    <2>2. CASE ~inFastForward[p]
      <3>1. enterFastForward(p)
        BY <2>2 DEF FFThreadEntersFF
      <3> QED
        BY <1>0, <3>1 DEF IInv, Types, FFThreadEntersFF, enterFastForward, FFThreadPcs, EventStates
    <2> QED
      BY <2>1, <2>2
  <1>2. ASSUME NEW q \in Procs PROVE Local(q)'
    BY <1>0, ConfigFacts DEF IInv, Types, FFThreadEntersFF, enterFastForward, Local, Life, Ends, Toggled, Ffi,
                             Simulates, Phase, Callback, PhaseIsEnding, alive
  <1>3. Counts'
    <2>1. Born' = Born /\ Active' = Active /\ Gone' = Gone
      BY DEF IInv, Types, FFThreadEntersFF, enterFastForward, Born, Active, Gone
    <2>2. p \in started
      BY DEF IInv, Types, FFThreadEntersFF, Local, Life, alive
    <2>3. CASE inFastForward[p]
      <3>1. FF' = FF
        BY <2>3 DEF FFThreadEntersFF, FF
      <3> QED
        BY <2>1, <2>3, <3>1, CountsKept DEF IInv, FFThreadEntersFF
    <2>4. CASE ~inFastForward[p]
      BY <2>1, <2>2, <2>4, CountsEnter DEF IInv, FFThreadEntersFF
    <2> QED
      BY <2>3, <2>4
  <1>4. Last' /\ OneCallback' /\ NotTerminating'
    BY DEF IInv, Types, Last, OneCallback, NotTerminating, FFThreadEntersFF, enterFastForward
  <1> QED
    BY <1>1, <1>2, <1>3, <1>4 DEF IInv

\* A process starts, for the first time or again.
LEMMA StartStep ==
    ASSUME IInv, NEW p \in Procs, Start(p)
    PROVE  IInv'
  <1> USE DEF fftVars
  <1>0. syncedFF' = syncedFF /\ syncedFF \in {0, 1}
    BY SyncedKept, SyncedBit DEF Start
  <1>1. Types'
    BY <1>0, ConfigFacts DEF IInv, Types, Start, notifyStart, ThreadPcs
  <1>2. ASSUME NEW q \in Procs PROVE Local(q)'
    BY <1>0, ConfigFacts DEF IInv, Types, Start, notifyStart, Local, Life, Ends, Toggled, Ffi,
                             Simulates, Phase, Callback, PhaseIsEnding, alive
  <1>3. Counts'
    <2>0. Born' = Born
      BY DEF IInv, Types, Start, Born
    <2>1. CASE p \in started
      <3>1. FF' = FF /\ Active' = Active /\ Gone' = Gone
        BY <2>1 DEF IInv, Types, Start, FF, Active, Gone, Local, Life
      <3> QED
        BY <2>0, <2>1, <3>1, CountsKept DEF IInv, Start
    <2>2. CASE p \notin started
      <3>1. Active' = Active \cup {p} /\ p \notin Active /\ Gone' = Gone
        BY <2>2 DEF IInv, Types, Start, notifyStart, Active, Gone, Local, Life
      <3>2. Cardinality(Active') = Cardinality(Active) + 1
        BY <3>1, SetTypes, OneMore DEF IInv
      <3>3. FF' = (IF inFastForward[p] THEN FF \cup {p} ELSE FF) /\ p \notin FF
        BY <2>2 DEF IInv, Types, Start, notifyStart, FF
      <3>4. Cardinality(FF') = Cardinality(FF) + (IF inFastForward[p] THEN 1 ELSE 0)
        <4>1. CASE inFastForward[p]
          BY <3>3, <4>1, SetTypes, OneMore DEF IInv
        <4>2. CASE ~inFastForward[p]
          <5>1. Cardinality(FF) \in Nat
            BY SetTypes, ProcSets DEF IInv
          <5> QED
            BY <3>3, <4>2, <5>1
        <4> QED
          BY <4>1, <4>2
      <3>5. Cardinality(FF) \in Nat /\ Cardinality(Gone) \in Nat
        BY SetTypes, ProcSets DEF IInv
      <3>6. globalSyncedFFProcs' = globalFFProcs' * syncedFF'
        <4>1. CASE syncedFF = 0
          BY <1>0, <2>2, <4>1 DEF IInv, Types, Counts, Start, notifyStart
        <4>2. CASE syncedFF = 1
          BY <1>0, <2>2, <4>2 DEF IInv, Types, Counts, Start, notifyStart
        <4> QED
          BY <1>0, <4>1, <4>2
      <3> QED
        BY <2>0, <2>2, <3>1, <3>2, <3>4, <3>5, <3>6 DEF IInv, Types, Counts, Start, notifyStart
    <2> QED
      BY <2>1, <2>2
  <1>4. Last'
    <2> SUFFICES ASSUME (thr[Proc0] = "dead")' PROVE (\A q \in started : thr[q] = "dead" /\ end[q] = "done")'
      BY DEF Last
    <2>1. thr[Proc0] = "dead" /\ Proc0 \in started /\ p # Proc0
      BY ConfigFacts DEF IInv, Types, Start, Local, Life
    <2>2. Active = {}
      BY <2>1 DEF IInv, Last, Active
    <2>3. globalActiveProcs = 0
      BY <2>2, FS_EmptySet DEF IInv, Counts
    <2>4. p \in started /\ started' = started
      BY <2>1, <2>3 DEF Start
    <2> QED
      BY <2>1, <2>4 DEF IInv, Last, Start
  <1>5. OneCallback' /\ NotTerminating'
    BY DEF IInv, OneCallback, NotTerminating, Start
  <1> QED
    BY <1>1, <1>2, <1>3, <1>4, <1>5 DEF IInv

\* A process forks: the child starts as a copy, and is counted when it starts.
LEMMA ForkStep ==
    ASSUME IInv, NEW p \in Procs, NEW c \in Procs, Fork(p, c)
    PROVE  IInv'
  <1> USE DEF fftVars, eopVars
  <1>0. syncedFF' = syncedFF
    BY ConfigFacts DEF syncedFF, getSyncedFastForward, Fork, IInv, Types
  <1>1. Types'
    BY DEF IInv, Types, Fork, ThreadPcs
  <1>2. ASSUME NEW q \in Procs PROVE Local(q)'
    BY <1>0, ConfigFacts DEF IInv, Types, Fork, Local, Life, Ends, Toggled, Ffi,
                             Simulates, Phase, Callback, PhaseIsEnding, alive
  <1>3. Counts'
    <2>1. FF' = FF /\ Active' = Active /\ Gone' = Gone
      BY DEF IInv, Types, Fork, FF, Active, Gone, Local, Life
    <2>2. Born' = Born \cup {c} /\ c \notin Born
      BY DEF IInv, Types, Fork, Born
    <2>3. Cardinality(Born') = Cardinality(Born) + 1
      BY <2>2, SetTypes, OneMore DEF IInv
    <2> QED
      BY <1>0, <2>1, <2>3 DEF IInv, Types, Counts, Fork
  <1>4. Last' /\ OneCallback' /\ NotTerminating'
    BY DEF IInv, Types, Last, OneCallback, NotTerminating, Fork, Local, Life
  <1> QED
    BY <1>1, <1>2, <1>3, <1>4 DEF IInv

\* The rest of notifyEnd().
LEMMA NotifyEndStep ==
    ASSUME IInv, NEW p \in Procs, NotifyEnd(p)
    PROVE  IInv'
  <1> USE DEF fftVars, eopVars
  <1> DEFINE again == restartsLeft[p] > 0 /\ ~terminationConditionMet
  <1>0. syncedFF' = syncedFF /\ syncedFF \in {0, 1}
    BY SyncedKept, SyncedBit DEF NotifyEnd
  <1>a. p \in started /\ end[p] = "notify" /\ (again => p # Proc0)
    BY DEF IInv, Types, NotifyEnd, Local, Life
  <1>1. Types'
    BY <1>0 DEF IInv, Types, NotifyEnd, ThreadPcs, EndStates
  <1>2. ASSUME NEW q \in Procs PROVE Local(q)'
    BY <1>0, ConfigFacts DEF IInv, Types, NotifyEnd, Local, Life, Ends, Toggled, Ffi,
                             Simulates, Phase, Callback, PhaseIsEnding, alive
  <1>3. Counts'
    <2>1. Born' = Born
      BY DEF IInv, Types, NotifyEnd, Born, Local, Life
    <2>2. Cardinality(Active') = Cardinality(Active) - (IF again THEN 0 ELSE 1)
      <3>1. p \in Active /\ Cardinality(Active) \in Nat
        BY <1>a, SetTypes, ProcSets DEF Active, IInv
      <3>2. CASE again
        <4>1. Active' = Active
          BY <1>a, <3>2 DEF IInv, Types, NotifyEnd, Active
        <4> QED
          BY <3>1, <3>2, <4>1
      <3>3. CASE ~again
        <4>1. Active' = Active \ {p}
          BY <1>a, <3>3 DEF IInv, Types, NotifyEnd, Active, Local, Life
        <4> QED
          BY <3>1, <3>3, <4>1, SetTypes, OneLess DEF IInv
      <3> QED
        BY <3>2, <3>3
    <2>3. Cardinality(Gone') = Cardinality(Gone) + (IF again THEN 0 ELSE 1)
      <3>1. p \notin Gone /\ Cardinality(Gone) \in Nat
        BY <1>a, SetTypes, ProcSets DEF Gone, IInv
      <3>2. CASE again
        <4>1. Gone' = Gone
          BY <1>a, <3>2 DEF IInv, Types, NotifyEnd, Gone
        <4> QED
          BY <3>1, <3>2, <4>1
      <3>3. CASE ~again
        <4>1. Gone' = Gone \cup {p}
          BY <1>a, <3>3 DEF IInv, Types, NotifyEnd, Gone, Local, Life
        <4> QED
          BY <3>1, <3>3, <4>1, SetTypes, OneMore DEF IInv
      <3> QED
        BY <3>2, <3>3
    <2>4. Cardinality(FF') = Cardinality(FF) - (IF p \in sawFF /\ inFastForward[p] THEN 1 ELSE 0)
      <3>1. CASE p \in sawFF /\ inFastForward[p]
        <4>1. FF' = FF \ {p} /\ p \in FF
          BY <1>a, <3>1 DEF IInv, Types, NotifyEnd, FF
        <4> QED
          BY <3>1, <4>1, SetTypes, OneLess DEF IInv
      <3>2. CASE ~(p \in sawFF /\ inFastForward[p])
        <4>1. FF' = FF
          BY <1>a, <3>2 DEF IInv, Types, NotifyEnd, FF
        <4>2. Cardinality(FF) \in Nat
          BY SetTypes, ProcSets DEF IInv
        <4> QED
          BY <3>2, <4>1, <4>2
      <3> QED
        BY <3>1, <3>2
    <2>5. globalSyncedFFProcs' = globalFFProcs' * syncedFF'
      <3>1. CASE syncedFF = 0
        BY <1>0, <3>1 DEF IInv, Types, Counts, NotifyEnd
      <3>2. CASE syncedFF = 1
        BY <1>0, <3>2 DEF IInv, Types, Counts, NotifyEnd
      <3> QED
        BY <1>0, <3>1, <3>2
    <2>6. globalFFProcs' = globalFFProcs - (IF p \in sawFF THEN 1 ELSE 0)
          /\ (~terminationConditionMet /\ p \in sawFF => inFastForward[p])
          /\ (again => ~terminationConditionMet)
          /\ globalActiveProcs' = globalActiveProcs - (IF again THEN 0 ELSE 1)
          /\ numProcs' = numProcs /\ terminationConditionMet' = terminationConditionMet
      BY DEF IInv, NotifyEnd, Local, Ends
    <2>7. Cardinality(FF) \in Nat /\ Cardinality(Gone) \in Nat
      BY SetTypes, ProcSets DEF IInv
    <2> HIDE DEF again
    <2> QED
      BY <2>1, <2>2, <2>3, <2>4, <2>5, <2>6, <2>7 DEF IInv, Types, Counts
  <1>4. Last' /\ OneCallback' /\ NotTerminating'
    BY <1>a, ConfigFacts DEF IInv, Types, Last, OneCallback, NotTerminating, NotifyEnd, Local, Life
  <1> QED
    BY <1>1, <1>2, <1>3, <1>4 DEF IInv

\* Process 0 finishes once all are done.
LEMMA Proc0FinishesStep ==
    ASSUME IInv, Proc0Finishes
    PROVE  IInv'
  <1> USE DEF cntVars, fftVars, eopVars
  <1>0. syncedFF' = syncedFF
    BY SyncedKept DEF Proc0Finishes
  <1>1. Types'
    BY DEF IInv, Types, Proc0Finishes, ThreadPcs
  <1>2. ASSUME NEW q \in Procs PROVE Local(q)'
    BY <1>0, ConfigFacts DEF IInv, Types, Proc0Finishes, Local, Life, Ends, Toggled, Ffi,
                             Simulates, Phase, Callback, PhaseIsEnding, alive
  <1>3. Counts'
    <2>1. Born' = Born /\ FF' = FF /\ Active' = Active /\ Gone' = Gone
      BY ConfigFacts DEF IInv, Types, Proc0Finishes, Born, FF, Active, Gone, alive
    <2> QED
      BY <2>1, CountsKept DEF IInv, Proc0Finishes
  <1>4. Last'
    <2>1. Active = {}
      BY SetTypes, ProcSets, FS_EmptySet DEF IInv, Counts, Proc0Finishes
    <2>2. ASSUME NEW q \in started PROVE (thr[q] = "dead" /\ end[q] = "done")'
      BY <2>1, ConfigFacts DEF IInv, Types, Proc0Finishes, Active, Local, Life
    <2>3. started' = started
      BY DEF Proc0Finishes
    <2> QED
      BY <2>2, <2>3 DEF Last
  <1>5. OneCallback' /\ NotTerminating'
    BY DEF IInv, OneCallback, NotTerminating, Proc0Finishes
  <1> QED
    BY <1>1, <1>2, <1>3, <1>4, <1>5 DEF IInv

-----------------------------------------------------------------------------
(***************************************************************************)
(* The end of a phase.                                                     *)
(***************************************************************************)

\* Past the wait for synced FF nobody is in synced FF.
LEMMA EndOfPhaseActionsStep ==
    ASSUME IInv, EndOfPhaseActions
    PROVE  IInv'
  <1> USE DEF thVars, cntVars, fftVars
  <1>0. syncedFF' = syncedFF /\ syncedFF \in {0, 1}
    BY SyncedKept, SyncedBit DEF EndOfPhaseActions
  <1>a. syncedFF = 1 => FF = {}
    <2>1. SUFFICES ASSUME syncedFF = 1 PROVE FF = {}
      OBVIOUS
    <2>2. globalFFProcs = Cardinality(FF)
      BY DEF IInv, Counts, NotTerminating, EndOfPhaseActions
    <2>3. Cardinality(FF) \in Nat /\ IsFiniteSet(FF)
      BY SetTypes, ProcSets DEF IInv
    <2>4. Cardinality(FF) = 0
      BY <2>1, <2>2, <2>3 DEF IInv, Counts, EndOfPhaseActions
    <2> QED
      BY <2>3, <2>4, FS_EmptySet
  <1>1. Types'
    BY ConfigFacts DEF IInv, Types, EndOfPhaseActions, CheckForTermination, EopPcs
  <1>2. ASSUME NEW q \in Procs PROVE Local(q)'
    BY <1>0, <1>a DEF IInv, Types, EndOfPhaseActions, CheckForTermination, FF, Local, Life, Ends, Toggled, Ffi,
                      Simulates, Phase, Callback, PhaseIsEnding, NotTerminating, alive
  <1>3. Counts'
    <2>1. Born' = Born /\ FF' = FF /\ Active' = Active /\ Gone' = Gone
      BY DEF IInv, Types, EndOfPhaseActions, Born, FF, Active, Gone
    <2> QED
      BY <1>0, <2>1 DEF IInv, Counts, NotTerminating, EndOfPhaseActions
  <1>4. Last' /\ OneCallback' /\ NotTerminating'
    BY DEF IInv, Types, Last, OneCallback, NotTerminating, EndOfPhaseActions
  <1> QED
    BY <1>1, <1>2, <1>3, <1>4 DEF IInv

\* An event of a past phase.
LEMMA TickPanicsStep ==
    ASSUME IInv, TickPanics
    PROVE  IInv'
  <1> USE DEF thVars, cntVars, fftVars
  <1>0. syncedFF' = syncedFF
    BY SyncedKept DEF TickPanics
  <1>1. Types'
    BY DEF IInv, Types, TickPanics, EopPcs
  <1>2. ASSUME NEW q \in Procs PROVE Local(q)'
    BY <1>0 DEF IInv, Types, TickPanics, Local, Life, Ends, Toggled, Ffi,
                Simulates, Phase, Callback, PhaseIsEnding, alive
  <1>3. Counts'
    <2>1. Born' = Born /\ FF' = FF /\ Active' = Active /\ Gone' = Gone
      BY DEF TickPanics, Born, FF, Active, Gone
    <2> QED
      BY <2>1, CountsKept DEF IInv, TickPanics
  <1>4. Last' /\ OneCallback' /\ NotTerminating'
    BY DEF IInv, Last, OneCallback, NotTerminating, TickPanics
  <1> QED
    BY <1>1, <1>2, <1>3, <1>4 DEF IInv

\* tick() is over.
LEMMA TickDoneStep ==
    ASSUME IInv, TickDone
    PROVE  IInv'
  <1> USE DEF thVars, cntVars, fftVars
  <1>0. syncedFF' = syncedFF
    BY SyncedKept DEF TickDone
  <1>1. Types'
    BY DEF IInv, Types, TickDone, EopPcs
  <1>2. ASSUME NEW q \in Procs PROVE Local(q)'
    BY <1>0 DEF IInv, Types, TickDone, Local, Life, Ends, Toggled, Ffi,
                Simulates, Phase, Callback, PhaseIsEnding, alive
  <1>3. Counts'
    <2>1. Born' = Born /\ FF' = FF /\ Active' = Active /\ Gone' = Gone
      BY DEF TickDone, Born, FF, Active, Gone
    <2> QED
      BY <2>1, CountsKept DEF IInv, TickDone
  <1>4. Last' /\ OneCallback' /\ NotTerminating'
    BY DEF IInv, Last, OneCallback, NotTerminating, TickDone
  <1> QED
    BY <1>1, <1>2, <1>3, <1>4 DEF IInv

\* The next phase begins: who was in sync() is woken.
LEMMA NextPhaseStep ==
    ASSUME IInv, NextPhase
    PROVE  IInv'
  <1>0. syncedFF' = syncedFF
    BY SyncedKept DEF NextPhase
  <1>1. Types'
    BY DEF IInv, Types, NextPhase, ThreadPcs, EventStates, EopPcs, Min2
  <1>2. ASSUME NEW q \in Procs PROVE Local(q)'
    <2>1. Life(q)'
      BY DEF IInv, Types, NextPhase, Min2, Local, Life
    <2>2. Ends(q)' /\ Toggled(q)' /\ Ffi(q)'
      BY DEF IInv, Types, NextPhase, Local, Ends, Toggled, Ffi, PhaseIsEnding
    <2>3. Simulates(q)'
      BY DEF IInv, Types, NextPhase, Min2, Local, Life, Simulates, Phase, PhaseIsEnding
    <2>4. Phase(q)'
      BY <1>0 DEF IInv, Types, NextPhase, Min2, Local, Phase, PhaseIsEnding
    <2>5. Callback(q)'
      BY DEF IInv, Types, NextPhase, Local, Callback, alive
    <2> QED
      BY <2>1, <2>2, <2>3, <2>4, <2>5 DEF Local
  <1>3. Counts'
    <2>1. Born' = Born /\ FF' = FF /\ Active' = Active /\ Gone' = Gone
      BY DEF IInv, Types, NextPhase, Born, FF, Active, Gone
    <2> QED
      BY <2>1, CountsKept DEF IInv, NextPhase
  <1>4. Last' /\ OneCallback' /\ NotTerminating'
    BY ConfigFacts DEF IInv, Types, Last, OneCallback, NotTerminating, NextPhase
  <1> QED
    BY <1>1, <1>2, <1>3, <1>4 DEF IInv

-----------------------------------------------------------------------------
(***************************************************************************)
(* The theorems.                                                           *)
(***************************************************************************)

\* The simulation begins with nobody started.
LEMMA InitIInv == Init => IInv
  <1> SUFFICES ASSUME Init PROVE IInv
    OBVIOUS
  <1>0. config \in Configs
    BY DEF Init
  <1>1. Types
    <2>1. Cardinality(config.launched) \in Nat
      BY <1>0, ConfigFacts, ProcSets
    <2>2. inFastForward \in [Procs -> BOOLEAN]
      <3>1. \A q \in Procs : (q \in config.startFF) \in BOOLEAN
        OBVIOUS
      <3> QED
        BY <3>1, Zenon DEF Init
    <2>3. restartsLeft \in [Procs -> Nat]
      BY <1>0, ConfigFacts DEF Init
    <2>4. thr \in [Procs -> ThreadPcs] /\ end \in [Procs -> EndStates] /\ fft \in [Procs -> FFThreadPcs]
          /\ syncEv \in [Procs -> EventStates] /\ toggle \in [Procs -> BOOLEAN]
      BY DEF Init, ThreadPcs, EndStates, FFThreadPcs, EventStates
    <2> QED
      <3>1. 0 \in 0..2
        OBVIOUS
      <3>2. since \in [Procs -> 0..2] /\ simulated \in [Procs -> 0..2]
        BY <3>1 DEF Init
      <3>3. /\ started \subseteq Procs /\ sawFF \subseteq Procs /\ ffLock \in Procs \cup {NoProc}
            /\ ffiEvents \subseteq Procs /\ ran \subseteq Procs /\ firing \subseteq ffiEvents
            /\ eop \in EopPcs /\ runner \in Procs \cup {NoProc} /\ terminationConditionMet \in BOOLEAN
            /\ numProcs \in Int /\ globalActiveProcs \in Int
            /\ globalFFProcs \in Int /\ globalSyncedFFProcs \in Int
        <4>1. numProcs \in Int
          BY <2>1 DEF Init
        <4>2. globalActiveProcs \in Int /\ globalFFProcs \in Int /\ globalSyncedFFProcs \in Int
          BY DEF Init
        <4>3. terminationConditionMet \in BOOLEAN
          BY DEF Init
        <4> QED
          BY <4>1, <4>2, <4>3 DEF Init, EopPcs
      <3> QED
        BY <1>0, <2>2, <2>3, <2>4, <3>2, <3>3 DEF Types
  <1>2. ASSUME NEW q \in Procs PROVE Local(q)
    BY <1>0, ConfigFacts DEF Init, Local, Life, Ends, Toggled, Ffi, Simulates, Phase, Callback,
                             PhaseIsEnding, alive
  <1>3. Counts
    <2>1. Born = config.launched
      BY <1>0, ConfigFacts DEF Init, Born
    <2>2. FF = {} /\ Active = {} /\ Gone = {}
      BY DEF Init, FF, Active, Gone
    <2>3. 0 * syncedFF = 0
      BY SyncedBit
    <2> QED
      BY <2>1, <2>2, <2>3, FS_EmptySet DEF Init, Counts
  <1>4. Last /\ OneCallback /\ NotTerminating
    BY <1>0, ConfigFacts DEF Init, Last, OneCallback, NotTerminating
  <1> QED
    BY <1>1, <1>2, <1>3, <1>4 DEF IInv

\* Nothing happens.
LEMMA StutterStep == IInv /\ UNCHANGED vars => IInv'
  <1> SUFFICES ASSUME IInv, UNCHANGED vars PROVE IInv'
    OBVIOUS
  <1> USE DEF vars, thVars, cntVars, fftVars, eopVars
  <1>0. syncedFF' = syncedFF
    BY SyncedKept
  <1>1. Types'
    BY DEF IInv, Types
  <1>2. ASSUME NEW q \in Procs PROVE Local(q)'
    BY <1>0 DEF IInv, Local, Life, Ends, Toggled, Ffi, Simulates, Phase, Callback, PhaseIsEnding, alive
  <1>3. Counts'
    BY <1>0 DEF IInv, Counts, Born, FF, Active, Gone
  <1>4. Last' /\ OneCallback' /\ NotTerminating'
    BY DEF IInv, Last, OneCallback, NotTerminating
  <1> QED
    BY <1>1, <1>2, <1>3, <1>4 DEF IInv

\* Every step keeps the invariant.
LEMMA NextStep == IInv /\ [Next]_vars => IInv'
  <1> SUFFICES ASSUME IInv, Next PROVE IInv'
    BY StutterStep
  <1>1. ASSUME NEW p \in Procs, AppNext(p) PROVE IInv'
    BY <1>1, StartStep, FFBasicBlockStep, FFIBasicBlockStep, FFITrackStep, JoinStep, SyncStep, TakeBarrierStep,
       NotifyEndStep DEF AppNext
  <1>2. ASSUME NEW p \in Procs, ProgramNext(p) PROVE IInv'
    BY <1>2, RoiBeginStep, RoiEndStep, ExitStep, ForkStep DEF ProgramNext
  <1>3. ASSUME NEW p \in Procs, FFThreadNext(p) PROVE IInv'
    BY <1>3, FFThreadWakesStep, FFThreadExitsFFStep, FFThreadLocksStep, FFThreadInsertsStep,
       FFThreadEntersFFStep, FFThreadTimesOutStep DEF FFThreadNext
  <1>4. ASSUME EopNext PROVE IInv'
    BY <1>4, PhaseEndsStep, EndOfPhaseActionsStep, TickDoneStep, NextPhaseStep, TickPanicsStep, FfiFiresStep,
       SyncCallbackStep, SyncReturnsStep DEF EopNext
  <1> QED
    BY <1>1, <1>2, <1>3, <1>4, StartPanicsStep, ToggleStep, ChldSigHandlerStep, Proc0FinishesStep DEF Next

\* The invariant of the process tree: the sets the counters count, and what each
\* thread may do in each state of its process and of the end of the phase.
THEOREM InductiveInvariant == Spec => []IInv
  BY InitIInv, NextStep, PTL DEF Spec

\* The bounds of the counters, also of those that notifyEnd() decrements once too
\* often in a simulation that terminates.
LEMMA IInvTypes == IInv => TypeOK
  <1> SUFFICES ASSUME IInv PROVE TypeOK
    OBVIOUS
  <1>1. /\ Cardinality(Procs) \in Nat
        /\ Cardinality(Born) \in 0..Cardinality(Procs) /\ Cardinality(Active) \in 0..Cardinality(Procs)
        /\ Cardinality(FF) \in 0..Cardinality(Procs) /\ Cardinality(Gone) \in 0..Cardinality(Procs)
    BY SetTypes, ProcSets DEF IInv
  <1>2. globalFFProcs \in -Cardinality(Procs)..Cardinality(Procs)
    BY <1>1 DEF IInv, Types, Counts
  <1>3. globalSyncedFFProcs \in -Cardinality(Procs)..Cardinality(Procs)
    <2>1. CASE syncedFF = 0
      BY <1>1, <2>1 DEF IInv, Types, Counts
    <2>2. CASE syncedFF = 1
      BY <1>2, <2>2 DEF IInv, Types, Counts
    <2> QED
      BY <2>1, <2>2, SyncedBit
  <1> QED
    BY <1>1, <1>2, <1>3 DEF IInv, Types, Counts, TypeOK

\* The properties follow from the invariant.
LEMMA IInvSound == IInv => FastForwardSound
  <1> SUFFICES ASSUME IInv PROVE FastForwardSound
    OBVIOUS
  <1>1. TypeOK
    BY IInvTypes
  <1>2. CountersExact
    BY DEF IInv, Counts, CountersExact, Active, FF
  <1>3. SyncedHoldsOthers
    BY DEF IInv, Types, Local, Phase, SyncedHoldsOthers
  <1>4. FFTakesEffect
    BY DEF IInv, Local, Simulates, FFTakesEffect
  <1>5. TerminationAssert
    BY DEF IInv, NotTerminating, TerminationAssert
  <1>6. Proc0IsLast
    BY DEF IInv, Last, Proc0IsLast
  <1> QED
    BY <1>1, <1>2, <1>3, <1>4, <1>5, <1>6 DEF FastForwardSound

\* For any number of processes and every configuration supported: the counters of
\* active and fast-forwarding processes are exact, synced fast-forward holds the
\* others, fast-forward takes effect after the current phase, no phase ends after
\* the termination condition is met, and process 0 is the last to finish.
THEOREM FastForwardIsSound == Spec => []FastForwardSound
  BY InductiveInvariant, IInvSound, PTL

\* FF control threads enter fast-forward only while the thread that ends the phase
\* is blocked in the callback of their event.
THEOREM FastForwardIsEnteredBetweenPhases == Spec => EnteredBetweenPhases
  <1> DEFINE Between == \A p \in Procs :
                 ~inFastForward[p] /\ inFastForward'[p] /\ fft[p] = "wait" /\ fft'[p] = "idle"
                     => eop = "callback" /\ eop' = "callback"
  <1>1. IInv /\ [Next]_vars => [Between]_vars
    <2> SUFFICES ASSUME IInv, Next, NEW p \in Procs, ~inFastForward[p], inFastForward'[p],
                        fft[p] = "wait", fft'[p] = "idle"
                 PROVE  eop = "callback" /\ eop' = "callback"
      OBVIOUS
    <2>1. FFThreadEntersFF(p)
      <3> USE DEF IInv, Types, thVars, cntVars, fftVars
      <3>1. ASSUME NEW q \in Procs, AppNext(q) PROVE FALSE
        BY <3>1 DEF AppNext, Start, FFBasicBlock, FFIBasicBlock, exitFastForward, FFITrackNFFInterval, Join, Sync,
                    TakeBarrier, AppEnds, SimEnd, NotifyEnd
      <3>2. ASSUME NEW q \in Procs, ProgramNext(q) PROVE FALSE
        BY <3>2 DEF ProgramNext, RoiBegin, exitFastForward, RoiEnd, enterFastForward, Exit, AppEnds, SimEnd, Fork
      <3>3. ASSUME NEW q \in Procs, FFThreadNext(q) PROVE FFThreadEntersFF(p)
        BY <3>3 DEF FFThreadNext, FFThreadWakes, FFThreadExitsFF, exitFastForward, FFThreadLocks,
                    FFThreadInserts, FFThreadEntersFF, enterFastForward, FFThreadTimesOut, SimEnd
      <3>4. ASSUME EopNext PROVE FALSE
        BY <3>4 DEF EopNext, PhaseEnds, EndOfPhaseActions, TickDone, NextPhase, TickPanics, FfiFires,
                    enterFastForward, SyncCallback, SyncReturns
      <3>5. ASSUME NEW q \in Procs, StartPanics(q) \/ Toggle(q) \/ chldSigHandler(q) PROVE FALSE
        BY <3>5 DEF StartPanics, Toggle, chldSigHandler
      <3>6. ~Proc0Finishes
        BY DEF Proc0Finishes
      <3> QED
        BY <3>1, <3>2, <3>3, <3>4, <3>5, <3>6 DEF Next
    <2> QED
      BY <2>1 DEF FFThreadEntersFF, eopVars, IInv, Local, Callback
  <1> QED
    BY <1>1, InductiveInvariant, PTL DEF Spec, EnteredBetweenPhases
=============================================================================
