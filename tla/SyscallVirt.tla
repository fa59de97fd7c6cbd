----------------------------- MODULE SyscallVirt -----------------------------
(***************************************************************************)
(* Virtual time (src/src/virt/virt.cpp, time.cpp, timeout.cpp, time_conv.h *)
(* and the system call and vDSO hooks of zsim.cpp).  A simulated program   *)
(* that asks for the time is told the simulated one; one that sleeps, or   *)
(* waits with a timeout, does so in simulated time: a sleep becomes a      *)
(* futex wait that the scheduler ends, and a timed wait is given a short   *)
(* timeout of the host, and is retried while the scheduler has it asleep.  *)
(* Fast-forwarded programs see the host.                                   *)
(*                                                                         *)
(* Every process has one thread.  Of the scheduler (scheduler.h) this has  *)
(* what the patches use: whether a thread runs, sleeps or is blocked.  The *)
(* host is ahead of the simulation by lead nanoseconds, and the longer the *)
(* simulation takes, the more; how much CPU time of the host a process has *)
(* used, is up to the host.                                                *)
(***************************************************************************)
EXTENDS Integers, FiniteSets

CONSTANTS Procs,
          FreqMHz, PhaseLength,     \* of the simulated system
          TimeSetups                \* the programs, with their bounds; see MCHost

\* clock_gettime() has these (the thread's CPU time is faked with the process's);
\* the other two functions tell the real time.
ClockIds == {"realtime", "monotonic", "cputime"}
Clocks == ClockIds \cup {"gettimeofday", "time"}
Sleeps == {"nanosleep", "clock_nanosleep"}          \* the latter until an absolute time
Waits  == {"futex", "futex_realtime", "poll"}       \* the second one too

\* A sleep that a signal interrupts while the process is fast-forwarded, or whose
\* program wants the time that remains, fails assertions: see the README.  So does
\* one that follows another call back to back: that case is a setup of its own.
ASSUME TimeAssumption ==
    /\ FreqMHz \in Nat \ {0} /\ PhaseLength \in Nat \ {0}
    /\ \A s \in TimeSetups :
          /\ s.args \subseteq [kind : Clocks \cup Sleeps \cup Waits, ns : Nat] /\ s.vdso \subseteq Clocks
          /\ s.signals /\ (\E call \in s.args : call.kind \in Sleeps) => s.toggles = 0 /\ ~s.rem

VARIABLES
    prog,       \* the setup: callers: who makes calls; args, vdso: which; rem: whether they
                \* want to know how long they had left to sleep; signals, events: whether
                \* they get any; backToBack: whether they sleep again before they have joined;
                \* bounds: calls, toggles, phases, lead and CPU time of the host
    th,         \* th[p]: the thread of process p
    sim,        \* numPhases, the clock domains' offsets, who is in fast-forward
    read,       \* history: read[p][c]: the last time that p read from clock c
    failed      \* history: the assertions that have failed

timeVars == <<prog, th, sim, read, failed>>

NoCall == [kind |-> "none", ns |-> 0]

\* ptrs: fPtrs; marked: markedForSleep; word: futexWord; from, until: the phases
\* in which it went to sleep and is to be woken (wakeupPhase); fake: inFakeTimeoutMode; post: postPatchFunctions;
\* res: the kernel's answer; asleep: what isSleeping() said; level: of the calls
\* in the vDSO.  done is history: the wait that has come to its end.
NewThread ==
    [ptrs |-> "CORE", state |-> "RUNNING", marked |-> FALSE, word |-> 0, from |-> 0, until |-> 0, fake |-> FALSE,
     pc |-> "app", call |-> NoCall, post |-> "null", res |-> "none", asleep |-> FALSE, level |-> 0,
     done |-> NoCall]

\* The processes have called VirtCaptureClocks(false): their domain's offsets
\* are the times of the host, and all times are counted from then.
TimeInit ==
    /\ prog \in TimeSetups
    /\ th = [p \in Procs |-> NewThread]
    /\ sim = [phase |-> 0, lead |-> 0, offset |-> [c \in ClockIds |-> 0], cpu |-> [p \in Procs |-> 0],
              ff |-> [p \in Procs |-> FALSE], toggles |-> 0, calls |-> 0]
    /\ read = [p \in Procs |-> [c \in Clocks |-> 0]]
    /\ failed = {}

-----------------------------------------------------------------------------
(***************************************************************************)
(* Time.                                                                   *)
(***************************************************************************)

cyclesToNs(c) == (c * 1000) \div FreqMHz
nsToCycles(n) == (n * FreqMHz) \div 1000

SimNs == cyclesToNs(sim.phase * PhaseLength)

HostNs == SimNs + sim.lead

\* The clock that a function reads.
ClockId(c) == IF c \in ClockIds THEN c ELSE "realtime"

\* What the host would tell process p.
HostTime(p, c) == IF ClockId(c) = "cputime" THEN sim.cpu[p] ELSE HostNs

\* What the program is told: ns, us or s, which are 1, 2 and 4 units here.
Resolution(c) == CASE c \in ClockIds -> 1 [] c = "gettimeofday" -> 2 [] c = "time" -> 4

Told(c, ns) == ns \div Resolution(c)

VirtNs(c) == sim.offset[ClockId(c)] + SimNs

BugCaptured(p) == sim.offset                            \* the domain has offsets already

\* VirtCaptureClocks(true), called by process p: the clocks of the whole domain
\* go on from the host's times, and from the CPU time of p.
Captured(p) == [c \in ClockIds |-> HostTime(p, c) - SimNs]

BugSleepPhases(call) ==                                 \* rounded down
    LET ns == IF call.kind = "nanosleep" THEN call.ns
              ELSE IF call.ns >= VirtNs("realtime") THEN call.ns - VirtNs("realtime") ELSE 0
    IN  nsToCycles(ns) \div PhaseLength

\* The sleep that PatchNanosleep() asks for, in phases: at least one.  An absolute
\* time is taken for one of the real time, whatever the clock of the call.
SleepPhases(call) ==
    LET ns == IF call.kind = "nanosleep" THEN call.ns
              ELSE IF call.ns >= VirtNs("realtime") THEN call.ns - VirtNs("realtime") ELSE 0
    IN  nsToCycles(ns) \div PhaseLength + 1

\* The same of PrePatchTimeoutSyscall(): at least two; 0: it does not block.
WaitPhases(call) ==
    LET ns == IF call.kind # "futex_realtime" THEN call.ns
              ELSE IF call.ns > VirtNs("realtime") THEN call.ns - VirtNs("realtime") ELSE 0
        phases == nsToCycles(ns) \div PhaseLength
    IN  IF ns = 0 THEN 0 ELSE IF phases < 2 THEN 2 ELSE phases

-----------------------------------------------------------------------------
(***************************************************************************)
(* Entering a system call.                                                 *)
(***************************************************************************)

Fail(what) == failed' = failed \cup what

Broken(name, holds) == IF holds THEN {} ELSE {name}

\* The thread may make a system call; one that has left fast-forward runs
\* FFBasicBlock() before anything else, while one that has just made a system
\* call may make the next before it has joined.
AtInstruction(p) ==
    /\ th[p].pc = "app"
    /\ th[p].ptrs \in {"CORE", "JOIN"} \/ (th[p].ptrs = "NOP" /\ sim.ff[p])

\* SkipTimeVirt(), SkipTimeoutVirt()
SkipVirt(p) == th[p].ptrs = "NOP" \/ sim.ff[p]

\* A call that is not patched, or only after it: syscallLeave() fakes a leave,
\* unless the thread has left with the call before.
EnterPlain(p, call, post) ==
    /\ th' = [th EXCEPT ![p].pc = "kernel", ![p].call = call, ![p].post = post,
                        ![p].done = NoCall, ![p].ptrs = IF @ = "NOP" THEN @ ELSE "JOIN"]
    /\ UNCHANGED failed

\* The patch of a call that sleeps: markForSleep().
EnterSleep(p, call, post, phases) ==
    /\ th[p].ptrs = "JOIN" => prog.backToBack
    /\ sim.phase + phases <= prog.phases
    /\ Fail(Broken("inFakeTimeoutMode", post = "timeout" => ~th[p].fake)
            \cup Broken("markForSleep", ~th[p].marked))
    /\ th' = [th EXCEPT ![p].pc = "marked", ![p].call = call, ![p].post = post, ![p].done = NoCall,
                        ![p].marked = TRUE, ![p].word = 1, ![p].fake = (post = "timeout"),
                        ![p].from = sim.phase, ![p].until = sim.phase + phases]

\* The rest of SyscallEnter(): leave() puts the thread into the sleep queue,
\* unless it has left with the call before.
LeaveMarked(p) ==
    /\ th[p].pc = "marked"
    /\ \/ /\ th[p].ptrs = "JOIN"
          /\ th' = [th EXCEPT ![p].pc = "kernel"]
          /\ UNCHANGED failed
       \/ /\ th[p].ptrs # "JOIN"
          /\ th' = [th EXCEPT ![p].pc = "kernel", ![p].ptrs = "JOIN",
                              ![p].marked = FALSE, ![p].state = "SLEEPING"]
          /\ Fail(Broken("leave", th[p].state = "RUNNING"))
    /\ UNCHANGED <<prog, sim, read>>

\* SyscallEnter() and the patch of the call.
SyscallEnter(p, call) ==
    /\ AtInstruction(p) /\ p \in prog.callers
    /\ sim.calls < prog.calls
    /\ sim' = [sim EXCEPT !.calls = @ + 1]
    /\ IF SkipVirt(p) THEN EnterPlain(p, call, "null")
       ELSE IF call.kind \in Clocks THEN EnterPlain(p, call, "time")
       ELSE IF call.kind \in Sleeps THEN EnterSleep(p, call, "sleep", SleepPhases(call))
       ELSE IF WaitPhases(call) = 0 THEN EnterPlain(p, call, "null")
       ELSE EnterSleep(p, call, "timeout", WaitPhases(call))
    /\ UNCHANGED <<prog, read>>

\* SyscallEnter() of a thread that has been sent back to its system call.
SyscallRetry(p) ==
    /\ th[p].pc = "app" /\ th[p].ptrs = "RETRY"
    /\ th' = [th EXCEPT ![p].pc = "kernel"]
    /\ UNCHANGED <<prog, sim, read, failed>>

(***************************************************************************)
(* The kernel: a sleep is a FUTEX_WAIT on the thread's word, a timed wait  *)
(* times out after 20 ms of the host, is woken, or is interrupted.         *)
(***************************************************************************)

Answers(p) ==
    CASE th[p].post = "sleep"   -> (IF th[p].word = 0 THEN {"ok"} ELSE {}) \cup (IF prog.signals THEN {"EINTR"} ELSE {})
      [] th[p].post = "timeout" -> {"timeout"} \cup (IF prog.events THEN {"ok"} ELSE {})
                                               \cup (IF prog.signals THEN {"EINTR"} ELSE {})
      [] OTHER -> {"ok"}

\* A clock that is not virtualized is read here.
Kernel(p) ==
    /\ th[p].pc = "kernel"
    /\ \E r \in Answers(p) : th' = [th EXCEPT ![p].pc = "exit", ![p].res = r]
    /\ read' = IF th[p].post = "null" /\ th[p].call.kind \in Clocks
               THEN [read EXCEPT ![p][th[p].call.kind] = Told(th[p].call.kind, HostTime(p, th[p].call.kind))] ELSE read
    /\ UNCHANGED <<prog, sim, failed>>

-----------------------------------------------------------------------------
(***************************************************************************)
(* Leaving it.                                                             *)
(***************************************************************************)

\* The end of SyscallExit(), for the thread's new state t: a thread that would
\* join leaves the simulation if its process is in fast-forward.
Return(p, t, broken) ==
    LET out == t.ptrs = "JOIN" /\ sim.ff[p]
    IN  /\ th' = [th EXCEPT ![p] = IF out THEN [t EXCEPT !.ptrs = "NOP", !.state = "NONE", !.marked = FALSE] ELSE t]
        /\ Fail(broken \cup Broken("finish", out => t.state # "SLEEPING"))
        /\ UNCHANGED <<prog, sim>>

App(p) == [th[p] EXCEPT !.pc = "app", !.call = NoCall, !.post = "null", !.res = "none"]

\* A sleep or a timed wait that has come to its end.
Done(p) == [App(p) EXCEPT !.done = th[p].call]

ExitPlain(p) ==
    /\ th[p].pc = "exit" /\ th[p].post = "null"
    /\ Return(p, App(p), {})
    /\ UNCHANGED read

\* VirtGettimeofday(), VirtTime(), VirtClockGettime()
ExitTime(p) ==
    /\ th[p].pc = "exit" /\ th[p].post = "time"
    /\ read' = [read EXCEPT ![p][th[p].call.kind] = Told(th[p].call.kind, VirtNs(th[p].call.kind))]
    /\ Return(p, App(p), {})

\* The post-patch of PatchNanosleep(); rem is set if the program wants it.
ExitSleep(p) ==
    /\ th[p].pc = "exit" /\ th[p].post = "sleep"
    /\ Return(p, IF th[p].res = "ok" THEN Done(p) ELSE App(p),
              Broken("wakeupPhase", (prog.rem /\ th[p].res = "EINTR") => th[p].until >= sim.phase))
    /\ UNCHANGED read

\* PostPatchTimeoutSyscall(), up to isSleeping().
ExitTimeout(p) ==
    /\ th[p].pc = "exit" /\ th[p].post = "timeout"
    /\ th' = [th EXCEPT ![p].pc = "decide", ![p].asleep = (th[p].state = "SLEEPING")]
    /\ Fail(Broken("inFakeTimeoutMode", th[p].fake))
    /\ UNCHANGED <<prog, sim, read>>

BugNotifySleepEnd(t) == t                               \* left in the sleep queue

\* notifySleepEnd(); a thread woken in the meantime is blocked already.
notifySleepEnd(t) == [t EXCEPT !.state = "BLOCKED"]

Finished(t) == [t EXCEPT !.fake = FALSE, !.asleep = FALSE, !.ptrs = "JOIN"]

\* The host's timeout is not the simulation's: the thread tries again.
Retries(p) == th[p].asleep /\ th[p].res = "timeout"

\* The rest of it: back to the system call, or on in the program.
EndTimeout(p) ==
    /\ th[p].pc = "decide"
    /\ \/ /\ Retries(p) /\ ~sim.ff[p]
          /\ Return(p, [th[p] EXCEPT !.pc = "app", !.ptrs = "RETRY"], {})
       \/ /\ th[p].asleep /\ (Retries(p) => sim.ff[p])
          /\ Return(p, Finished(notifySleepEnd(App(p))),
                    Broken("notifySleepEnd", th[p].state \in {"SLEEPING", "BLOCKED"} /\ ~th[p].marked))
       \/ /\ ~th[p].asleep
          /\ Return(p, Finished(IF th[p].res = "timeout" THEN Done(p) ELSE App(p)), {})
    /\ UNCHANGED read

-----------------------------------------------------------------------------
(***************************************************************************)
(* The vDSO functions, which call one another.                             *)
(***************************************************************************)

VdsoEntryPoint(p, c) ==
    /\ AtInstruction(p) /\ th[p].ptrs # "JOIN" /\ p \in prog.callers
    /\ sim.calls < prog.calls
    /\ sim' = [sim EXCEPT !.calls = @ + 1]
    /\ th' = [th EXCEPT ![p].pc = "vdso", ![p].level = 1, ![p].call = [kind |-> c, ns |-> HostTime(p, c)]]
    /\ UNCHANGED <<prog, read, failed>>

\* A call within the vDSO, to the entry point of a function that is patched.
VdsoCallPoint(p) ==
    /\ th[p].pc = "vdso" /\ th[p].level = 1
    /\ th' = [th EXCEPT ![p].level = @ + 1]
    /\ UNCHANGED <<prog, sim, read, failed>>

\* Only the outermost return is patched; ns is what the function has read.
VdsoRetPoint(p) ==
    /\ th[p].pc = "vdso"
    /\ \/ /\ th[p].level > 1
          /\ th' = [th EXCEPT ![p].level = @ - 1]
          /\ UNCHANGED read
       \/ /\ th[p].level = 1
          /\ th' = [th EXCEPT ![p] = [App(p) EXCEPT !.level = 0]]
          /\ LET c == th[p].call.kind
             IN  read' = [read EXCEPT ![p][c] = Told(c, IF th[p].ptrs = "NOP" THEN th[p].call.ns ELSE VirtNs(c))]
    /\ UNCHANGED <<prog, sim, failed>>

-----------------------------------------------------------------------------
(***************************************************************************)
(* The simulation.                                                         *)
(***************************************************************************)

\* Join() at the next instrumented instruction; a thread that is still asleep
\* is taken from the sleep queue.  One that runs has only faked its leave, which
\* join() ends before it asserts anything.
JoinAssert(t) == t.state = "RUNNING" \/ (~t.marked /\ t.state \in {"SLEEPING", "BLOCKED"})

Join(p) ==
    /\ th[p].pc = "app" /\ th[p].ptrs = "JOIN"
    /\ th' = [th EXCEPT ![p] = [NewThread EXCEPT !.marked = th[p].marked]]
    /\ Fail(Broken("join", JoinAssert(th[p])))
    /\ UNCHANGED <<prog, sim, read>>

\* TakeBarrier() of a process in fast-forward, and FFBasicBlock() of one that
\* no longer is, which takes the thread to Join().
EnterFF(p) ==
    /\ th[p].pc \in {"app", "vdso"} /\ th[p].ptrs = "CORE" /\ sim.ff[p]
    /\ th' = [th EXCEPT ![p].ptrs = "NOP", ![p].state = "NONE", ![p].marked = FALSE]
    /\ UNCHANGED <<prog, sim, read, failed>>

LeaveFF(p) ==
    /\ th[p].pc \in {"app", "vdso"} /\ th[p].ptrs = "NOP" /\ ~sim.ff[p]
    /\ th' = [th EXCEPT ![p].ptrs = "CORE", ![p].state = "RUNNING"]
    /\ UNCHANGED <<prog, sim, read, failed>>

\* Somebody sends the process into fast-forward; the program itself leaves it
\* with a magic operation: ExitFastForward().
EnterFastForward(p) ==
    /\ ~sim.ff[p] /\ sim.toggles < prog.toggles
    /\ sim' = [sim EXCEPT !.ff[p] = TRUE, !.toggles = @ + 1]
    /\ UNCHANGED <<prog, th, read, failed>>

ExitFastForward(p) ==
    /\ sim.ff[p] /\ th[p].pc = "app" /\ th[p].ptrs = "NOP"
    /\ sim' = [sim EXCEPT !.ff[p] = FALSE, !.offset = Captured(p)]
    /\ UNCHANGED <<prog, th, read, failed>>

BugWakeup(t) == [t EXCEPT !.state = "BLOCKED"]          \* the futex word is left armed

\* wakeup() of a thread whose sleep is over.
wakeup(t) == [t EXCEPT !.state = "BLOCKED", !.word = 0]

Due(t, phase) == t.state = "SLEEPING" /\ t.until <= phase

\* A thread between the two steps of its system call, in which the phase cannot
\* end, as it has a context.
Entering(t) == t.pc = "marked" /\ t.ptrs = "CORE"

\* The end of a phase: the threads that have a context sync(), and callback()
\* wakes the threads whose time has come.
EndPhase ==
    /\ sim.phase < prog.phases
    /\ \A p \in Procs : ~Entering(th[p])
    /\ sim' = [sim EXCEPT !.phase = @ + 1]
    /\ th' = [p \in Procs |-> IF Due(th[p], sim.phase + 1)
                              THEN wakeup(th[p]) ELSE th[p]]
    /\ Fail(UNION {Broken("sync", th[p].ptrs = "CORE" => ~th[p].marked) : p \in Procs}
            \cup UNION {Broken("wakeup", th[p].word = 1 /\ th[p].until = sim.phase + 1) :
                            p \in {q \in Procs : Due(th[q], sim.phase + 1)}})
    /\ UNCHANGED <<prog, read>>

HostTick ==
    /\ sim.lead < prog.lead
    /\ sim' = [sim EXCEPT !.lead = @ + 1]
    /\ UNCHANGED <<prog, th, read, failed>>

CpuTick(p) ==
    /\ sim.cpu[p] < prog.cpu
    /\ sim' = [sim EXCEPT !.cpu[p] = @ + 1]
    /\ UNCHANGED <<prog, th, read, failed>>

TimeStep(p) ==
    \/ LeaveMarked(p) \/ Kernel(p) \/ ExitPlain(p) \/ ExitTime(p) \/ ExitSleep(p)
    \/ ExitTimeout(p) \/ EndTimeout(p) \/ SyscallRetry(p) \/ Join(p)

TimeNext ==
    \/ \E p \in Procs : \/ \E call \in prog.args : SyscallEnter(p, call)
                        \/ TimeStep(p)
                        \/ \E c \in prog.vdso : VdsoEntryPoint(p, c)
                        \/ VdsoCallPoint(p) \/ VdsoRetPoint(p)
                        \/ EnterFF(p) \/ LeaveFF(p) \/ EnterFastForward(p) \/ ExitFastForward(p)
                        \/ CpuTick(p)
    \/ EndPhase \/ HostTick

TimeSpec == TimeInit /\ [][TimeNext]_timeVars

-----------------------------------------------------------------------------
(***************************************************************************)
(* Properties.                                                             *)
(***************************************************************************)

\* No assertion of the patches, of markForSleep(), leave(), sync(), wakeup(),
\* notifySleepEnd(), join() or finish() fails, in whatever order the kernel, the
\* end of the phase, fast-forwarding and calls made back to back come.
PatchAsserts == failed = {}

\* A sleep that nobody interrupted took at least the time asked for, as the
\* program's own clock shows it, and a wait that timed out at most a phase
\* less (the division rounds down; with an absolute time, it does so in three
\* conversions), however often the host timed it out before.  Nobody sleeps past
\* the phase that was computed for it.
WaitsExact ==
    \A p \in Procs :
        LET t == th[p]
            slept == cyclesToNs((sim.phase - t.from) * PhaseLength)
        IN  /\ t.state = "SLEEPING" => sim.phase < t.until
            /\ t.done.kind = "nanosleep" => slept >= t.done.ns
            /\ t.done.kind = "clock_nanosleep" => VirtNs("realtime") >= t.done.ns
            /\ t.done.kind \in {"futex", "poll"} =>
                  (sim.phase - t.from + 1) * PhaseLength > nsToCycles(t.done.ns)
            /\ t.done.kind = "futex_realtime" => VirtNs("realtime") + cyclesToNs(PhaseLength) + 1 >= t.done.ns

WallClocks == Clocks \ {"cputime"}

\* The real or monotonic time that a program reads never goes back, by system
\* call or vDSO, and also not when it goes through fast-forward, or another
\* process of the same clock domain does, if the simulation is slower than the
\* host.  (Its CPU time may: the domain has that of the process which captured it.)
TimeNeverGoesBack == [][\A p \in Procs, c \in WallClocks : read'[p][c] >= read[p][c]]_timeVars

\* Every sleep and timed wait ends.
WaitsEnd == \A p \in Procs : th[p].state = "SLEEPING" ~> th[p].pc = "app" /\ th[p].ptrs # "RETRY"

==============================================================================
