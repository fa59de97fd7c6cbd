------------------------------ MODULE Scheduler ------------------------------
(***************************************************************************)
(* The round-robin scheduler of simulated threads on simulated contexts    *)
(* (src/src/scheduler.h, scheduler.cpp) on top of the phase barrier, with  *)
(* the calls that the instrumented threads (zsim.cpp, virt/) and the       *)
(* watchdog make of it.                                                    *)
(*                                                                         *)
(* What schedLock protects is one record, sched; a critical section is one *)
(* action, and what a thread does between two critical sections (waiting   *)
(* on a futex, running application code, being in the kernel) is its pc.   *)
(* An assert of the code is a guard: an execution that fails it aborts.    *)
(* The invariants state that the asserts hold.                             *)
(***************************************************************************)
EXTENDS SchedulerParams, SequencesExt

VARIABLES
    sched,              \* the Scheduler object: see SchedType
    blockingSyscalls,   \* the blacklist of syscall pcs that do a real leave()
    pc,                 \* where each thread is: see ThreadPcs
    unfaked,            \* the thread the watchdog is about to call leave() for
    state, futexWord, lastIdx, runList, runListSize, curThreadIdx,
    runningThreads, leftThreads, phaseCount, synced       \* of the barrier

bar == INSTANCE Barrier WITH Tids <- Contexts

barVars == <<state, futexWord, lastIdx, runList, runListSize, curThreadIdx,
             runningThreads, leftThreads, phaseCount, synced>>
vars == <<sched, blockingSyscalls, pc, unfaked, barVars>>

ThreadStates == {"NONE", "STARTED", "RUNNING", "OUT", "BLOCKED", "SLEEPING", "QUEUED"}

\* "none": not simulated;  "app": executes application code on a context;
\* "marked": between markForSleep() and syscallLeave();  "out": left for a
\* syscall, really or not, up to its join();  "join", "sync": in bar.join() or
\* bar.sync();  "ctx": in waitForContext();  "fini": between the leave() and
\* the rest of finish().
ThreadPcs == {"none", "app", "marked", "out", "join", "sync", "ctx", "fini"}

Init ==
    /\ bar!Init
    /\ sched = [ thState    |-> [t \in Threads |-> "NONE"],
                 cid        |-> [t \in Threads |-> 0],
                 handoff    |-> [t \in Threads |-> NoThread],
                 futex      |-> [t \in Threads |-> 0],
                 wakeIn     |-> [t \in Threads |-> 0],          \* wakeupPhase - curPhase
                 curThread  |-> [c \in Contexts |-> NoThread],  \* NoThread: the context is IDLE
                 freeList   |-> [i \in 1..numCores |-> i - 1],
                 runQueue   |-> << >>,
                 outQueue   |-> << >>,
                 sleepQueue |-> << >>,
                 fakeLeaves |-> << >>,                          \* of <<thread, pc>>
                 curPhase   |-> 0 ]                             \* modulo schedQuantum
    /\ blockingSyscalls = {}
    /\ pc = [t \in Threads |-> "none"]
    /\ unfaked = NoThread

-----------------------------------------------------------------------------
(***************************************************************************)
(* The scheduler's private functions, on values s of sched.                *)
(***************************************************************************)

schedule(s, t, c) ==
    [s EXCEPT !.thState[t] = "RUNNING", !.cid[t] = c, !.curThread[c] = t]

deschedule(s, t, target) ==
    [s EXCEPT !.thState[t] = target, !.curThread[s.cid[t]] = NoThread]

\* wakeup() after its compare-and-swap; needsJoin is false in every call.
wakeup(s, t) == [s EXCEPT !.futex[t] = 0]

\* The first element of q that is in S, in a set: empty if there is none.
FirstIn(q, S) ==
    LET found == {i \in DOMAIN q : q[i] \in S}
    IN  {q[i] : i \in {i \in found : \A j \in found : i <= j}}

\* The queue q, in which nothing occurs twice, after the removal of what is in S.
KeepsOrder(r, q) ==
    \A i, j \in DOMAIN r : i < j => \E k, l \in DOMAIN q : k < l /\ r[i] = q[k] /\ r[j] = q[l]

Without(q, S) == CHOOSE r \in SetToSeqs(ToSet(q) \ S) : KeepsOrder(r, q)

\* schedThread(): the last context used, else a free one, else that of a
\* thread that is OUT, as a set of at most one context.
ContextFor(s, t) ==
    LET free == FirstIn(s.freeList, mask[t])
        out  == FirstIn(s.outQueue, {o \in Threads : s.cid[o] \in mask[t]})
    IN  IF s.curThread[s.cid[t]] = NoThread /\ s.cid[t] \in mask[t] THEN {s.cid[t]}
        ELSE IF free # {} THEN free
        ELSE {s.cid[o] : o \in out}

TakeContext(s, c) ==
    LET o == s.curThread[c]
    IN  IF o = NoThread
        THEN [s EXCEPT !.freeList = Without(@, {c})]
        ELSE deschedule([s EXCEPT !.outQueue = Without(@, {o})], o, "BLOCKED")

\* schedContext(): the first queued thread that may run on c, as a set.
ThreadFor(s, c) == FirstIn(s.runQueue, {t \in Threads : c \in mask[t]})

GiveContext(s, t, c) ==
    wakeup(schedule([s EXCEPT !.runQueue = Without(@, {t})], t, c), t)

\* The ordered insert into sleepQueue, after the threads of the same deadline.
InsertSleeper(s, t) ==
    LET q == s.sleepQueue
        n == CHOOSE n \in 0..Len(q) :
               /\ \A i \in 1..n : s.wakeIn[q[i]] <= s.wakeIn[t]
               /\ n < Len(q) => s.wakeIn[q[n + 1]] > s.wakeIn[t]
    IN  [s EXCEPT !.sleepQueue = InsertAt(@, n + 1, t)]

\* callback()'s accounting and its loop over the sleepers that are due.
WakeSleepers(s) ==
    LET q   == s.sleepQueue
        due == {q[i] : i \in {i \in DOMAIN q : \A j \in 1..i : s.wakeIn[q[j]] <= 1}}
    IN  [s EXCEPT
            !.curPhase = (@ + 1) % schedQuantum,
            !.wakeIn = [t \in Threads |-> IF @[t] > 0 THEN @[t] - 1 ELSE 0],
            !.thState = [t \in Threads |-> IF t \in due THEN "BLOCKED" ELSE @[t]],
            !.futex = [t \in Threads |-> IF t \in due THEN 0 ELSE @[t]],
            !.sleepQueue = Without(@, due)]

\* What schedTick()'s loop over the queued threads may come to, for some order
\* of the shuffled contexts: h[c] is the thread that is promised context c.  A
\* thread takes any context that it may run on and nobody before it took, and
\* goes without only if there is none.
Promises(s) ==
    LET q == s.runQueue
    IN  {h \in [Contexts -> ToSet(q) \cup {NoThread}] :
           /\ \A c \in Contexts : h[c] # NoThread => c \in mask[h[c]]
           /\ \A c, d \in Contexts : h[c] = h[d] /\ c # d => h[c] = NoThread
           /\ \A k \in DOMAIN q :
                \/ \E c \in Contexts : h[c] = q[k]
                \/ \A c \in mask[q[k]] : \E j \in 1..(k - 1) : h[c] = q[j]}

Victims(s, h) == [t \in Threads |-> IF s.curThread[s.cid[t]] = t /\ h[s.cid[t]] # NoThread
                                    THEN h[s.cid[t]] ELSE s.handoff[t]]

BugHandOff(s, h) == [s EXCEPT !.handoff = Victims(s, h)]  \* the promised stay queued

HandOff(s, h) ==
    [s EXCEPT !.handoff = Victims(s, h), !.runQueue = Without(@, Range(h))]

\* schedTick(), as the set of its results.
schedTick(s) == {HandOff(s, h) : h \in Promises(s)}

BugQuantumOver(s) == FALSE
QuantumOver(s) == s.curPhase = 0

\* callback(), at the end of a phase, as the set of its results.
callback(s) ==
    LET woken == WakeSleepers(s)
    IN  IF QuantumOver(woken) THEN schedTick(woken) ELSE {woken}

-----------------------------------------------------------------------------
(***************************************************************************)
(* Steps of the barrier, within a critical section that has made sched s.  *)
(***************************************************************************)

\* sched is s, after the callback if the barrier ends the phase in this step.
Settle(s) ==
    IF phaseCount' = phaseCount
    THEN sched' = s
    ELSE sched' \in callback(s)

barJoin(s, c) == bar!Join(c) /\ Settle(s)

barLeave(s, c) == bar!Leave(c) /\ Settle(s)

\* leave() of a thread that goes to sleep: it loses its context at once, to a
\* queued thread if one may run there.
LeaveToSleep(s, t) ==
    LET c    == s.cid[t]
        left == InsertSleeper(deschedule(s, t, "SLEEPING"), t)
        next == ThreadFor(s, c)
    IN  \/ \E in \in next :
             /\ sched' = GiveContext(left, in, c)
             /\ UNCHANGED barVars
        \/ /\ next = {}
           /\ barLeave([left EXCEPT !.freeList = Append(@, c)], c)

\* leave() otherwise, when a queued thread wants the context of t ...
Replaced(s, t) ==
    \E in \in ThreadFor(s, s.cid[t]) :
        /\ sched' = GiveContext(deschedule(s, t, "BLOCKED"), in, s.cid[t])
        /\ UNCHANGED barVars

\* ... and when nobody does: t keeps it, in the outQueue.
GoneOut(s, t) == [s EXCEPT !.thState[t] = "OUT", !.outQueue = Append(@, t)]

LeaveForSyscall(s, t) ==
    \/ Replaced(s, t)
    \/ ThreadFor(s, s.cid[t]) = {} /\ barLeave(GoneOut(s, t), s.cid[t])

\* t takes context c, as the end of schedThread(), schedule() and bar.join().
RunOn(s, t, c) ==
    /\ barJoin(schedule(TakeContext(s, c), t, c), c)
    /\ pc' = [pc EXCEPT ![t] = "join"]

\* t is queued, and waits in waitForContext().
WaitInQueue(s, t) ==
    /\ sched' = [s EXCEPT !.thState[t] = "QUEUED", !.futex[t] = 1,
                          !.runQueue = Append(@, t)]
    /\ pc' = [pc EXCEPT ![t] = "ctx"]
    /\ UNCHANGED barVars

FakeLeft(s) == {s.fakeLeaves[i][1] : i \in DOMAIN s.fakeLeaves}

finishFakeLeave(s, t) ==
    [s EXCEPT !.fakeLeaves = Without(@, {t} \X Pcs)]

-----------------------------------------------------------------------------
(***************************************************************************)
(* The threads.                                                            *)
(***************************************************************************)

Start(t) ==
    /\ pc[t] = "none"
    /\ pc' = [pc EXCEPT ![t] = "out"]
    /\ sched' = [sched EXCEPT !.thState[t] = "STARTED", !.cid[t] = 0,
                              !.handoff[t] = NoThread, !.futex[t] = 0, !.wakeIn[t] = 0]
    /\ UNCHANGED <<blockingSyscalls, unfaked, barVars>>

\* join() after a leave that was only recorded.
JoinFake(t) ==
    /\ pc[t] = "out"
    /\ t \in FakeLeft(sched)
    /\ sched' = finishFakeLeave(sched, t)
    /\ pc' = [pc EXCEPT ![t] = "app"]
    /\ UNCHANGED <<blockingSyscalls, unfaked, barVars>>

\* join() while the context is still ours.
JoinOut(t) ==
    /\ pc[t] = "out"
    /\ sched.thState[t] = "OUT"
    /\ barJoin([sched EXCEPT !.thState[t] = "RUNNING", !.outQueue = Without(@, {t})], sched.cid[t])
    /\ pc' = [pc EXCEPT ![t] = "join"]
    /\ UNCHANGED <<blockingSyscalls, unfaked>>

\* join() without a context; a sleep that a signal ended early is ended here.
JoinNew(t) ==
    LET s == [sched EXCEPT !.sleepQueue = Without(@, {t}), !.wakeIn[t] = 0,
                           !.thState[t] = IF @ = "SLEEPING" THEN "BLOCKED" ELSE @]
    IN  /\ pc[t] = "out"
        /\ s.thState[t] \in {"BLOCKED", "STARTED"}
        /\ \/ \E c \in ContextFor(s, t) : RunOn(s, t, c)
           \/ ContextFor(s, t) = {} /\ WaitInQueue(s, t)
        /\ UNCHANGED <<blockingSyscalls, unfaked>>

\* The end of bar.join(): the barrier has let the context run.
JoinDone(t) ==
    /\ pc[t] = "join"
    /\ state[sched.cid[t]] = "RUNNING"
    /\ pc' = [pc EXCEPT ![t] = "app"]
    /\ UNCHANGED <<sched, blockingSyscalls, unfaked, barVars>>

\* The end of waitForContext(): whoever woke us gave us a context that runs.
WaitDone(t) ==
    /\ pc[t] = "ctx"
    /\ sched.futex[t] = 0
    /\ pc' = [pc EXCEPT ![t] = "app"]
    /\ UNCHANGED <<sched, blockingSyscalls, unfaked, barVars>>

\* sync(), up to the wait in bar.sync().
Sync(t) ==
    /\ pc[t] = "app"
    /\ bar!Sync(sched.cid[t])
    /\ Settle(sched)
    /\ pc' = [pc EXCEPT ![t] = "sync"]
    /\ UNCHANGED <<blockingSyscalls, unfaked>>

\* sync() after the wait, if our context has not been promised to anybody.
SyncDone(t) ==
    /\ pc[t] = "sync"
    /\ state[sched.cid[t]] = "RUNNING"
    /\ sched.handoff[t] = NoThread
    /\ pc' = [pc EXCEPT ![t] = "app"]
    /\ UNCHANGED <<sched, blockingSyscalls, unfaked, barVars>>

\* sync() after the wait, if it has: hand it over, and find another one.
SyncHandsOff(t) ==
    LET c   == sched.cid[t]
        dst == sched.handoff[t]
        s   == wakeup(schedule(deschedule([sched EXCEPT !.handoff[t] = NoThread], t, "QUEUED"),
                               dst, c), dst)
    IN  /\ pc[t] = "sync"
        /\ state[c] = "RUNNING"
        /\ dst # NoThread
        /\ \/ \E d \in ContextFor(s, t) : RunOn(s, t, d)
           \/ ContextFor(s, t) = {} /\ WaitInQueue(s, t)
        /\ UNCHANGED <<blockingSyscalls, unfaked>>

\* A patched sleep or timed wait, before its syscall: n phases, at least 1.
markForSleep(t, n) ==
    /\ pc[t] = "app"
    /\ sched' = [sched EXCEPT !.wakeIn[t] = n, !.futex[t] = 1]
    /\ pc' = [pc EXCEPT ![t] = "marked"]
    /\ UNCHANGED <<blockingSyscalls, unfaked, barVars>>

\* syscallLeave(): a real leave() if we are marked for sleep ...
SyscallSleeps(t) ==
    /\ pc[t] = "marked"
    /\ LeaveToSleep(sched, t)
    /\ pc' = [pc EXCEPT ![t] = "out"]
    /\ UNCHANGED <<blockingSyscalls, unfaked>>

\* ... or if this syscall has stalled the simulation before ...
SyscallLeaves(t) ==
    /\ pc[t] = "app"
    /\ blockingSyscalls # {}
    /\ LeaveForSyscall(sched, t)
    /\ pc' = [pc EXCEPT ![t] = "out"]
    /\ UNCHANGED <<blockingSyscalls, unfaked>>

\* ... and otherwise it is only recorded.
SyscallFakesLeave(t) ==
    /\ pc[t] = "app"
    /\ \E p \in Pcs \ blockingSyscalls :
         sched' = [sched EXCEPT !.fakeLeaves = Append(@, <<t, p>>)]
    /\ pc' = [pc EXCEPT ![t] = "out"]
    /\ UNCHANGED <<blockingSyscalls, unfaked, barVars>>

\* The patched syscall ended before its deadline.
notifySleepEnd(t) ==
    /\ pc[t] = "out"
    /\ sched.thState[t] = "SLEEPING"
    /\ sched' = [sched EXCEPT !.sleepQueue = Without(@, {t}), !.thState[t] = "BLOCKED",
                              !.wakeIn[t] = 0]
    /\ UNCHANGED <<blockingSyscalls, pc, unfaked, barVars>>

\* TakeBarrier() when the process enters fast-forward: leave(), then finish().
LeaveForGood(t) ==
    /\ pc[t] = "app"
    /\ LeaveForSyscall(sched, t)
    /\ pc' = [pc EXCEPT ![t] = "fini"]
    /\ UNCHANGED <<blockingSyscalls, unfaked>>

\* finish() in a fake leave (the exit syscall) does the suppressed leave() first.
FinishFake(t) ==
    /\ pc[t] = "out"
    /\ t \in FakeLeft(sched)
    /\ LeaveForSyscall(finishFakeLeave(sched, t), t)
    /\ pc' = [pc EXCEPT ![t] = "fini"]
    /\ UNCHANGED <<blockingSyscalls, unfaked>>

\* The rest of finish().  (It also removes a QUEUED thread from the run queue,
\* which only a killed process leaves there.)
finish(s, t) ==
    IF s.thState[t] = "OUT"
    THEN [deschedule([s EXCEPT !.outQueue = Without(@, {t}),
                               !.freeList = Append(@, s.cid[t])], t, "NONE") EXCEPT !.cid[t] = 0]
    ELSE [s EXCEPT !.thState[t] = "NONE", !.cid[t] = 0]

Finish(t) ==
    /\ pc[t] \in {"out", "fini"}
    /\ sched.thState[t] \in {"STARTED", "OUT", "BLOCKED"}
    /\ sched' = finish(sched, t)
    /\ pc' = [pc EXCEPT ![t] = "none"]
    /\ UNCHANGED <<blockingSyscalls, unfaked, barVars>>

-----------------------------------------------------------------------------
(***************************************************************************)
(* The watchdog.                                                           *)
(***************************************************************************)

\* A fake leave seems to stall the phase: end the oldest one, and blacklist
\* its syscall if it is the only one.  schedLock is released before leave().
WatchdogUnfakes ==
    /\ unfaked = NoThread
    /\ sched.fakeLeaves # << >>
    /\ LET f == Head(sched.fakeLeaves)
       IN  /\ unfaked' = f[1]
           /\ sched' = finishFakeLeave(sched, f[1])
           /\ blockingSyscalls' = blockingSyscalls \cup
                                    (IF Len(sched.fakeLeaves) = 1 THEN {f[2]} ELSE {})
    /\ UNCHANGED <<pc, barVars>>

WatchdogLeaves ==
    /\ unfaked # NoThread
    /\ sched.thState[unfaked] = "RUNNING"
    /\ LeaveForSyscall(sched, unfaked)
    /\ unfaked' = NoThread
    /\ UNCHANGED <<blockingSyscalls, pc>>

BugWatchdogAdvances ==                 \* only if no context is in use at all
    /\ unfaked = NoThread
    /\ \A c \in Contexts : sched.curThread[c] = NoThread
    /\ sched.sleepQueue # << >>
    /\ sched' \in callback(sched)
    /\ UNCHANGED <<blockingSyscalls, pc, unfaked, barVars>>

\* Nobody is running and somebody sleeps: drive time forward.  The loop holds
\* schedLock, but gives way after any callback to the threads that want it.
WatchdogAdvances ==
    /\ unfaked = NoThread
    /\ \A c \in Contexts : sched.curThread[c] # NoThread
                              => sched.thState[sched.curThread[c]] = "OUT"
    /\ sched.sleepQueue # << >>
    /\ sched' \in callback(sched)
    /\ UNCHANGED <<blockingSyscalls, pc, unfaked, barVars>>

-----------------------------------------------------------------------------
Thread(t) ==
    \/ Start(t) \/ Finish(t) \/ FinishFake(t)
    \/ JoinFake(t) \/ JoinOut(t) \/ JoinNew(t) \/ JoinDone(t) \/ WaitDone(t)
    \/ Sync(t) \/ SyncDone(t) \/ SyncHandsOff(t)
    \/ \E n \in 1..MaxSleep : markForSleep(t, n)
    \/ SyscallSleeps(t) \/ SyscallLeaves(t) \/ SyscallFakesLeave(t)
    \/ notifySleepEnd(t) \/ LeaveForGood(t)

Watchdog == WatchdogUnfakes \/ WatchdogLeaves \/ WatchdogAdvances

Next == Watchdog \/ \E t \in Threads : Thread(t)

Spec == Init /\ [][Next]_vars

\* A thread proceeds unless it is in the kernel, which may keep it for ever;
\* it comes to the end of its phase if it runs again and again (the
\* instructions between two syscalls advance its core's cycle), and the
\* watchdog wakes up periodically.
Fairness ==
    /\ \A t \in Threads :
         /\ WF_vars(JoinDone(t) \/ WaitDone(t) \/ SyncDone(t) \/ SyncHandsOff(t))
         /\ WF_vars(SyscallSleeps(t))
         /\ WF_vars(pc[t] = "fini" /\ Finish(t))
         /\ SF_vars(Sync(t))
    /\ WF_vars(WatchdogUnfakes) /\ WF_vars(WatchdogLeaves) /\ WF_vars(WatchdogAdvances)

FairSpec == Spec /\ Fairness

-----------------------------------------------------------------------------
(***************************************************************************)
(* Properties.                                                             *)
(***************************************************************************)

ThreadsIn(ss) == {t \in Threads : sched.thState[t] \in ss}

\* Every field has its type.
TypeOK ==
    /\ sched.thState \in [Threads -> ThreadStates]
    /\ sched.cid \in [Threads -> Contexts]
    /\ sched.handoff \in [Threads -> Threads \cup {NoThread}]
    /\ sched.futex \in [Threads -> {0, 1}]
    /\ sched.wakeIn \in [Threads -> 0..MaxSleep]
    /\ sched.curThread \in [Contexts -> Threads \cup {NoThread}]
    /\ sched.freeList \in Seq(Contexts)
    /\ \A q \in {sched.runQueue, sched.outQueue, sched.sleepQueue} : q \in Seq(Threads)
    /\ sched.fakeLeaves \in Seq(Threads \X Pcs)
    /\ sched.curPhase \in 0..(schedQuantum - 1)
    /\ blockingSyscalls \subseteq Pcs
    /\ pc \in [Threads -> ThreadPcs]
    /\ unfaked \in Threads \cup {NoThread}

\* A context is used by exactly the thread that is RUNNING or OUT on it
\* (the asserts of schedule() and deschedule(), and printState()'s panic), and
\* its mask allows the context, whichever way it got it.
ContextsMatch ==
    \A t \in Threads, c \in Contexts :
        /\ sched.curThread[c] = t <=> t \in ThreadsIn({"RUNNING", "OUT"}) /\ sched.cid[t] = c
        /\ sched.curThread[c] = t => c \in mask[t]

\* The queues hold what their comments say, each element once; a QUEUED thread
\* is in the run queue or promised the context of exactly one other thread.
\* finish() relies on it: "noone holds pointer to th". Whoever is queued or
\* sleeps has its futex word armed, so that wakeup() finds it (no
\* "Wakeup race in barrier?").
QueuesExact ==
    LET Holds(q, S) == IsInjective(q) /\ ToSet(q) = S
        promised    == {sched.handoff[t] : t \in Threads} \ {NoThread}
    IN  /\ Holds(sched.freeList, {c \in Contexts : sched.curThread[c] = NoThread})
        /\ Holds(sched.outQueue, ThreadsIn({"OUT"}))
        /\ Holds(sched.sleepQueue, ThreadsIn({"SLEEPING"}))
        /\ Holds(sched.runQueue, ThreadsIn({"QUEUED"}) \ promised)
        /\ promised \subseteq ThreadsIn({"QUEUED"})
        /\ \A t, u \in Threads : sched.handoff[t] = sched.handoff[u] /\ t # u
                                    => sched.handoff[t] = NoThread
        /\ \A t \in ThreadsIn({"QUEUED", "SLEEPING"}) : sched.futex[t] = 1

\* A thread is never left in the run queue while a context it may run on is
\* idle or retained by a thread that is OUT ("we will never match anything in
\* the freeList"; otherwise schedTick()'s assert(victimTh) could fail).
QueuedHasNoContext ==
    \A t \in ToSet(sched.runQueue) : \A c \in mask[t] :
        sched.curThread[c] \in ThreadsIn({"RUNNING"})

\* The barrier takes part in the simulation for exactly the contexts whose
\* thread is RUNNING, and a thread that executes, or is in a fake leave, is on
\* a context that the barrier lets run (bar.join()'s and bar.sync()'s asserts).
BarrierAgrees ==
    LET executing == {t \in Threads : \/ pc[t] \in {"app", "marked"}
                                      \/ pc[t] = "out" /\ t \in FakeLeft(sched)
                                      \/ pc[t] = "ctx" /\ sched.futex[t] = 0}
    IN
    /\ \A c \in Contexts : state[c] \in {"WAITING", "RUNNING"}
                              <=> sched.curThread[c] \in ThreadsIn({"RUNNING"})
    /\ \A t \in executing :
         sched.thState[t] = "RUNNING" /\ state[sched.cid[t]] = "RUNNING"

\* The sleep queue is ordered by deadline and no deadline is in the past, so
\* that callback() wakes each sleeper exactly on time (its assert).
SleepersOnTime ==
    LET q == sched.sleepQueue
    IN  /\ \A i, j \in DOMAIN q : i < j => sched.wakeIn[q[i]] <= sched.wakeIn[q[j]]
        /\ \A i \in DOMAIN q : sched.wakeIn[q[i]] > 0

\* A promised context is handed over at the end of the very sync() in which it
\* was promised: no thread leaves, blocks or finishes with a promise pending.
PromisesKept ==
    \A t \in Threads : sched.handoff[t] # NoThread
                          => pc[t] = "sync" /\ sched.thState[t] = "RUNNING"

\* Whatever threads, watchdog and end of phase do in between, the scheduler's
\* queues, contexts, promises and deadlines agree with one another and with the
\* barrier.
SchedulerSound ==
    /\ TypeOK /\ ContextsMatch /\ QueuesExact /\ QueuedHasNoContext
    /\ BarrierAgrees /\ SleepersOnTime /\ PromisesKept

\* Every thread in the run queue, or promised a context, eventually runs.
QueuedRuns == \A t \in Threads : sched.thState[t] = "QUEUED" ~> sched.thState[t] = "RUNNING"

\* Every sleep ends, if need be because the watchdog drives time forward.
SleepersWake == \A t \in Threads : sched.thState[t] = "SLEEPING" ~> sched.thState[t] # "SLEEPING"

=============================================================================
