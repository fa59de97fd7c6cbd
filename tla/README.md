# A TLA+ model of FTM / zsim

This directory specifies and verifies the concurrent core of the simulator under
`src/`: zsim (a user-level x86 multicore simulator built on Pin) with the FTM
extensions (first-time-miss accounting, skewed and CEASER last-level caches).
Every definition is written from the source; `PROJECT.json` maps each one to the
lines it stands for. Paths below are relative to `src/src/`.

## 1. The system

zsim runs real programs under Pin. A program thread is simulated while it holds a
*context* (a simulated core); simulated time advances in *phases*. In the *bound*
part of a phase each thread runs against the cache hierarchy until its core's cycle
count reaches the end of the phase, then waits in a barrier. Whoever ends the phase
runs the end-of-phase actions (events, the *weave* part that simulates contention,
termination checks), increments `numPhases`, and lets everybody go on. Several
processes share one simulation through a shared heap (`GlobSimInfo`, `zsim.h`).

| Component | State | Operations | Hard part |
|---|---|---|---|
| Barrier (`barrier.h`) | run list, per-context state, `lastIdx`, futex word, counters | join, leave, sync | same-phase rejoin, cleanup, shuffle, at most `parallelThreads` running |
| Scheduler (`scheduler.h/.cpp`) | contexts, free/run/out/sleep queues, fake leaves, hand-offs | start, join, leave, syscallLeave, sync, sleep, finish; callback and schedTick at the end of a phase | three kinds of waiting, deferred hand-offs, lock released in the middle |
| Watchdog (`scheduler.cpp`) | blacklist of syscalls | ends fake leaves, drives time when everyone sleeps | races with the thread it acts for |
| Futex matching (`scheduler.cpp`, `virt/timeout.cpp`) | two shared counters, per-thread record | wake start/end, wait woken, the two joins | counters shared by all futexes, failing wakes, timeout |
| Hierarchy (`coherence_ctrls.*`, `cache.*`) | MESI state per line, directory (sharers) per line, owners (FTM) | access, eviction, invalidation, downgrade, refresh | locks released between levels, invalidations meeting requests |
| Process tree, fast-forward (`process_tree.*`, `zsim.cpp`, `event_queue.h`, `fftoggle.cpp`, `zsim_harness.cpp`) | per-process flag, four global counters, event queue | start, fork, exit, restart, magic ops, FFI, toggles, termination | two locks in two orders, callbacks that wait for other threads |
| Weave phase (`contention_sim.*`, `timing_event.*`, `prio_queue.h`, recorders, `timing_cache.*`) | per-domain event queues, graph of events, crossings, MSHRs | record accesses in the bound part, simulate their events in parallel threads | clocks of domains read without locks, lifetimes of events |
| Arrays, replacement, partitioning (`cache_arrays.*`, `repl_policies.h`, `part_repl_policies.h`, `lookahead.cpp`, ...) | tags, ranks, partitions, monitors | lookup, preinsert, postinsert, refresh, tick | zcache walks, half-moved CEASER sets, bookkeeping of sizes |
| Cores and decoder (`*_core.*`, `decoder.cpp`) | clocks, pipeline, records of accesses | bbl, load, store, branch, phase end, context switch | work that is done one block later; rings and windows |
| Memory (`ddr_mem.*`, `detailed_mem.*`) | queues, banks, ranks, buses, alarms | enqueue, tick, refresh | commands placed after the fact |
| Virtualization (`virt/*`, hooks of `zsim.cpp`) | clock offsets, patched calls, port maps | syscall enter/exit, vDSO, bind, connect | retries against ends of phases, fast-forward, signals |
| Shared libraries (`filter_cache.h`, `zsim.cpp`) | copies of process maps, library table | mmap, mprotect, end of phase, access | copies that are stale |

How they interact: instrumentation (`zsim.cpp`) calls the scheduler at syscalls and
phase ends; the scheduler calls the barrier under one lock (`schedLock`) and is
called back by it when a phase ends; the callback runs `EndOfPhaseActions()`, which
ticks the event queue and runs the weave phase; cores call the L1s, which call their
parents; invalidations go the other way. What makes each part correct is listed with
the runs in section 4.

## 2. Modules

| Module | Models | Composes |
|---|---|---|
| `BarrierParams`, `CacheTopology`, `SchedulerParams` | the constants of the next modules, with their assumptions | |
| `Barrier` | `barrier.h` | extends `BarrierParams` |
| `BarrierProofs` | theorems about `Barrier` | extends `Barrier` |
| `Scheduler` | `scheduler.h/.cpp` and its callers | extends `SchedulerParams`; `INSTANCE Barrier` with contexts as participants |
| `SchedulerProofs` | theorem about `Scheduler` | extends `Scheduler`; `INSTANCE BarrierProofs` |
| `FutexMatch` | futex wake/join matching | |
| `SharedLines` | what the hierarchy promises (abstract) | |
| `Coherence` | MESI controllers, skewed LLC, refresh | extends `CacheTopology`; implements `SharedLines` |
| `FirstTimeMiss` | owner bits and first-time misses | extends `Coherence` |
| `CoherenceProofs` | theorems about `Coherence` and `FirstTimeMiss`, and their refinement | extends `FirstTimeMiss` |
| `FastForward` | processes, fast-forward, end-of-phase actions, termination | |
| `FastForwardProofs` | theorems about `FastForward` | extends `FastForward` |
| `PrioQueue` | `prio_queue.h` | |
| `TimingEvents` | events, delays, crossings (`timing_event.*`) | extends `PrioQueue` |
| `Recorders` | core recorders, recording side of timing caches and memory | extends `TimingEvents` |
| `Weave` | `contention_sim.*`, simulation side of timing caches | extends `Recorders` |
| `Partitioning` | utility monitors, miss curves, lookahead | |
| `ReplPolicies` | replacement policies, partitioned ones too | |
| `CacheArrays` | the arrays, and a bank made of array, policy and partitioner | extends both |
| `Decoder` | `decoder.cpp` | |
| `OOOPipeline` | one micro-operation in the out-of-order pipeline | |
| `Cores` | the four kinds of core with their threads | extends both |
| `CoreProofs` | theorems about `Cores` | extends `Cores` and `ProofFacts` |
| `DDRMemory` | `ddr_mem.*` | |
| `DetailedMem` | `detailed_mem.*`, `detailed_mem_params.*` | |
| `SyscallVirt`, `PortVirt`, `AddressMaps` | virtual time and waits; ports; shared libraries | composed with `FutexMatch` in `MCHost` |
| `HostProofs` | theorems about the modules of `MCHost` | extends the four |
| `ProofFacts` | lemmas on sums, products, induction and queues | used by the proofs |

`MC*` modules hold the definitions that give constants their values; the `.cfg`
files choose among them. Operators named `Bug...` are plausible mistakes in the
definition that follows them. They are used by no specification; each property of
each run is violated when one of them takes the place of that definition.

### Barrier
The variables are the fields of `class Barrier` (`runList` indexed from 0 as in C),
plus the history variable `synced`. All operations are called with `schedLock` held,
so each is one action; `WAITING` is the futex wait. `checkRunList`, `endPhase`
(`checkEndPhase`) and `tryWakeNext` are operators on the values the caller has
already assigned, because the C code runs them on half-updated fields. The cleanup
of the run list is any arrangement in which survivors at a surviving index stay, the
shuffle any arrangement: the code's particular ones are among them. `lastIdx` starts
with any value of `Uninit`, since the constructor does not set it.

### Scheduler
`sched` is the `Scheduler` object; a critical section of `schedLock` is one action, and a
thread between two sections is described by `pc`. The state functions (`schedule`,
`deschedule`, `finish`, ...) map values of `sched` to values; `schedTick` and `callback`
give the set of results that the shuffle of contexts can lead to (every assignment in which
no queued thread is passed over by a later one). `wakeupPhase` is kept relative to
`curPhase`, and `curPhase` modulo the quantum, so that the state space is finite. The
asserts of the code are guards of the actions (an execution that fails one stops there) and
invariants say that they hold. Abstractions: the front guard that delays threads with
`FJA_WAKE` and the watchdog's stall threshold are timing only, so these steps may happen at
any time their other conditions allow; one process' blacklist; the watchdog's loop ends one
fake leave per pass (it repeats only with more than eight of them); the join/leave
notifications to cores and the interrupt hook `atSyncFunc` have no effect on this state.

### FutexMatch
`maxWakes` and `wokenUp` are the fields of `futexJoin`, `pc` says which of the patch
functions a thread is in. Arithmetic is modulo `Width` (2^32 in the code, 64 here,
with the cap of 2^24 scaled to 2). `leaked` records the allowance of wakes that
failed, bounded by `MaxLeaked`; `disturbed` records that a wake timed out or came
from outside, after which only the properties that survive such events are claimed. The
inner loop of `futexWakeJoin()` and the test after it are two steps, so that the joins
which a waker has seen may be taken by another, and its timeout starts anew.

### Coherence, SharedLines and FirstTimeMiss
Each L1 is driven by one thread. An access goes down the levels hand over hand: a
cache's own lock (`bcc`) is released before the parent is entered and taken again
before the parent is left. An action is what a thread does from one such window to the
next. This is a reduction: within a section the thread also locks caches below (for
invalidations), one at a time, and touches each once; what the thread owning such a
cache does before or after commutes with the rest of the section. `tccFree` is the
lock that keeps two children of one L2 from being in their parent's upper half at the
same time; the LLC section holds the locks of all skews of the group.
`CheckForMESIRace` is evaluated where the code does it, after the parent's lock has
been taken. Replacement is any line. Memory grants what is asked for.
`dirty` is a history variable: the lines written since memory was last updated.
Left out: prefetches, `FWD`, `PUTX` with `KEEPEXCL`, `nonInclusiveHack`, more than one
skew group, all timing. FirstTimeMiss adds the owner bits, with one core per L2 as in
the configurations under `experiments/`.

### FastForward
One application thread per process. `thr`, `fft` and `eop` are the program counters
of the application threads, the FF control threads and the thread in the end-of-phase
actions; `ffLock` and `qLocked` are the two locks. The scheduler is reduced to what
matters here: a phase ends when everyone in it has synced. `config` holds the options
of the configuration file and what programs and users may do in a run; it is chosen
once. `enterFastForward`/`exitFastForward` are atomic (both run under `ffLock` except
in `notifyEnd`, whose window between reading and clearing the flag is modelled).
FFI instruction counts are abstracted to "the target may be reached in any phase in
which the process ran". `globalPause` and paused starts are left out.

### PrioQueue, TimingEvents, Recorders and Weave
`PrioQueue` keeps the ring of `B` blocks of `W` cycles and the far map as they are (64
cycles per block in the code); its contents as a set are the reference that `QueueExact`
compares it with. Events are records in a function `ev` from ids; an event that is freed
leaves the domain of `ev`, which is what the slab's reference counts come to. The *world* is
the part of the state that simulation changes; the operators of `TimingEvents` and
`Recorders` map worlds to worlds, and an action of `Weave` is one of them. A simulation
thread runs the events of its domains; the only state threads share without locks is the
clocks of domains, the crossing events and their `called` flag, so a crossing is split where
it reads them (`ReadCycles`, `Recheck`, `NextCycle`) and every other event is one step.
Cores drive the recorders with any sequence of joins, leaves, instructions and accesses
(hits, clean and dirty misses). As in the controllers, the request to memory and the
writeback of a miss are issued at the same cycle, and the latency of the network is added to
the response only. Left out: several caches in a row, prefetches, the event loggers.

### CacheArrays, ReplPolicies and Partitioning
A `setup` is an array with a policy, one of the combinations that `BuildCacheBank()`
accepts. An access is two steps, `Preinsert` and `Postinsert`, since the invalidations
of its eviction run in between. Policies are records with the fields of their class;
`rank` and `update` have one case per class. Hash functions are arbitrary tables; the
set of CEASER is the old or the new key according to how far the refresh is.
`Walk` is the breadth-first walk of a zcache with its repetitions.
Scores keep the widths of the code's integers (`WordBits`, `ScoreBits`, scaled).

### Decoder, OOOPipeline and Cores
`Decoder` gives the micro-operations of each group of opcodes that the code decodes
alike, fusion, and the cycles of predecoder and decoders. `OOOPipeline` is what the core
does with one micro-operation, with all sizes as constants. `Cores` is the core: a
block is decoded, its accesses are collected while it "runs", and it is simulated one
block later; phases end, threads are switched, leave and join. `ops` is a history of
the operations with the cycles they were given, which the properties are about. The
weave phase appears as what recorders add to the clock (`gaps`).

### DDRMemory and DetailedMem
The commands that the controllers place are kept in a history (`trace`), and the
properties compare it with the timing of the devices. `DDRMemory` has its one alarm,
annulled alarms included, the overflow queue, deferred writes and both page policies;
`DetailedMem` has refresh and power-down worked out in arrears, the bus log, address
mappings, and the schedulers with their write buffer. Energies are left out.

### SyscallVirt, PortVirt and AddressMaps
`SyscallVirt` follows one thread per process through enter, kernel, exit and retry of a
patched call, against ends of phases, fast-forward of its own and of the other process,
signals and events; the kernel answers whatever it may. Of the scheduler it has what the
patches use: a sleep is marked at the entry of the call and the thread leaves in a step of
its own, unless the call came back to back with another (`zsim.cpp:1143`). Realtime,
monotonic and process CPU time have an offset each, and a clock domain takes the CPU time of
the process that captured its clocks. `PortVirt` splits `bind()` where the lock is held
across the call; a number may be a port of a program and one of the system. `AddressMaps`
has pages as addresses, takes the post-patches and the end of a phase apart where they read
or write flags outside `global_lock`, and says for every possible access whether the line it
is sent to is that of the memory it is meant for.

## 3. Bounds

* Barrier: three participants on two slots, cleanup every third phase; every join
  path, exchange, cleanup and shuffle occurs. The theorems cover all other sizes.
* Scheduler (in `core`): three threads, two contexts, overlapping masks, sleeps of one or two
  phases, a quantum of two phases: queueing, all three sources of contexts, hand-offs
  that find another context and hand-offs that do not. The liveness instance (in
  `barrier`) has one context wanted by three threads.
* Coherence: two cores (one with an instruction cache sharing its L2), two skews of one
  line each, two lines: the smallest instance with conflicts at every level. With
  refresh: one bank of two lines.
* FastForward: two processes in each of three configurations (a fork with toggles;
  synced FF of a process with FFI points, next to one with hooks that restarts; a termination).
* Weave: one core, a cache with one MSHR in another domain than core and memory, two phases
  of four cycles, three operations, memory of three cycles; a ring of six blocks of one
  cycle, so that events are far. Two domains are enough for crossings that wait for each
  other, and for chains; the run has an out-of-order core and a timing core, and one or two
  simulation threads.
* Arrays: four lines in two sets, five addresses, two partitions, at most five steps of
  time; fourteen banks, each of one array and one policy (a zcache that walks in a circle
  with NRU only, one with LRU for four steps of time). Conflicts in a set, repetitions in a
  walk, demotions and both halves of a refresh occur.
* Memory: at most four requests to two banks (DDR) or three lines (detailed); DDR with
  short timings, so that each constraint binds, and with those of DDR3-1066-CL7, which
  an `ASSUME` compares with `initTech()`. The window of activations has two places in the run
  and four in the code: another `ASSUME` checks that eight activations keep to one of four.
* Cores: windows and buffers of two to four entries, two threads, every instruction of
  the decoder alone and next to others, at most four blocks, three phases and two
  switches.
* Host: two processes, at most two calls each and six phases; three binders in two
  port domains, three sockets, one number that is a port of both sides; two libraries in four pages,
  three calls that map or protect; three threads for futexes (two wakers, or
  a wake of two), with wakes of 1 and of "many" (31, above the cap of 2).

## 4. Runs

A property that is a conjunction of named parts is given with them.

| Run | Properties, in words |
|---|---|
| `barrier` | `BarrierSafe`: the run list holds exactly the participants, once each; counters exact and at most `parallelThreads` run; join's assertion on `lastIdx`; no lost wakeup. `PhasesExact`: no phase skips anybody or runs anybody twice. `WaiterRuns`: who waits runs. With the scheduler: `QueuedRuns`, queued threads get a context; `SleepersWake`, every sleep ends |
| `coherence` | `HierarchySound`: exact directories; inclusion with permissions, one copy per level; only foreseen races. `DirtyExact`: no write forgotten. `AbstractSpec`: implements `SharedLines` (so a writer is alone). `AccountingSound`: with refresh, exact directories and inclusion; no first-time miss is charged twice |
| `ff` | `FastForwardSound`: exact counters; FF takes effect at the next barrier; synced FF holds the others; process 0 ends last. `FastForwardCompletes`: FF entered from outside only between phases; ends of phases complete; termination ends every process |
| `weave` | `AssertsHold`: no event before its time, no core moved back; `QueuesExact`: queues return events in order; `GraphExact`: numbers of parents exact, every event in exactly one place, nothing freed is used; `MSHRsExact`; `PhaseEnds`: every weave phase ends |
| `mem` | Arrays: `LinesFound`, every line is found, at its place only; `SizesExact`, the bookkeeping of partitions agrees with the lines; `VictimsSpared`, victims are those the policy promises. DDR: `ProtocolObeyed`, commands keep the timing of the devices; `AlarmSet`, no request is forgotten; `Fair`, overtaking is bounded. Detailed: `AssertsHold`; `TimingObeyed`; `BuffersExact`, no write is lost |
| `core` | `AssertsHold`; `WindowExact`; `OrderKept`: dependences, fences and forwarding; `BuffersBounded`: at most one more than the width retires in a cycle; `DecodeExact`: order, predecoder, one complex instruction per cycle, temporaries; `CoreInPhase`: a core is in the phase of the simulation. `SchedulerSound`: contexts, masks, queues, promises, barrier and futex words agree; nobody is queued while a context is free; sleepers are woken on time |
| `host` | `PatchAsserts`: those of the sleep queue and its marks too; `WaitsExact`: sleeps and timed waits take the simulated time; `TimeNeverGoesBack`: realtime and monotonic clocks; `WaitsEnd`; `PortsExact`: a port leads to the socket that a program bound to it; `LinesExact`; `WakesMatched`: allowance exact, wakes and joins conserved, the assertion on unmatched wakes; `WakerReturns`: unless others overtake it for ever |
| `ftm_owners` | *violated*, `EveryFirstTimeCounts`: owner bits outlive their line |
| `ff_toggle` | *violated*, `SyncEventsRun`: two toggled processes deadlock the end of a phase |
| `weave_walk` | *violated*, `WalksComplete`: a response is added to the children of the event that is being walked |
| `decode_rules` | *violated*, `DecodeRules`: five instructions in a cycle, with four decoders |
| `host_back` | *violated*, `PatchAsserts`: a second sleep without a join in between |

`barrier`, `coherence`, `mem`, `core` and `host` hold several modules that share nothing:
`kind` says which of them a behaviour is about, and the others keep an initial state.

Deadlock is checked in `barrier` (the scheduler with one context too), `coherence` and
`weave`. It is not in the others: simulations end (`ff`), the bounds on calls, requests or
steps end a behaviour (`mem`, `core`, `host`), and all threads may wait for ever for a futex
wake that never comes (`host`).

Fairness. *Barrier, Scheduler*: a thread that runs reaches the end of its phase, strongly
fair because it may leave for syscalls in between but its cycle count only grows; waits that
are over end; the watchdog wakes up periodically; nothing is assumed of the kernel.
*FutexMatch*: steps of the simulator are weakly fair; the wait loop ends by a match or by
its timeout, which a waker that sees joins and loses them to another starts again, so that
`WakerReturns` excepts the waker whom others overtake for ever. *FastForward*: weak fairness
for application threads and the harness, strong for FF control threads and the end-of-phase
thread, which contend for `ffLock`; none for programs and users. *Weave*: weak fairness of
each simulation thread, which is a thread of the host, and of the thread that waits for all
of them; it is written without `ENABLED` (a thread that is not idle can always step). A
crossing that waits requeues itself, so `PhaseEnds` does not follow from fairness alone: it
needs the slack, and the order of the reads. *SyscallVirt*: the kernel answers, threads go
on and phases end (other threads or the watchdog end them, as `SleepersWake` shows); events
and signals need not come.

## 5. Proofs

All theorems are for every value of the constants that the named assumptions allow; TLC
evaluates the assumptions in the runs, and has checked each inductive invariant on the
instance of the run before it was proved. `MCBarrier`, `MCCoherence` and (for the
scheduler) `MCCores` hold two models side by side, so what they check under a theorem's
property name is that property of an `INSTANCE` of the module the theorem is about.

| Theorem | Module | Of the run | Assumes |
|---|---|---|---|
| `BarrierIsSafe`, `PhasesAreExact` (and one per part), `JoinEndsNoPhase` | `BarrierProofs` | `barrier` | `BarrierAssumption` |
| `SchedulerIsSound`: `SchedulerSound` | `SchedulerProofs` | `core` | `SchedulerAssumption` |
| `HierarchyIsSound`, `WritesAreKept`, `HierarchyImplements`, `NoStaleReader` | `CoherenceProofs` | `coherence` | `CoherenceAssumption` |
| `AccountingIsSound`, `RefreshedImplements` | `CoherenceProofs` | `coherence` | `FtmAssumption` too |
| `FastForwardIsSound`, `FastForwardIsEnteredBetweenPhases` | `FastForwardProofs` | `ff` | `FastForwardAssumption`, `ConfigsSupported` |
| `PipelineIsExact`, `WindowIsExact`, `OrderIsKept`, `BuffersAreBounded`, `CoreStaysInPhase` | `CoreProofs` | `core` | `PipelineAssumption`, `CoreAssumption`, `SetupsSupported` |
| `WakesAreMatched`; `PortsAreExact`; `LinesAreExact`; `PatchAssertsHold`, `WaitsAreExact`, `TimeGoesOn` | `HostProofs` | `host` | below |

**Barrier.** None of the properties is inductive alone. The operations pass half-updated
values to `tryWakeNext`, so the invariant is a predicate `Good` of such values: the list
is a repetition-free list of those not OFFLINE, the counters are cardinalities, `lastIdx`
is the right place for everybody who has run and for everybody before `curThreadIdx`
(the part that join's assertion needs: a LEFT participant that the phase has passed is
before `curThreadIdx`), futex words agree, and those passed who wait are exactly those
who have synced. `IInv` is `Good` of the variables with `NoLostWakeup`, which is
needed in turn to see that a join cannot end a phase (when nobody runs nobody waits,
so a joiner is woken at once). Each operation establishes `Good` of what it passes on;
`CheckRunListGood` and `EndPhaseGood` show that the wakeup loop and the end of a phase
preserve it, the loop by its specification `LoopEndsAt` rather than by induction. What
the scheduler needs to know of an operation is `JoinMoves`, `LeaveMoves` and `SyncMoves`:
the others only get woken or dropped, and when a phase ends nobody has been left out.

**Scheduler.** The functions of the scheduler are applied one after the other within a
critical section, and in between a context may be in nobody's hands and a thread QUEUED
but in no queue. So the invariant `Core(s, C, X)` is one of values `s`, with those
contexts `C` and threads `X` as parameters, and each function is shown to take one
`Core` to the next (`VacateCore`, `ScheduleCore`, `TakeCore`, ...). To it come `Agrees`
(the state of a thread and where it is in the code), `BarrierIs` (the barrier lets run
exactly the contexts of RUNNING threads; who has synced is in `sync()` and has promised
nothing) and the barrier's own `IInv`, by `INSTANCE`. Two parts are not in
`SchedulerSound` and needed: who fakes a leave is RUNNING and is not the thread that the
watchdog has already picked, and when a phase ends every RUNNING thread is in `sync()`
without a promise (`Quiet`), or `schedTick()` would overwrite one. The assertions
of `join()` stay guards (see section 6, the watchdog's window).

**Hierarchy.** The controllers work on values `h` of `cache`, several of them within one
section, so the invariant of lines and directories (`Sound`) is stated of such values:
each controller preserves it, and does no more to the lines of others than degrade them
(`Degraded`). `Waiting` says what a pending request knows of its line, and tolerates just
that; this is where `CheckForMESIRace()` is shown to be enough. `WritesAreKept` adds that
memory lacks exactly the lines that some cache has in M (`DirtyInv`). The refinement maps a
section to the grant, loss or downgrade of permissions at the L1s. With refreshes
lines of the LLC move while accesses are pending; the owners of a
line move with it, and whoever used a line owns it (`UsersOwn`), from which the
accounting follows. The number of caches, ways, banks and lines is arbitrary; three
levels and one skew group are not.

**Fast-forward.** The counters are compared with the sets they count: processes with their
flag set, processes that hold a barrier slot, processes born and not ended. `globalFFProcs`
is exact until the simulation is terminated; after that `notifyEnd()` may take it down once
more for each process that has gone, and the invariant says by how much. The other parts
say what a process may rely on between two locks: which threads still simulate with the
flag set (`Simulates`), that an event of an FFI process is only in the queue while it is not in
fast-forward (`Ffi`), that past the synced wait only those are in fast-forward who entered
since (`Phase`), that a callback holds up the end of its phase (`Callback`, `OneCallback`), and that
nobody ends during the end of a phase but through the timeout of an FF control thread
(`Ends`). `ConfigsSupported` excludes the configurations of section 6 in which the code is
wrong.

**Cores.** The properties speak of the last operation and of the window as it is now, while
the pipeline holds the effects of all operations before. So the invariant is one of the
history: the window has, from the current cycle on, exactly the operations that were
dispatched there (`Scheduled`), with their ports; the scoreboard has the commit cycle of the
last writer of each register, the last commit of stores and of store addresses are not
earlier than any such operation, and the forwarding array has the last store of each entry
(`Ordered`); entry `Place` of each ring is the cycle at which the operation that last took
it leaves, and the cycle and count of the reorder buffer bound how many retired with the
last (`Buffered`). `Recording` says in which state the recorder is where the clock counts.
First come lemmas on the window: a slot is found at the same cycle after a cycle, a rotation
of the two blocks or a jump over both (`PassedWindow`, `RebasedWindow`), so that `Scheduled`
is kept (`WhileScheduled`), and `FirstFreeIs`: there always is a cycle with a free port.
Then an operation is followed from decoding to retirement: `Onward` says that a stage moves
only the clock on, `Enters` and `Middle` what dispatch and execution add, `Ran` what is left
of it at the end. Last come the actions: all but `SimulateUop` leave the history alone
(`Follows`, `QuietStep`). The theorems hold for every size of the buffers and of the window,
every latency and every program of supported blocks.

**Host.** `WakesAreMatched`: the allowance and the unmatched wakes are sums over the threads
(`FutexInv`). `FutexRoom` assumes that no wake exceeds the cap and that the counters have
room: with the code's numbers, fewer than 256 threads in capped wakes at a time.
`PortsAreExact` needs what a `bind()` that holds the lock has looked up, and holds for any
ports of programs and of the system, disjoint or not. `LinesAreExact` needs that stale
copies are those of an earlier state, laid out as the kernel's, and that a copy which lacks
a permission will be renewed or its process is in `missed`; `SegmentsFit` assumes that a
library fits in its range. The three theorems on time hold for every frequency, phase length
and duration. They are stated for programs that do not sleep again before they have joined
(`host_back` shows why), and `TimeAssumption` excludes signals to sleepers in programs that
also fast-forward or ask for the remaining time (the causes are in section 6). The invariant
says of each clock how its offset was captured, and of each thread who has marked it for
sleep. `WaitsExact` states that an absolute timed wait may end a phase and 1 ns early.

Inductions on numbers and finite sets go through `NatInduct` and `SetInduct` of
`ProofFacts`, which are about sets, since the provers cannot instantiate an operator.

Only model-checked: all liveness (fairness and ENABLED are out of the prover's reach),
`VictimsSpared`, the invariants of `CacheArrays`, `DDRMemory` and `DetailedMem`, those of
`Weave`, which reaches RECURSIVE operators (in `TimingEvents` and `Recorders`), and of
`Cores` two: `AssertsHold`, for which the number of accesses of a block has to be related to
what the decoder's recursion emits, and `DecodeExact`, which is about that recursion. What
the recursive functions of `Partitioning`, `Decoder` and `PrioQueue` and the folds of other
modules compute for every input would need induction over data.

## 6. Known departures from what the code says

Five are runs that end in a violation, with a finding each. The following were met while
modelling; they are excluded from the passing runs by the choice of configurations or
actions.

Scheduler and futexes
* The watchdog's window (`scheduler.cpp:156`): the thread whose fake leave is being ended
  may return from its syscall and fail the assertion of `join()` (`scheduler.h:313`). The
  assertion is a guard of the model, so that such an execution stops.
* Processes killed by a signal: `Barrier::leave()` of a waiting participant, contexts
  handed to queued threads without `bar.join()`, promises to killed threads.
* A sleep interrupted while its process fast-forwards reaches `finish()` SLEEPING.
* Futex wakes that time out or come from outside disturb the matching of later ones, and
  the assertion of `scheduler.cpp:346` may fail; a wake of `UINT_MAX` threads makes
  `wokenUp` wrap; a waker may resume on the join of another waker's thread, and who loses
  the joins it has seen waits two more seconds (`scheduler.cpp:350`).

Hierarchy and arrays
* A refresh replaces lines without writing back modified ones
  (`coherence_ctrls.cpp:367`): `DirtyExact` is checked without refresh.
* Owners are recorded by `childId` and looked up by `srcId` (`coherence_ctrls.h:348`);
  the two agree with one core per L2 only.
* With LLC partitioning by sets or ways the lookup uses the partition of the process that
  runs (`zsim.cpp:1797`), so that a line of another one is not found and
  "loses inclusion" panics (`coherence_ctrls.h:571`); `Asks` excludes it.
* The bits of `missCache` alias (`monitor.cpp:37`), `umonMisses` and the constructor of
  `IdealLRUPartReplPolicy` read past their ends (`monitor.cpp:91`,
  `ideal_arrays.h:140`); way allocations may exceed the ways (`part_repl_policies.h:232`);
  the score of LRU is truncated to 32 bits (`repl_policies.h:125`); TreeLRU is plain LRU;
  SHARP builds LRU (`init.cpp:174`); the unrolled H3 hash is not the one of its comment
  (`hash.cpp:68`); with two partitions the instruction/data mapper returns 2
  (`partition_mapper.cpp:36`).

Fast-forward
* Two processes toggled in the same phase deadlock its end (`zsim.cpp:1601`): `ff_toggle` shows it,
  and `ff` toggles one.
* A SyncEvent inserted between `tick()` and `numPhases++` is late, and the next `tick()` panics
  (`event_queue.h:97`): `SyncEventsRun` fails then too, and `FastForwardCompletes` is about
  executions in which no event is late (`NoneLate`).
* `notifyEnd()` leaves fast-forward without `ffLock`; with `Multiprocess` a fork
  unbalances the synced counter; an ROI_END leaves an FFI event behind; synced
  fast-forward entered while a thread joins makes it wait for itself; the harness may
  reap a child without restarting it (`zsim_harness.cpp:455`).
* A restarted FFI process has two events in the queue (`zsim.cpp:305`, `zsim.cpp:324`), and a
  toggled process that exits races with its FF control thread. `ConfigsSupported` excludes both.

Weave phase
* An out-of-order core whose domains share one simulation thread runs its taper event at
  the limit itself (`contention_sim.cpp:367`), against `ooo_core_recorder.cpp:344`; this
  configuration is left out.
* The assertion of `visitChildren()` (`timing_event.h:248`) fails when the request and the dirty
  writeback of a miss both cross to memory in another domain than that of the cache, or when a
  replacement crosses while the array has more candidates than ways: `weave_walk`. The setups
  of `weave` have a dirty miss whose memory is in the domain of the core, where the crossings
  count as responses, and a third candidate with memory in the cache's own domain.
* An embedded `CrossingSrcEvent` is freed with its owner and
  again by itself, against `slab_alloc.h:31`. Responses read `startCycle` of a freed
  event, for statistics only.

Memory
* The assertion on the cycles of power-down (`detailed_mem.cpp:519`) fails when accesses
  are simulated out of order (cause at 1051); it is excluded from `AssertsHold`.
* The ring of activations does not stay sorted (`ddr_mem.h:65`): the loop compares with the slot
  that it has just overwritten. The model inserts as the code does, and the window of
  activations is kept all the same.
* `tRRD` is kept per bank only (DDR); the first activation ignores tRRD and tFAW
  (detailed); requests that overflowed may be overtaken by new ones; a refresh delays an
  access only if the one before overlapped it; the penalty of power-down is added after
  the bus slot was chosen; the overflow test of the write buffer is `==`.

Cores and decoder
* The reorder buffer retires one more than its width in a cycle after a full one; four
  simple and one complex instruction are decoded in a cycle, against "4-1-1-1 rules"
  (`decoder.cpp:1381`): `decode_rules` shows the latter, `BuffersBounded` states what holds of
  the former.
* The last operation of a chained one loses its carry; CMOV from memory does not write
  its register; CMPS loads operand 0 twice; a predicated store that is not executed fails
  an assertion; `branchPc` is stale after a context switch; `OOOCore` does not initialise
  `loads` and `stores`; marks of shadow ports outlive a long jump; a timing core that
  joins HALTED after a weave phase goes back in time; RDTSC takes the cycle modulo the
  phase (`zsim.cpp:1524`).

Virtualization and maps
* `time.cpp:256` asserts that an interrupted sleep is left before its phase, which need not
  be; the time that remains is in phases taken as cycles; a patched sleep in a blocking
  syscall, or after another call without a join (`host_back`), is marked but never left; the
  timeout argument is "restored" to its patched value (`timeout.cpp:231`); FUTEX_WAIT_BITSET
  without CLOCK_REALTIME is absolute but taken as relative; TIMER_ABSTIME always uses the
  realtime offset, whatever the clock; the CPU time of a process may go back, since its
  domain has that of the process which captured the clocks (`time.cpp:297`), and that of a
  thread is the process'; timed waits may end up to a phase early.
* A program that binds port 0 may get a real port which is the number of another program's
  virtual one: it is told that number, and `connect()` to it reaches the other
  (`ports.cpp:148`); `PortsExact` names the exception.
* A permission changed after the copies of the end of the first phase were taken and before
  `firstPhase` is set (`cpu.cpp:127`, `zsim.cpp:728`) is missed until the next renewal.
* A translation outlives its port, and a later `bind()` fails; a process started after the
  first phase panics at its first access; a process that exits makes
  the renewal of the maps panic; libraries are told apart by four letters
  (`zsim.cpp:478`); a partial `munmap` moves the baseline; RELRO pages are treated as
  shared; the shared range overlaps private addresses of process 0.

## 7. Plan

1. Proofs: `LinesFound` and `VictimsSpared` of the arrays for each kind of array;
   `AssertsHold` of `Cores`; `MSHRsExact`, for which the recursion of `TimingEvents` has
   to be written as functions.
2. Killed processes in Barrier and Scheduler; Scheduler composed with FastForward and
   with SyscallVirt.
3. A second core in `Weave`.

Not modelled: statistics, tracing and logging (nothing reads them); the vendored heap;
the parsing of configurations and of the vdso image; DRAMSim2, an external library; the
analytic memory models and the network, which are formulas without concurrent state; the
prefetcher's stream table, which only decides which lines are asked for; path rewriting,
affinity masks and RDTSC; hashing and random numbers, which are arbitrary functions and
choices in the models. `PROJECT.json` gives the reason for each component.
