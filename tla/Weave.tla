-------------------------------- MODULE Weave --------------------------------
(***************************************************************************)
(* Bound and weave phases: the contention simulator                        *)
(* (src/src/contention_sim.h/.cpp) with the events of TimingEvents, the    *)
(* recorders, timing caches and memory of Recorders, and the cores that    *)
(* drive them (timing_core.cpp, and join and leave of ooo_core.cpp).       *)
(*                                                                         *)
(* In the bound phase cores join, leave and access memory.  In the weave   *)
(* phase simulation threads take the events of their domains in the order  *)
(* of their cycles; they share the cycles of the domains, the crossing     *)
(* events and the recorders, without locks.                                *)
(***************************************************************************)
EXTENDS Recorders

CONSTANTS Cores, Domains,
          Setups,           \* the kind of each core, the domains of each thread, the candidates
                            \* of the cache, and what accesses find (see AccessRecord)
          PhaseLength,
          Instrs,           \* lengths of basic blocks
          MaxPhases, MaxOps         \* bounds: phases, joins, leaves and accesses of a core

ASSUME WeaveAssumption ==
    /\ PhaseLength > 0 /\ MaxPhases > 0 /\ MaxOps > 0
    /\ Instrs \subseteq Nat \ {0}
    /\ \A s \in Setups : UNION s.threads = Domains /\ s.cands >= Ways

VARIABLES
    setup,      \* the system simulated
    ev, dom, rec, last, live, fail,     \* see TimingEvents
    cache,      \* the timing cache: its last accesses, its misses and its pendingQueue
    phase,      \* "bound" or "weave"
    phases,     \* numPhases
    ops,        \* joins, leaves and accesses of each core so far
    threads     \* the simulation threads, each with its domains

vars == <<setup, ev, dom, rec, last, live, fail, cache, phase, phases, ops, threads>>

globPhaseCycles == phases * PhaseLength
limit == globPhaseCycles + PhaseLength
lastLimit == globPhaseCycles

World == [ev |-> ev, dom |-> dom, rec |-> rec, last |-> last, live |-> live, fail |-> fail,
          cands |-> setup.cands, cs |-> <<>>, lastLimit |-> lastLimit, inCSim |-> phase = "weave", cache |-> cache]

Becomes(world) ==
    \E w \in {world} :
        /\ ev' = w.ev
        /\ dom' = w.dom
        /\ rec' = w.rec
        /\ last' = w.last
        /\ live' = w.live
        /\ fail' = w.fail
        /\ cache' = w.cache
        /\ UNCHANGED setup

Thread(D) == [domains |-> D, pc |-> "idle", d |-> 0, ev |-> NoEvent, cycle |-> 0, next |-> 0,
              domPq |-> {}, stalled |-> <<>>, nextStalled |-> <<>>, from |-> "pq"]

Init ==
    /\ ev = <<>>
    /\ dom = [d \in Domains |-> [pq |-> EmptyQueue, cur |-> 0, prio |-> 0, queuePrio |-> 0]]
    /\ setup \in Setups
    /\ rec = [r \in Cores |-> NewRecorder(setup.kind[r])]
    /\ threads = {Thread(D) : D \in setup.threads}
    /\ last = [r \in Cores |-> [s \in Domains |-> [d \in Domains |-> [cycle |-> 0, ev |-> NoEvent]]]]
    /\ live = [r \in Cores |-> 0]
    /\ fail = {}
    /\ cache = [lastAcc |-> 0, lastFree |-> 0, active |-> 0, pending |-> <<>>]
    /\ phase = "bound"
    /\ phases = 0
    /\ ops = [r \in Cores |-> 0]

-----------------------------------------------------------------------------
(* The bound phase *)

Counted(r) == ops[r] < MaxOps /\ ops' = [ops EXCEPT ![r] = @ + 1]

Join(r) ==
    /\ phase = "bound" /\ phases < MaxPhases
    /\ rec[r].st # "RUNNING"
    /\ Counted(r)
    /\ Becomes(notifyJoin(World, r, globPhaseCycles))
    /\ UNCHANGED <<phase, phases, threads>>

Leave(r) ==
    /\ phase = "bound"
    /\ rec[r].st = "RUNNING"
    /\ Counted(r)
    /\ Becomes(notifyLeave(World, r))
    /\ UNCHANGED <<phase, phases, threads>>

\* A basic block of n instructions without a record.
Compute(r, n) ==
    /\ phase = "bound"
    /\ rec[r].st = "RUNNING" /\ rec[r].cur <= limit
    /\ Becomes([World EXCEPT !.rec[r].cur = @ + n])
    /\ UNCHANGED <<phase, phases, ops, threads>>

\* One that leaves a record: a timing core waits for the response, an
\* out-of-order core goes on.
Access(r, n, a) ==
    /\ phase = "bound"
    /\ rec[r].st = "RUNNING" /\ rec[r].cur <= limit
    /\ Counted(r)
    /\ LET t == rec[r].cur + n IN
       \E m \in {AccessRecord(World, r, t, a)} :
           Becomes(IF rec[r].kind = "OOO" THEN OOORecordAccess(m.w, r, m.tr, t, m.tr.resp)
                   ELSE [TimingRecordAccess(m.w, r, m.tr) EXCEPT !.rec[r].cur = m.tr.resp])
    /\ UNCHANGED <<phase, phases, threads>>

\* simulatePhase(), until the threads are woken up.
StartWeave ==
    /\ phase = "bound" /\ phases < MaxPhases
    /\ \A r \in Cores : rec[r].st = "RUNNING" => rec[r].cur > limit
    /\ Becomes(FoldSet(LAMBDA r, w : cSimStart(w, r, limit), World, Cores))
    /\ phase' = "weave"
    /\ threads' = {[t EXCEPT !.pc = "loop", !.domPq = t.domains] : t \in threads}
    /\ UNCHANGED <<phases, ops>>

\* simulatePhase(), after the last thread is done.
EndWeave ==
    /\ phase = "weave"
    /\ \A t \in threads : t.pc = "idle"
    /\ Becomes(FoldSet(LAMBDA r, w : cSimEnd(w, r), World, Cores))
    /\ phase' = "bound"
    /\ phases' = phases + 1
    /\ UNCHANGED <<ops, threads>>

-----------------------------------------------------------------------------
(* The timing cache in the weave phase *)

highPrioAccess(c, cycle) ==
    [c EXCEPT !.lastAcc = Max2(cycle, @ + 1),
              !.lastFree = IF c.lastAcc < cycle - 1 THEN cycle - 1 ELSE @]

LowPrioGranted(c, cycle) == c.lastAcc < cycle - 1 \/ c.lastFree = cycle - 1

tryLowPrioAccess(c, cycle) == [c EXCEPT !.lastFree = 0, !.lastAcc = Max2(cycle - 1, @)]

\* hold(), until an MSHR is free
Hold(w, i) == [w EXCEPT !.ev[i].st = "HELD", !.cache.pending = Append(@, i)]

simulateHit(w, i, cycle) ==
    LET c == highPrioAccess(w.cache, cycle)
    IN  IF w.cache.active < NumMSHRs
        THEN done([Expect(w, cycle >= w.cache.lastFree, "highPrioAccess") EXCEPT !.cache = c], i, c.lastAcc)
        ELSE Hold(w, i)

simulateMissStart(w, i, cycle) ==
    LET c == highPrioAccess(w.cache, cycle)
    IN  IF w.cache.active < NumMSHRs
        THEN done([Expect(w, cycle >= w.cache.lastFree, "highPrioAccess") EXCEPT
                        !.cache = [c EXCEPT !.active = @ + 1]], i, c.lastAcc)
        ELSE Hold(w, i)

BugWriteback(w, i, cycle) ==                            \* the held events are not woken up
    IF LowPrioGranted(w.cache, cycle)
    THEN done([w EXCEPT !.cache = [tryLowPrioAccess(@, cycle) EXCEPT !.active = @ - 1]], i, cycle)
    ELSE requeue(w, i, cycle + 1)

\* The MSHR is freed, and everyone who waits for one tries again.
simulateMissWriteback(w, i, cycle) ==
    LET v == Expect([w EXCEPT !.cache = [tryLowPrioAccess(@, cycle) EXCEPT !.active = @ - 1,
                                                                          !.pending = <<>>]],
                    w.cache.active > 0, "simulateMissWriteback")
    IN  IF LowPrioGranted(w.cache, cycle)
        THEN done(FoldLeft(LAMBDA u, q : requeue(u, q, cycle + 1), v, w.cache.pending), i, cycle)
        ELSE requeue(w, i, cycle + 1)

simulateReplAccess(w, i, cycle) ==
    LET v == [w EXCEPT !.cache = tryLowPrioAccess(@, cycle), !.ev[i].accs = @ - 1]
    IN  IF ~LowPrioGranted(w.cache, cycle) THEN requeue(w, i, cycle + 1)
        ELSE IF v.ev[i].accs = 0 THEN done(v, i, cycle) ELSE requeue(v, i, cycle + 1)

\* simulate() of every event but crossings.
Simulate(w, i, cycle) ==
    LET k == w.ev[i].k
    IN  CASE k \in {"core", "issue"} -> done(reportEventSimulated(w, i, cycle), i, cycle)
          [] k \in {"disp", "resp", "mresp"} -> done(w, i, cycle)
          [] k = "mem" -> done(w, i, cycle + w.ev[i].lat)
          [] k = "hit" -> simulateHit(w, i, cycle)
          [] k = "mstart" -> simulateMissStart(w, i, cycle)
          [] k = "mwb" -> simulateMissWriteback(w, i, cycle)
          [] k = "repl" -> simulateReplAccess(w, i, cycle)

-----------------------------------------------------------------------------
(* The simulation threads *)

Update(t, u) == threads' = (threads \ {t}) \cup {u}

Single(t) == Cardinality(t.domains) = 1

\* A thread with one domain stops before the limit, one with several after it.
Finished(t, d) ==
    LET pq == dom[d].pq
    IN  size(pq) # 0 => firstCycle(pq) >= (IF Single(t) THEN limit ELSE limit + 1)

\* The domain that a thread looks at next: its only one, the one of its domPq
\* with the lowest queuePrio, or the last of its stalled ones.
Turn(t, d) ==
    IF t.domPq # {} THEN d \in t.domPq /\ \A e \in t.domPq : dom[d].queuePrio <= dom[e].queuePrio
    ELSE t.stalled # <<>> /\ d = t.stalled[Len(t.stalled)]

Picked(t, d) == IF t.domPq # {} THEN [t EXCEPT !.domPq = @ \ {d}, !.from = "pq", !.d = d]
                ELSE [t EXCEPT !.stalled = Front(@), !.from = "stalled", !.d = d]

\* When the stalled ones have all been looked at, the queues are swapped.
Swapped(t) == IF t.stalled = <<>> /\ t.from = "stalled"
              THEN [t EXCEPT !.stalled = t.nextStalled, !.nextStalled = <<>>] ELSE t

Swap(t) ==
    /\ t.pc = "loop" /\ t.domPq = {} /\ t.stalled = <<>> /\ t.nextStalled # <<>>
    /\ Update(t, [t EXCEPT !.stalled = t.nextStalled, !.nextStalled = <<>>])
    /\ UNCHANGED <<setup, ev, dom, rec, last, live, fail, cache, phase, phases, ops>>

FinishDomain(t, d) ==
    /\ t.pc = "loop" /\ Turn(t, d) /\ Finished(t, d)
    /\ Becomes([World EXCEPT !.dom[d].cur = limit])
    /\ Update(t, Swapped(Picked(t, d)))
    /\ UNCHANGED <<phase, phases, ops>>

Dequeue(t, d) ==
    /\ t.pc = "loop" /\ Turn(t, d) /\ ~Finished(t, d)
    /\ LET q == dequeue(dom[d].pq)
       IN  /\ Becomes([Expect(World, q.cycle >= dom[d].cur, "dequeue") EXCEPT
                            !.dom[d].pq = q.queue, !.dom[d].cur = q.cycle])
           /\ Update(t, [Picked(t, d) EXCEPT !.pc = "run", !.ev = q.obj, !.cycle = q.cycle])
    /\ UNCHANGED <<phase, phases, ops>>

\* TimingEvent::run()
Running(t) ==
    LET e == ev[t.ev]
    IN  Expect([World EXCEPT !.ev[t.ev].st = "RUNNING"],
               t.from = "pq" => e.st \in {"NONE", "QUEUED"} /\ e.min # Unset /\ t.cycle >= e.min, "run")

Run(t) ==
    /\ t.pc = "run"
    /\ ev[t.ev].k # "x"
    /\ Becomes(Simulate(Running(t), t.ev, t.cycle))
    /\ Update(t, [t EXCEPT !.pc = "next", !.ev = NoEvent])
    /\ UNCHANGED <<phase, phases, ops>>

\* A crossing whose source is done.
RunCrossing(t) ==
    /\ t.pc = "run" /\ ev[t.ev].k = "x" /\ ev[t.ev].called
    /\ Becomes(simulateCrossing(Running(t), t.ev, t.cycle))
    /\ Update(t, [t EXCEPT !.pc = "next", !.ev = NoEvent])
    /\ UNCHANGED <<phase, phases, ops>>

\* One whose source is not: first the cycles are read, then called again.
ReadCycles(t) ==
    /\ t.pc = "run" /\ ev[t.ev].k = "x" /\ ~ev[t.ev].called
    /\ Becomes(Running(t))
    /\ Update(t, [t EXCEPT !.pc = "recheck", !.next = RetryCycle(World, t.ev, t.cycle)])
    /\ UNCHANGED <<phase, phases, ops>>

Recheck(t) ==
    /\ t.pc = "recheck"
    /\ Becomes(IF ev[t.ev].called THEN simulateCrossing(World, t.ev, t.cycle)
               ELSE holdCrossing(World, t.ev, t.cycle, t.next))
    /\ Update(t, [t EXCEPT !.pc = "next", !.ev = NoEvent, !.next = 0])
    /\ UNCHANGED <<phase, phases, ops>>

\* The domain's cycle moves on to its next event, and the domain is put back.
NextCycle(t) ==
    /\ t.pc = "next"
    /\ LET pq == dom[t.d].pq
           c == IF size(pq) = 0 THEN limit ELSE firstCycle(pq)
           w == Expect(World, Single(t) => c >= dom[t.d].cur, "newCycle")
       IN  Becomes([w EXCEPT !.dom[t.d].cur = c, !.dom[t.d].queuePrio = IF Single(t) THEN @ ELSE c])
    /\ Update(t, Swapped(
            [IF Single(t) \/ dom[t.d].prio = 0 THEN [t EXCEPT !.domPq = @ \cup {t.d}]
             ELSE IF t.from = "pq" THEN [t EXCEPT !.stalled = Append(@, t.d)]
             ELSE [t EXCEPT !.nextStalled = Append(@, t.d)] EXCEPT !.pc = "loop", !.cycle = 0]))
    /\ UNCHANGED <<phase, phases, ops>>

\* simThreadLoop(), when all domains of the thread are finished.
ThreadDone(t) ==
    /\ t.pc = "loop" /\ t.domPq = {} /\ t.stalled = <<>> /\ t.nextStalled = <<>>
    /\ Update(t, Thread(t.domains))
    /\ UNCHANGED <<setup, ev, dom, rec, last, live, fail, cache, phase, phases, ops>>

ThreadStep(t) ==
    \/ Swap(t)
    \/ \E d \in t.domains : FinishDomain(t, d) \/ Dequeue(t, d)
    \/ Run(t)
    \/ RunCrossing(t)
    \/ ReadCycles(t)
    \/ Recheck(t)
    \/ NextCycle(t)
    \/ ThreadDone(t)

\* The simulation ends.
Stop == phase = "bound" /\ phases = MaxPhases /\ UNCHANGED vars

Next ==
    \/ \E r \in Cores : \/ Join(r)
                        \/ Leave(r)
                        \/ \E n \in Instrs : Compute(r, n)
                        \/ \E n \in Instrs, a \in setup.accesses : Access(r, n, a)
    \/ StartWeave
    \/ phase = "weave" /\ \E t \in threads : ThreadStep(t)
    \/ EndWeave
    \/ Stop

Spec == Init /\ [][Next]_vars

\* The simulation threads are scheduled, and so is the thread in simulatePhase().
\* A thread that is not idle can always take a step, and every step changes its
\* record: this is weak fairness of the steps of each thread and of EndWeave,
\* with the ENABLED of these actions written out.
ThreadFair(D) == \/ []<>(\A t \in threads : t.domains = D => t.pc = "idle")
                 \/ []<><<{t \in threads : t.domains = D}' # {t \in threads : t.domains = D}>>_vars

EndFair == \/ []<>(phase = "bound" \/ \E t \in threads : t.pc # "idle")
           \/ []<><<phases' # phases>>_vars

FairSpec == Spec /\ (\A D \in SUBSET Domains : ThreadFair(D)) /\ EndFair

-----------------------------------------------------------------------------
\* No assertion of the modelled code fails: no event is queued before the cycle
\* of its domain or before the last limit, none runs before its minStartCycle, a
\* crossing is never chained to one that has run, the weave phase never moves a
\* core back in time, and a running core always has an event left for the next
\* phase (contention_sim.cpp, timing_event.h/.cpp, core_recorder.cpp,
\* ooo_core_recorder.cpp, timing_cache.cpp).
AssertsHold == fail = {}

\* The walk over the children of an event meets all of them, also the responses that
\* it adds itself: assert(visitedChildren == numChildren) (timing_event.h:248).
WalksComplete == "visitChildren" \notin fail

\* The queues of the domains return their events in the order of their cycles.
QueuesExact == \A d \in Domains : QueueExact(dom[d].pq)

Parents(i) == {<<p, n>> \in UNION {{p} \X DOMAIN ev[p].ch : p \in DOMAIN ev} : ev[p].ch[n] = i}

\* The graph of the events is exact: numParents counts the links to live events, so
\* that every event will be started, and not before its last parent is done; an
\* event without parents is in the queue of its domain, held for an MSHR or run by
\* a thread, and in one of them only; and what recorders keep across phases has
\* not been freed.
GraphExact ==
    /\ \A i \in DOMAIN ev :
          /\ ev[i].np = Cardinality(Parents(i))
          /\ (ev[i].np = 0) =
                (Cardinality({d \in Domains : \E p \in Contents(dom[d].pq) : p[2] = i})
                 + Cardinality({n \in DOMAIN cache.pending : cache.pending[n] = i})
                 + Cardinality({t \in threads : t.ev = i}) = 1)
          /\ \A n \in DOMAIN ev[i].ch :
                LET c == ev[i].ch[n]
                IN  IF c > 0 THEN c \in DOMAIN ev ELSE -c \in DOMAIN ev /\ ~ev[-c].called
    /\ \A d \in Domains : \A p \in Contents(dom[d].pq) : p[2] \in DOMAIN ev /\ ev[p[2]].dom = d
    /\ \A r \in Cores : rec[r].prev \in DOMAIN ev \cup {NoEvent}
    /\ phase = "bound" => \A r \in Cores : \A f \in rec[r].fut : f.ev \in DOMAIN ev \cup {NoEvent}

\* A miss holds an MSHR from its start to its writeback; nobody waits for one
\* unless a miss is there to release it.
MSHRsExact ==
    /\ cache.active = Cardinality({i \in DOMAIN ev : ev[i].k = "mwb"})
                      - Cardinality({i \in DOMAIN ev : ev[i].k = "mstart"})
    /\ cache.active <= NumMSHRs
    /\ cache.pending # <<>> => cache.active > 0

\* Every weave phase ends: crossings that wait for each other's domains let each
\* other go on.
PhaseEnds == phase = "weave" ~> phase = "bound"
=============================================================================
