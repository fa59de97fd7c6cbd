---------------------------- MODULE TimingEvents ----------------------------
(***************************************************************************)
(* Timing events (src/src/timing_event.h/.cpp), the graphs that they form, *)
(* and how the contention simulator queues them (contention_sim.cpp).      *)
(*                                                                         *)
(* The operators act on a record w with the fields                         *)
(*   ev     the live events: a function from identifiers to events         *)
(*   dom    the domains: their queue pq, cycle cur and priority prio       *)
(*   rec    the cores' recorders (see Recorders)                           *)
(*   last   lastCrossing[core][source domain][destination domain]          *)
(*   cs     the crossing stack of the recorder at work                     *)
(*   inCSim, lastLimit    fields of ContentionSim                          *)
(*   live   per core, the elements its slabs count as live                 *)
(*   fail   the assertions of the code that have failed                    *)
(* An event's children are identifiers; -x stands for the source event     *)
(* that is embedded in crossing event x.                                   *)
(***************************************************************************)
EXTENDS PrioQueue

NoDomain == -1
Unset == -1             \* minStartCycle before it is set
NoEvent == 0

Max2(a, b) == IF a > b THEN a ELSE b

Expect(w, cond, what) == IF cond THEN w ELSE [w EXCEPT !.fail = @ \cup {what}]

\* The constructor and the slab allocation of operator new.
TimingEvent(k, r, pre, post, d) ==
    [k |-> k, r |-> r, st |-> "NONE", cycle |-> 0, min |-> Unset, ch |-> <<>>,
     dom |-> d, np |-> 0, pre |-> pre, post |-> post]

Fresh(w) == CHOOSE i \in 1 .. Cardinality(DOMAIN w.ev) + 1 : i \notin DOMAIN w.ev

New(w, e) == [w EXCEPT !.ev = [i \in DOMAIN @ \cup {Fresh(w)} |-> IF i \in DOMAIN @ THEN @[i] ELSE e],
                       !.live[e.r] = @ + 1]

Free(w, i) == [w EXCEPT !.ev = [j \in DOMAIN @ \ {i} |-> @[j]], !.live[w.ev[i].r] = @ - 1]

\* visitChildren(): blocks of three children, the newest block first.
VisitOrder(n) ==
    LET blocks == (n + 2) \div 3
    IN  [i \in 1 .. n |->
            LET full == n - 3 * (blocks - 1)        \* children in the newest block
            IN  IF i <= full THEN 3 * (blocks - 1) + i
                ELSE LET j == i - full - 1 IN 3 * (blocks - 2 - (j \div 3)) + (j % 3) + 1]

RECURSIVE propagateDomain(_, _, _)
propagateDomain(w, i, d) ==
    FoldLeft(LAMBDA v, c : IF v.ev[c].dom = NoDomain THEN propagateDomain(v, c, d) ELSE v,
             [w EXCEPT !.ev[i].dom = d], w.ev[i].ch)

\* The nodes of addChild() beyond the first child are elements of the slab, too;
\* they live and die with the event and are not counted here.
addChild(w, p, c) ==
    LET v == Expect(w, p \in DOMAIN w.ev, "addChild: parent is gone")
        u == Expect(v, w.ev[p].st \in {"NONE", "QUEUED"} /\ w.ev[c].st = "NONE", "addChild: state")
        t == [u EXCEPT !.ev[p].ch = Append(@, c), !.ev[c].np = @ + 1]
    IN  IF p \notin DOMAIN w.ev THEN v
        ELSE IF w.ev[p].dom # NoDomain /\ w.ev[c].dom = NoDomain
             THEN propagateDomain(t, c, w.ev[p].dom) ELSE t

\* a.addChild(b).addChild(c)...
RECURSIVE chain(_, _)
chain(w, s) == IF Len(s) < 2 THEN w ELSE chain(addChild(w, s[1], s[2]), Tail(s))

-----------------------------------------------------------------------------
\* ContentionSim::enqueueSynced(), in the bound phase.
enqueueSynced(w, i, cycle) ==
    LET d == w.ev[i].dom
        v == Expect(w, ~w.inCSim /\ cycle >= w.lastLimit /\ w.ev[i].np = 0, "enqueueSynced")
    IN  [v EXCEPT !.dom[d].pq = enqueue(@, i, cycle)]

\* ContentionSim::enqueue(), in the weave phase.
Enqueue(w, i, cycle) ==
    LET d == w.ev[i].dom
        v == Expect(w, /\ w.inCSim /\ cycle >= w.lastLimit /\ w.ev[i].np = 0
                       /\ cycle >= w.dom[d].cur, "enqueue")
    IN  [v EXCEPT !.dom[d].pq = enqueue(@, i, cycle)]

queue(w, i, cycle) ==
    enqueueSynced(Expect([w EXCEPT !.ev[i].st = "QUEUED"],
                         w.ev[i].st = "NONE" /\ w.ev[i].np = 0, "queue"), i, cycle)

requeue(w, i, cycle) ==
    Enqueue(Expect([w EXCEPT !.ev[i].st = "QUEUED"],
                   w.ev[i].st \in {"RUNNING", "HELD"} /\ w.ev[i].np = 0, "requeue"), i, cycle)

\* CrossingEvent::markSrcEventDone(), and the embedded source event's done(),
\* which frees an element of the slab that was never allocated.
markSrcEventDone(w, x, cycle) ==
    LET v == Expect(w, /\ x \in DOMAIN w.ev /\ ~w.ev[x].called
                       /\ cycle >= w.dom[w.ev[x].src].cur, "markSrcEventDone")
    IN  IF x \notin DOMAIN w.ev THEN v
        ELSE [v EXCEPT !.ev[x].called = TRUE, !.ev[x].doneCycle = cycle,
                       !.live[w.ev[x].r] = @ - 1]

RECURSIVE parentDone(_, _, _), done(_, _, _)

done(w, i, cycle) ==
    LET v == Expect(w, w.ev[i].st = "RUNNING", "done")
        ch == w.ev[i].ch
        order == VisitOrder(Len(ch))
    IN  Free(FoldLeft(LAMBDA u, n : parentDone(u, ch[n], cycle + w.ev[i].post), v, order), i)

parentDone(w, i, start) ==
    LET e == w.ev[i]
        cycle == Max2(e.cycle, IF e.k = "x" THEN Max2(start, e.min) ELSE start)
        v == [w EXCEPT !.ev[i].cycle = cycle, !.ev[i].np = @ - 1]
    IN  IF i < 0 THEN markSrcEventDone(w, -i, start)
        ELSE IF i \notin DOMAIN w.ev \/ e.np = 0 THEN Expect(w, FALSE, "parentDone")
        ELSE IF e.k = "delay" THEN
            IF v.ev[i].np > 0 THEN v
            ELSE done([v EXCEPT !.ev[i].st = "RUNNING"], i, cycle + e.pre)
        ELSE LET u == IF e.k = "x" /\ e.called /\ e.doneCycle < Max2(start, e.min)
                      THEN [v EXCEPT !.ev[i].doneCycle = Max2(start, e.min)] ELSE v
             IN  IF u.ev[i].np > 0 THEN u
                 ELSE Enqueue(Expect([u EXCEPT !.ev[i].st = "QUEUED"], e.st = "NONE", "parentDone: state"),
                              i, cycle + e.pre)

-----------------------------------------------------------------------------
\* Is the last crossing still to come, so that the new one can follow it?
Chains(w, l, src, cycle) == l.cycle > w.dom[src].cur /\ l.cycle <= cycle

\* ContentionSim::enqueueCrossing()
enqueueCrossing(w, x, cycle) ==
    LET e == w.ev[x]
        top == w.ev[w.cs[Len(w.cs)]]
        isResp == w.cs # <<>> /\ top.src = e.dom /\ top.dom = e.src
        l == w.last[e.r][e.src][e.dom]
        u == [w EXCEPT !.cs = Append(@, x), !.last[e.r][e.src][e.dom] = [cycle |-> cycle, ev |-> x]]
    IN  IF isResp THEN addChild([w EXCEPT !.cs = Front(@)], top.par, x)
        ELSE IF Chains(w, l, e.src, cycle) THEN addChild(u, l.ev, x)
        ELSE enqueueSynced(Expect(u, cycle >= w.dom[e.src].cur, "enqueueCrossing"), x, cycle)

BugUnlink(w, c) == w                                    \* the child keeps its old parent

\* A child that gets a crossing as its parent loses the one that it had.
Unlink(w, c) == [w EXCEPT !.ev[c].np = @ - 1]

\* The constructor of CrossingEvent, called by handleCrossing().
NewCrossing(w, p, c) ==
    LET r == w.ev[p].r
        parent == w.ev[p]
        pad == IF parent.post = 0 THEN 1 ELSE 0             \* there is always some preSlack
        start == parent.min + parent.post + pad
        x == Fresh(w)
        v == Expect(w, parent.min # Unset, "handleCrossing: minStartCycle is not set")
        e == TimingEvent("x", r, 0, 0, w.ev[c].dom) @@
             [src |-> parent.dom, called |-> FALSE, doneCycle |-> 0, par |-> p,
              preSlack |-> parent.post + pad, postSlack |-> w.ev[c].pre,
              orig |-> start - w.rec[r].gap]
    IN  enqueueCrossing(addChild(New(Unlink(v, c), [e EXCEPT !.min = start]), x, c),
                        x, Max2(w.lastLimit, start))

\* A child in another domain is replaced by the source event of a crossing; the
\* walk goes on from the child.  A response adds a child to an event that is being
\* walked, which the walk only meets if it is put into the block at hand.
RECURSIVE produceCrossings(_, _)
produceCrossings(w, i) ==
    LET visit(v, n) ==
            LET c == v.ev[i].ch[n]
                x == Fresh(v)
            IN  IF c < 0 THEN v
                ELSE IF v.ev[c].dom # v.ev[i].dom
                     THEN produceCrossings([NewCrossing(v, i, c) EXCEPT !.ev[i].ch[n] = -x], c)
                     ELSE produceCrossings(v, c)
        before == Len(w.ev[i].ch)
        walked == FoldLeft(visit, w, VisitOrder(before))
        after == Len(walked.ev[i].ch)
    IN  Expect(walked, before < 2 \/ after = before \/ after <= 3, "visitChildren")

BugRetryCycle(w, x, simCycle) ==                        \* without the slack
    LET e == w.ev[x] IN Max2(e.orig + w.rec[e.r].slack, Max2(w.dom[e.src].cur, simCycle))

\* CrossingEvent::simulate(), up to the second look at called: the cycle at which
\* to try again.
RetryCycle(w, x, simCycle) ==
    LET e == w.ev[x]
    IN  Max2(e.orig + w.rec[e.r].slack + e.postSlack,
             Max2(w.dom[e.src].cur + e.preSlack + e.postSlack, simCycle))

simulateCrossing(w, x, cycle) ==
    done([w EXCEPT !.dom[w.ev[x].dom].prio = 0], x, Max2(cycle, w.ev[x].doneCycle))

holdCrossing(w, x, simCycle, next) ==
    requeue([w EXCEPT !.dom[w.ev[x].dom].prio = IF next = simCycle THEN 1 ELSE 2,
                      !.ev[x].np = 0], x, next)
=============================================================================
