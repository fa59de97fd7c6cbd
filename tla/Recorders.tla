------------------------------ MODULE Recorders ------------------------------
(***************************************************************************)
(* What the cores leave for the weave phase: the recorders of timing cores *)
(* (src/src/core_recorder.cpp) and of out-of-order cores                   *)
(* (ooo_core_recorder.cpp), the timing caches that give them records of    *)
(* accesses and simulate these later (timing_cache.cpp), and the memory    *)
(* behind them (weave_md1_mem.h).                                          *)
(*                                                                         *)
(* A recorder r is a record with the fields                                *)
(*   kind   "Timing" or "OOO"                                              *)
(*   st     HALTED, RUNNING or DRAINING                                    *)
(*   cur    the core's curCycle, which the recorder adjusts                *)
(*   gap    gapCycles: curCycle - gap is the zero-load clock               *)
(*   prev   prevRespEvent of the one, lastEvProduced of the other          *)
(*   prevC  prevRespCycle of a timing core                                 *)
(*   orig, start    the last simulated event: its zero-load and its cycle  *)
(*   slack  lastStartSlack of the event recorder                           *)
(*   fut    futureResponses of an out-of-order core                        *)
(***************************************************************************)
EXTENDS TimingEvents, TLC

CONSTANTS CoreDomain, CacheDomain,              \* the domains of cores and timing cache
          L1Lat, AccLat, NetLat, MemLat,        \* latencies: L1, timing cache, network, memory
          NumMSHRs, Ways, TagLat                \* of the timing cache; its candidates are w.cands

ASSUME RecorderAssumption ==
    /\ {L1Lat, AccLat, NetLat, MemLat, TagLat} \subseteq Nat
    /\ NumMSHRs > 0 /\ Ways > 1 /\ AccLat > 0 /\ TagLat > 0

NewRecorder(k) ==
    [kind |-> k, st |-> "HALTED", cur |-> 0, gap |-> 0, prev |-> NoEvent, prevC |-> 0,
     orig |-> 0, start |-> 0, slack |-> 0, fut |-> {}]

\* new DelayEvent(delay) with its minStartCycle
Delay(w, r, delay, start) == New(w, [TimingEvent("delay", r, delay, 0, NoDomain) EXCEPT !.min = start])

\* p -> a DelayEvent -> c
Through(w, r, p, c, delay, start) == chain(Delay(w, r, delay, start), <<p, Fresh(w), c>>)

\* p -> a DelayEvent, if there is a delay -> c
Link(w, r, p, c, delay, start) ==
    IF delay = 0 THEN addChild(w, p, c) ELSE Through(w, r, p, c, delay, start)

-----------------------------------------------------------------------------
(* Timing cores *)

CoreEvent(r, delay, orig, d, start) ==
    [TimingEvent("core", r, 0, delay, d) EXCEPT !.min = start] @@ [orig |-> orig]

\* A TimingCoreEvent after prevRespEvent, which becomes the new one.
AddCoreEvent(w, r, delay) ==
    LET s == w.rec[r]
        i == Fresh(w)
        v == New(w, CoreEvent(r, delay, s.prevC - s.gap, NoDomain, s.prevC))
    IN  [addChild(v, s.prev, i) EXCEPT !.rec[r].prev = i, !.rec[r].prevC = @ + delay]

TimingJoin(w, r, glob) ==
    IF w.rec[r].st = "HALTED"
    THEN LET i == Fresh(w)
             v == New(w, CoreEvent(r, 0, glob, CoreDomain[r], glob))
         IN  Expect([queue(v, i, glob) EXCEPT
                        !.rec[r] = [@ EXCEPT !.st = "RUNNING", !.cur = glob, !.gap = 0,
                                             !.prev = i, !.prevC = glob, !.slack = 0]],
                    w.rec[r].prev = NoEvent, "notifyJoin")
    ELSE Expect([w EXCEPT !.rec[r].st = "RUNNING"], w.rec[r].cur >= glob, "notifyJoin")

\* The delay up to now, and an event without delay that ends the sequence.
TimingLeave(w, r) ==
    AddCoreEvent(AddCoreEvent([w EXCEPT !.rec[r].st = "DRAINING"], r, w.rec[r].cur - w.rec[r].prevC), r, 0)

\* Every access that leaves a record leaves that of a GET: a record of a writeback
\* alone needs a level above that records PUTs and no GETs.
TimingRecordAccess(w, r, tr) ==
    LET s == w.rec[r]
        i == Fresh(w)
        v == chain(New(w, CoreEvent(r, tr.req - s.prevC, s.prevC - s.gap, NoDomain, s.prevC)),
                   <<s.prev, i, tr.start>>)
        u == [v EXCEPT !.rec[r].prev = tr.end, !.rec[r].prevC = tr.resp]
    IN  [produceCrossings(u, s.prev) EXCEPT !.cs = <<>>]

BugTimingStart(w, r, next) ==                           \* without the event that ends the phase
    LET s == w.rec[r]
    IN  IF s.st = "RUNNING" /\ s.prevC < s.cur THEN AddCoreEvent(w, r, s.cur - s.prevC)
        ELSE [w EXCEPT !.rec[r].cur = Max2(@, next)]

\* The events reach past the end of the phase: the last one is not simulated.
TimingStart(w, r, next) ==
    LET s == w.rec[r]
        v == Expect(w, s.cur >= next, "cSimStart")
        u == IF s.prevC < s.cur THEN AddCoreEvent(v, r, s.cur - s.prevC) ELSE v
    IN  IF s.st = "RUNNING" THEN AddCoreEvent(u, r, 0)
        ELSE [w EXCEPT !.rec[r].cur = Max2(@, next)]

-----------------------------------------------------------------------------
(* Out-of-order cores *)

IssueEvent(r, pre, zll, start) ==
    [TimingEvent("issue", r, pre, 0, CoreDomain[r]) EXCEPT !.min = start] @@ [orig |-> zll]

\* The next issue event follows the last one, and every response before it.
addIssueEvent(w, r, evCycle) ==
    LET s == w.rec[r]
        zll == evCycle - s.gap
        prior == {f \in s.fut : f.zll < zll}
        linked == {f \in prior : f.ev # NoEvent}
        pre == IF linked = {} THEN 0 ELSE zll - Max({f.zll : f \in linked})
        last == w.ev[s.prev]
        i == Fresh(w)
        v == Expect(New(w, IssueEvent(r, pre, zll, evCycle)),
                    zll >= last.orig /\ \A f \in linked : f.zll >= last.orig, "addIssueEvent")
        u == FoldSet(LAMBDA f, t : addChild(t, f.ev, i), v, linked)
    IN  [Through(u, r, s.prev, i, zll - last.orig - pre, last.min) EXCEPT
            !.rec[r].prev = i, !.rec[r].fut = @ \ prior]

OOOJoin(w, r, glob) ==
    IF w.rec[r].st = "HALTED"
    THEN LET i == Fresh(w)
             v == New(w, IssueEvent(r, 0, glob, glob))
         IN  Expect([queue(v, i, glob) EXCEPT
                        !.rec[r] = [@ EXCEPT !.st = "RUNNING", !.cur = glob, !.gap = 0,
                                             !.prev = i, !.slack = 0]],
                    w.rec[r].prev = NoEvent, "notifyJoin")
    ELSE LET v == addIssueEvent(w, r, w.rec[r].cur)
         IN  Expect([v EXCEPT !.rec[r].st = "RUNNING"], w.rec[r].cur >= glob, "notifyJoin")

OOOLeave(w, r) == addIssueEvent([w EXCEPT !.rec[r].st = "DRAINING"], r, w.rec[r].cur)

\* The response of the access is remembered.
RecordResponse(w, r, tr, resp) ==
    [addChild(New(w, [TimingEvent("resp", r, resp - tr.resp, 0, CoreDomain[r]) EXCEPT !.min = resp]),
              tr.end, Fresh(w))
        EXCEPT !.rec[r].fut = @ \cup {[zll |-> resp - w.rec[r].gap, ev |-> Fresh(w)]}]

\* A dispatch event follows the last issue event and the responses before it, and
\* leads to the access.
RecordDispatch(w, r, tr, dispatch) ==
    LET s == w.rec[r]
        disp == Fresh(w)
        early == {f \in s.fut : f.zll < dispatch - s.gap /\ f.ev # NoEvent}
        v == FoldSet(LAMBDA f, t : Through(t, r, f.ev, disp, dispatch - s.gap - f.zll, Unset),
                     New(w, [TimingEvent("disp", r, 0, 0, NoDomain) EXCEPT !.min = dispatch]), early)
    IN  Through(Through(v, r, s.prev, disp, dispatch - s.cur, s.cur),
                r, disp, tr.start, tr.req - dispatch, dispatch)

OOORecordGet(w, r, tr, dispatch, resp) ==
    RecordResponse(RecordDispatch(addIssueEvent(w, r, w.rec[r].cur), r, tr, dispatch), r, tr, resp)

\* The crossings of the record, from the last issue event on.
OOOCrossings(w, r) == [produceCrossings(w, w.rec[r].prev) EXCEPT !.cs = <<>>]

OOORecordAccess(w, r, tr, dispatch, resp) == OOOCrossings(OOORecordGet(w, r, tr, dispatch, resp), r)

OOOStart(w, r, next) ==
    LET s == w.rec[r]
        v == Expect(w, s.cur > next /\ w.ev[s.prev].orig <= s.cur - s.gap, "cSimStart")
    IN  IF s.st = "RUNNING"
        THEN IF w.ev[s.prev].orig < next - s.gap THEN addIssueEvent(v, r, next) ELSE v
        ELSE [w EXCEPT !.rec[r].fut = {}, !.rec[r].cur = Max2(@, next)]

-----------------------------------------------------------------------------
(* Both kinds *)

notifyJoin(w, r, glob) == IF w.rec[r].kind = "OOO" THEN OOOJoin(w, r, glob) ELSE TimingJoin(w, r, glob)

notifyLeave(w, r) == IF w.rec[r].kind = "OOO" THEN OOOLeave(w, r) ELSE TimingLeave(w, r)

cSimStart(w, r, next) ==
    IF w.rec[r].st = "HALTED" THEN w
    ELSE IF w.rec[r].kind = "OOO" THEN OOOStart(w, r, next) ELSE TimingStart(w, r, next)

\* Responses that were simulated in this phase are forgotten.
Forget(w, fut) == {IF f.ev \in DOMAIN w.ev THEN f ELSE [f EXCEPT !.ev = NoEvent] : f \in fut}

\* The core's clock is moved by the delay that the weave phase has found.
cSimEnd(w, r) ==
    LET s == w.rec[r]
        c1 == s.orig + s.gap
        skew == s.start - c1
        v == Expect(w, c1 <= s.cur /\ s.start <= s.cur, "cSimEnd")
        u == Expect(v, skew >= 0, "negative skew")
        t == Expect(u, s.prev # NoEvent \/ s.st = "DRAINING", "cSimEnd: not tapered")
    IN  IF s.st = "HALTED" THEN w
        ELSE [t EXCEPT !.rec[r] = [@ EXCEPT !.cur = @ + skew, !.gap = @ + skew, !.prevC = @ + skew,
                                            !.fut = Forget(w, @),
                                            !.st = IF s.prev = NoEvent THEN "HALTED" ELSE @]]

\* reportEventSimulated(), reportIssueEventSimulated()
reportEventSimulated(w, i, cycle) ==
    LET e == w.ev[i]
        s == w.rec[e.r]
        last == s.prev = i
        v == Expect(w, last /\ s.kind = "Timing" => s.st = "DRAINING", "reportEventSimulated")
    IN  [v EXCEPT !.rec[e.r] = [@ EXCEPT !.orig = e.orig, !.start = cycle, !.slack = cycle - e.orig,
                                         !.prev = IF last THEN NoEvent ELSE @]]

-----------------------------------------------------------------------------
(* Memory and timing caches, in the bound phase *)

\* WeaveMD1Memory::access(), WeaveSimpleMemory::access() of a controller in domain
\* d: lat is what the weave phase adds to the latency that the bound phase assumes.
MemAccess(w, r, t, type, d, lat) ==
    [w |-> New(w, [TimingEvent("mem", r, MemLat \div 2, MemLat - MemLat \div 2, d) EXCEPT !.min = t]
                  @@ [lat |-> lat]),
     tr |-> [type |-> type, req |-> t, resp |-> t + MemLat, start |-> Fresh(w), end |-> Fresh(w)]]

CacheEvent(k, r, pre, post, t) == [TimingEvent(k, r, pre, post, CacheDomain) EXCEPT !.min = t]

HitRecord(w, r, t, type) ==
    [w |-> New(w, CacheEvent("hit", r, 0, AccLat, t)),
     tr |-> [type |-> type, req |-> t, resp |-> t + AccLat, start |-> Fresh(w), end |-> Fresh(w)]]

\* connect(): from startEv to endEv through a record of the level above.
connect(w, r, tr, startEv, endEv, start, end) ==
    LET v == Expect(w, start <= tr.req /\ tr.resp <= end, "connect")
    IN  Link(Link(v, r, startEv, tr.start, tr.req - start, start),
             r, tr.end, endEv, end - tr.resp, tr.resp)

\* The accesses to the tags that look for replacement candidates, after p.
RECURSIVE Lookups(_, _, _, _, _, _)
Lookups(w, r, p, t, sofar, fringe) ==
    LET n == (w.cands + Ways - 1) \div Ways - 1
        accs == Min({fringe, n - sofar})
        e == CacheEvent("repl", r, IF sofar = 0 THEN TagLat ELSE 0, TagLat - Min({TagLat - 1, fringe}), t)
    IN  IF sofar >= n THEN [w |-> w, p |-> p]
        ELSE Lookups(addChild(New(w, e @@ [accs |-> accs]), p, Fresh(w)), r, Fresh(w), t,
                     sofar + accs, fringe * (Ways - 1))

ReplPath(w, r, mse, mwe, t) ==
    LET l == Lookups(w, r, mse, t, 0, Ways - 1)
        rd == Fresh(l.w)
        v == New(l.w, CacheEvent("repl", r, TagLat, TagLat, t) @@ [accs |-> 1])
        wr == Fresh(v)
        u == New(v, CacheEvent("repl", r, 0, 0, t) @@ [accs |-> 1])
    IN  chain(u, <<l.p, rd, wr, mwe>>)

\* TimingCache::access() on a miss.  a.what is "none" (an upgrade of a line that is
\* there), or how the line that is replaced is evicted: "clean" or "dirty".  The
\* writeback and the access are sent together, at the same cycle; the latency of the
\* network is added to the response of the access.
MissRecord(w, r, t, a) ==
    LET mse == Fresh(w)
        w1 == New(w, CacheEvent("mstart", r, 0, AccLat, t))
        start == t + AccLat
        wb == MemAccess(w1, r, start, "PUT", a.wbMem, a.lat)
        w2 == IF a.what = "dirty" THEN wb.w ELSE w1
        evDone == IF a.what = "dirty" THEN start + MemLat ELSE start
        acc == MemAccess(w2, r, start, "GET", a.mem, a.lat)
        getDone == start + MemLat + NetLat
        mre == Fresh(acc.w)
        w3 == New(acc.w, CacheEvent("mresp", r, 0, 0, getDone))
        mwe == Fresh(w3)
        w4 == New(w3, CacheEvent("mwb", r, 0, AccLat, Max2(evDone, getDone)))
        w5 == addChild(connect(w4, r, acc.tr, mse, mre, start, getDone), mre, mwe)
        w6 == CASE a.what = "none" -> w5
                [] a.what = "clean" -> Link(w5, r, mse, mwe, evDone - start, start)
                [] a.what = "dirty" -> connect(w5, r, wb.tr, mse, mwe, start, evDone)
    IN  [w |-> IF a.what # "none" /\ w.cands > Ways THEN ReplPath(w6, r, mse, mwe, t) ELSE w6,
         tr |-> [type |-> "GET", req |-> t, resp |-> getDone, start |-> mse, end |-> mre]]

\* The writeback put and the access get begin together, at t.
RecordBoth(r, t, put, get) ==
    LET s == Fresh(get.w)
        v == Through(Delay(get.w, r, 0, t), r, s, put.start, put.req - t, t)
    IN  [w |-> Through(v, r, s, get.tr.start, get.tr.req - t, t),
         tr |-> [get.tr EXCEPT !.req = t, !.start = s]]

\* What an access of a core that misses in the L1 leaves in its recorder
\* (Cache::accessSkew()).  a.what is what the timing cache finds, a.wb says whether
\* the L1 writes back a line, too; a.mem and a.wbMem are the domains of the memory
\* controllers of the line and of the one that is replaced, a.lat is their delay.
AccessRecord(w, r, t, a) ==
    LET put == HitRecord(w, r, t + L1Lat, "PUT")
        get(v) == IF a.what = "hit" THEN HitRecord(v, r, t + L1Lat, "GET")
                  ELSE MissRecord(v, r, t + L1Lat, a)
    IN  IF a.wb THEN RecordBoth(r, t, put.tr, get(put.w)) ELSE get(w)
=============================================================================
