----------------------------- MODULE OOOPipeline -----------------------------
(***************************************************************************)
(* The pipeline of an out-of-order core (src/src/ooo_core.h, ooo_core.cpp):*)
(* the instruction window, the reorder buffer and the load, store and      *)
(* micro-operation queues, the branch predictor, and what they do with one *)
(* micro-operation.                                                        *)
(*                                                                         *)
(* A pipeline p is a record with the fields                                *)
(*   cur, dec     curCycle (of issue) and decodeCycle                      *)
(*   cw, nw, ub   curWin, nextWin and ubWin: the ports that are taken in a *)
(*                cycle and how many operations are dispatched in it       *)
(*   pos, occ     curPos and occupancy of the window                       *)
(*   rob, lq, sq  reorder buffer, load and store queue                     *)
(*   uq           the cycles at which the last operations left the queue   *)
(*   reg          regScoreboard: when a register can be read               *)
(*   fwd          fwdArray: the last stores, for forwarding                *)
(*   st, sta      lastStoreCommitCycle and lastStoreAddrCommitCycle        *)
(*   rf, iss      register reads and issued operations in this cycle       *)
(*   bhsr, pht    histories of the branches and the counters               *)
(*   ok           the assertions have held so far                          *)
(***************************************************************************)
EXTENDS Decoder, FiniteSetsExt

CONSTANTS
    H, WSZ,                                     \* the window: horizon and size
    RobSize, LoadQueueSize, StoreQueueSize, UopQueueSize,
    RetireWidth, IssueWidth, RFReads,           \* per cycle
    FwdEntries,
    IssueToDispatch, FetchToDecode, L1DLat,     \* the stages
    LoadExtra,                                  \* added to every load (ooo_core.cpp:294)
    HB, LB                                      \* bits of history, and of an index of pht

ASSUME PipelineAssumption ==
    /\ {H, WSZ, RobSize, LoadQueueSize, StoreQueueSize, UopQueueSize, RetireWidth, IssueWidth, RFReads,
        FwdEntries, HB, LB} \subseteq Nat \ {0}
    /\ {IssueToDispatch, FetchToDecode, L1DLat, LoadExtra} \subseteq Nat
    /\ LB <= HB

NoAddr == -1                                    \* of a predicated access that is not executed

Larger(a, b) == IF a > b THEN a ELSE b

-----------------------------------------------------------------------------
(* WindowStructure *)

Idle == [units |-> {}, n |-> 0]

BugRebase(p) ==                                 \* takes what is due one block later
    [p EXCEPT !.cw = p.nw, !.pos = 0,
              !.nw = [k \in 0 .. H - 1 |-> IF p.cur + k \in DOMAIN p.ub THEN p.ub[p.cur + k] ELSE p.cw[k]],
              !.ub = [c \in {c \in DOMAIN p.ub : c >= p.cur + H} |-> p.ub[c]]]

\* The next block becomes the current one, and ubWin fills the block after it.
Rebase(p) ==
    [p EXCEPT !.cw = p.nw, !.pos = 0,
              !.nw = [k \in 0 .. H - 1 |->
                        IF p.cur + H + k \in DOMAIN p.ub THEN p.ub[p.cur + H + k] ELSE p.cw[k]],
              !.ub = [c \in {c \in DOMAIN p.ub : c >= p.cur + 2 * H} |-> p.ub[c]],
              !.ok = @ /\ \A c \in DOMAIN p.ub : c >= p.cur + H]

advancePos(p) ==
    LET q == [p EXCEPT !.occ = @ - p.cw[p.pos].n, !.cw[p.pos] = Idle, !.pos = @ + 1, !.cur = @ + 1]
    IN  IF q.pos = H THEN Rebase(q) ELSE q

\* At most n calls of advancePos(), while the number of operations in the window is
\* one of these.
AdvanceWhile(p, n, occs) ==
    LET after[k \in 0 .. n] ==
            IF k = 0 THEN p
            ELSE LET q == after[k - 1] IN IF q.occ \in occs THEN advancePos(q) ELSE q
    IN  after[n]

AdvanceBy(p, n) == AdvanceWhile(p, n, Int)

\* What is known of the cycle c, from curCycle on.
SlotAt(p, c) ==
    LET o == c - p.cur + p.pos IN
    IF o < H THEN p.cw[o] ELSE IF o < 2 * H THEN p.nw[o - H]
    ELSE IF c \in DOMAIN p.ub THEN p.ub[c] ELSE Idle

SetSlot(p, c, s) ==
    LET o == c - p.cur + p.pos IN
    IF o < H THEN [p EXCEPT !.cw[o] = s] ELSE IF o < 2 * H THEN [p EXCEPT !.nw[o - H] = s]
    ELSE [p EXCEPT !.ub = [d \in {c} \cup DOMAIN @ |-> IF d = c THEN s ELSE @[d]]]

\* A cycle from which on nothing is scheduled.
Beyond(p) == Max({p.cur + 2 * H} \cup DOMAIN p.ub) + 1

\* The first cycle from c on in which one of the ports is free.
FirstFree(p, c, ports) ==
    Min({d \in c .. Larger(c, Beyond(p)) : ports \ SlotAt(p, d).units # {}})

MakeRoom(p) == AdvanceWhile(p, Beyond(p) - p.cur, {WSZ})

\* Takes the lowest of the ports that is free in the cycle at, for n operations.
TakePort(p, at, ports, n) ==
    LET s == SlotAt(p, at)
        port == Min(ports \ s.units)
    IN  [p |-> [SetSlot(p, at, [units |-> s.units \cup {port}, n |-> s.n + n]) EXCEPT !.occ = @ + n],
         at |-> at, port |-> port]

\* scheduleInternal() from the cycle c on.  A shadow (n = 0) takes a port, but
\* nothing is dispatched.
ScheduleInternal(p, c, ports, n) == TakePort(p, FirstFree(p, Larger(c, p.cur), ports), ports, n)

\* The operation s keeps its port for some more cycles.
Shadowed(s, extra) ==
    LET shadows[k \in 0 .. extra] ==
            IF k = 0 THEN s
            ELSE ScheduleInternal(shadows[k - 1].p, shadows[k - 1].at + 1, {s.port}, 0)
        q == shadows[extra].p
    IN  [s EXCEPT !.p = [q EXCEPT !.ok = @ /\ q.occ <= WSZ]]

schedule(p, c, ports, extra) == Shadowed(ScheduleInternal(MakeRoom(p), c, ports, 1), extra)

\* longAdvance(): when the window is empty, the rest is a jump.
LongAdvance(p, target) ==
    LET q == AdvanceWhile(p, target - p.cur, Int \ {0})
    IN  [q EXCEPT !.cur = target, !.ok = @ /\ (q.occ > 0 => q.cur = target)]

-----------------------------------------------------------------------------
(* ReorderBuffer and CycleQueue *)

NewBuffer(size) == [buf |-> [k \in 0 .. size - 1 |-> 0], idx |-> 0, cyc |-> 0, n |-> 1]

minAllocCycle(b) == b.buf[b.idx]

Push(b, c) == [b EXCEPT !.buf[b.idx] = c, !.idx = (@ + 1) % Cardinality(DOMAIN b.buf)]

BugMarkRetire(b, c) == Push([b EXCEPT !.cyc = c, !.n = 1], c)   \* not in program order

\* An operation retires with the ones before it, or later.
markRetire(b, c) ==
    LET r == IF c > b.cyc THEN [b EXCEPT !.cyc = c, !.n = 1]
             ELSE IF b.n = RetireWidth THEN [b EXCEPT !.cyc = @ + 1, !.n = 0]
             ELSE [b EXCEPT !.n = @ + 1]
    IN  Push(r, r.cyc)

-----------------------------------------------------------------------------
(* BranchPredictorPAg: a history of HB outcomes, newest first, for every   *)
(* branch; folded to LB bits it selects a counter.                         *)

PhtIdx(h) ==
    [k \in 0 .. LB - 1 |-> h[k] # (k + HB - LB >= LB /\ h[k + HB - LB])]

predicts(p, pc) == p.pht[PhtIdx(p.bhsr[pc])] > 1

\* Whether the prediction was right, and what the predictor learns.
Predict(p, pc, taken) ==
    LET k == PhtIdx(p.bhsr[pc])
        pred == predicts(p, pc)
    IN  [p EXCEPT !.pht[k] = IF taken THEN (IF pred THEN 3 ELSE @ + 1) ELSE (IF pred THEN @ - 1 ELSE 0),
                  !.bhsr[pc] = [j \in 0 .. HB - 1 |-> IF j = 0 THEN taken ELSE @[j - 1]]]

-----------------------------------------------------------------------------
(* One micro-operation of bbl() *)

NewPipeline(Pcs) ==
    [cur |-> 0, dec |-> FetchToDecode + 1,
     cw |-> [k \in 0 .. H - 1 |-> Idle], nw |-> [k \in 0 .. H - 1 |-> Idle], ub |-> <<>>, pos |-> 0, occ |-> 0,
     rob |-> NewBuffer(RobSize), lq |-> NewBuffer(LoadQueueSize), sq |-> NewBuffer(StoreQueueSize),
     uq |-> NewBuffer(UopQueueSize), reg |-> [r \in Registers |-> 0],
     fwd |-> [k \in 0 .. FwdEntries - 1 |-> [addr |-> NoAddr, cyc |-> 0]],
     st |-> 0, sta |-> 0, rf |-> 0, iss |-> 0,
     bhsr |-> [pc \in Pcs |-> [k \in 0 .. HB - 1 |-> FALSE]],
     pht |-> [h \in [0 .. LB - 1 -> BOOLEAN] |-> 1], ok |-> TRUE]

NewCycle(p) == [p EXCEPT !.rf = 0, !.iss = 0]

\* The decoders, and the queue of operations behind them: issue waits for them.
DecodeUop(p, u, prevDec) ==
    LET d == Larger(p.dec + u.dec - prevDec, minAllocCycle(p.uq))
        q == IF d > p.cur THEN AdvanceBy(NewCycle(p), d - p.cur) ELSE p
    IN  [q EXCEPT !.dec = d, !.uq = Push(@, q.cur), !.ok = @ /\ u.dec >= prevDec]

\* The widths of issue and of the register file.
IssueUop(p0, u) ==
    LET p == IF p0.iss >= IssueWidth THEN advancePos(NewCycle(p0)) ELSE p0
        q == [p EXCEPT !.iss = @ + 1, !.reg[0] = p.cur]
        reads == q.rf + Cardinality({k \in {1, 2} : q.reg[u.rs[k]] < q.cur})
    IN  IF reads > RFReads THEN advancePos([q EXCEPT !.rf = reads - RFReads, !.iss = 0])
        ELSE [q EXCEPT !.rf = reads]

\* The window may have moved on to make room.
Dispatched(p, s) == IF s.p.cur > p.cur THEN [s EXCEPT !.p = NewCycle(@)] ELSE s

\* Operands, reorder buffer, stages, and a port.
DispatchUop(p, u) ==
    LET ops == Larger(p.reg[u.rs[1]], p.reg[u.rs[2]])
        from == Larger(ops, Larger(minAllocCycle(p.rob), p.cur) + IssueToDispatch)
    IN  Dispatched(p, schedule(p, from, u.ports, u.extra))

FwdIdx(a) == a % FwdEntries

\* Loads and stores wait for a place in their queue and for the addresses of
\* all stores before them.
MemDispatch(p, queue, c) == Larger(p.sta + 1, Larger(minAllocCycle(queue), c))

LoadUop(p, a, c, lat) ==
    LET d == MemDispatch(p, p.lq, c)
        answer == IF a = NoAddr THEN d ELSE d + lat + L1DLat + LoadExtra
        f == p.fwd[FwdIdx(a)]
        commit == IF f.addr = a THEN Larger(answer, f.cyc) ELSE answer
    IN  [p |-> [p EXCEPT !.lq = markRetire(@, commit)], at |-> d, commit |-> commit]

StoreUop(p, a, c, lat) ==
    LET d == MemDispatch(p, p.sq, c)
        commit == d + lat + L1DLat
    IN  [p |-> [p EXCEPT !.fwd[FwdIdx(a)] = [addr |-> a, cyc |-> commit], !.st = Larger(@, commit),
                         !.sq = markRetire(@, commit)],
         at |-> d, commit |-> commit]

StoreAddrUop(p, c, lat) ==
    [p |-> [p EXCEPT !.sta = Larger(@, c + lat)], at |-> c, commit |-> c + lat]

BugFenceUop(p, c, lat) ==                       \* does not wait for the stores before it
    [p |-> [p EXCEPT !.sta = Larger(@, c + lat)], at |-> c, commit |-> c + lat]

\* Later loads wait for all stores before the fence.
FenceUop(p, c, lat) ==
    [p |-> [p EXCEPT !.sta = Larger(c + lat, Larger(@, p.st + lat))], at |-> c, commit |-> c + lat]

\* The end of an operation u that was scheduled as s and executed as x.
RetireUop(u, s, x) ==
    [p |-> [x.p EXCEPT !.rob = markRetire(@, x.commit),
                       !.reg = [@ EXCEPT ![u.rd[1]] = x.commit, ![u.rd[2]] = x.commit]],
     slot |-> <<s.at, s.port>>, at |-> x.at, commit |-> x.commit]

\* With the address a of a load or a store, which the memory takes lat cycles for.
ExecuteUop(u, s, a, lat) ==
    RetireUop(u, s, CASE u.type = "GENERAL" -> [p |-> s.p, at |-> s.at, commit |-> s.at + u.lat]
                      [] u.type = "LOAD" -> LoadUop(s.p, a, s.at, lat)
                      [] u.type = "STORE" -> StoreUop(s.p, a, s.at, lat)
                      [] u.type = "STORE_ADDR" -> StoreAddrUop(s.p, s.at, u.lat)
                      [] u.type = "FENCE" -> FenceUop(s.p, s.at, u.lat))

RunUop(p, u, prevDec, a, lat) ==
    ExecuteUop(u, DispatchUop(IssueUop(DecodeUop(p, u, prevDec), u), u), a, lat)
=============================================================================
