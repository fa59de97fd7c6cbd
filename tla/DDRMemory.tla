------------------------------ MODULE DDRMemory ------------------------------
(***************************************************************************)
(* The DDR controller of one channel (ddr_mem.cpp).  It is event driven:   *)
(* requests arrive as events of the weave phase, a refresh event comes at  *)
(* fixed intervals, and one SchedEvent at a time is the alarm clock of the *)
(* scheduler, which issues at most one column access when it rings.  An    *)
(* alarm that has to ring earlier is annulled and another one is set.      *)
(*                                                                         *)
(* The controller counts memory cycles, the events come in system cycles.  *)
(* Activations are not events: when a column access is issued, the cycle   *)
(* of the activation it needs is computed, possibly in the past.           *)
(***************************************************************************)
EXTENDS Integers, Sequences, FiniteSets, SequencesExt, FiniteSetsExt

CONSTANTS SysFreq,              \* system cycles in the time of setup.timing.freq memory cycles
          ActWindowSize,        \* 4: "we only model FAW; for TAW change this to 2"
          Sizes,                \* columns, ranks and banks: powers of two
          Setups,               \* timing, queueDepth, rowHitLimit, deferredWrites, closedPage, mapping;
                                \* accesses are the lines and the kinds of access that are examined,
                                \* and max bounds the number of requests
          Gaps,                 \* bound: system cycles from one event to an arrival
          MaxRefreshes          \* bound

TimingFields == {"tBL", "tCL", "tRCD", "tRTP", "tRP", "tRRD", "tRAS", "tFAW", "tWTR", "tWR", "tRFC", "tREFI", "freq"}

\* What the constants are meant to be.
ConstantsFit ==
    /\ ActWindowSize \in Nat \ {0, 1}
    /\ \A s \in Setups : /\ s.timing \in [TimingFields -> Nat \ {0}]
                         /\ s.timing.tRFC >= s.timing.tRP
                         /\ s.timing.freq < SysFreq \div 2
                         /\ s.queueDepth >= 1 /\ s.mapping \in SetToSeqs({"col", "rank", "bank"})

VARIABLES setup,
          now,                  \* the system cycle of the last event
          mc,                   \* the controller
          trace                 \* the commands given to the devices, with their cycles

vars == <<setup, now, mc, trace>>

\* initTech(): the timing of a technology in memory cycles, the burst for the size of a line,
\* and the frequency in MHz.
initTech(tech, lineSize) ==
    LET burst == IF lineSize = 32 THEN 2 ELSE (lineSize * 4) \div 64
        common == [tBL |-> burst, tRRD |-> 4]
    IN  common @@ CASE tech = "DDR3-1333-CL10" ->
                         [tCL |-> 10, tRCD |-> 10, tRTP |-> 5, tRP |-> 10, tRAS |-> 24, tFAW |-> 20, tWTR |-> 5,
                          tWR |-> 10, tRFC |-> 74, tREFI |-> 5200, freq |-> 666]
                    [] tech = "DDR3-1066-CL7" ->
                         [tCL |-> 7, tRCD |-> 7, tRTP |-> 4, tRP |-> 7, tRAS |-> 18, tFAW |-> 18, tWTR |-> 4,
                          tWR |-> 7, tRFC |-> 59, tREFI |-> 4160, freq |-> 533]
                    [] tech = "DDR3-1066-CL8" ->
                         [tCL |-> 8, tRCD |-> 8, tRTP |-> 4, tRP |-> 8, tRAS |-> 20, tFAW |-> 20, tWTR |-> 4,
                          tWR |-> 8, tRFC |-> 59, tREFI |-> 4160, freq |-> 533]

\* The timing of the devices, in memory cycles.
T == setup.timing

Never == 1000000                \* -1ul
RankIds == 0 .. Sizes.rank - 1
BankIds == 0 .. Sizes.bank - 1

-----------------------------------------------------------------------------
(* Clocks and addresses *)

sysToMemCycle(c) == (c * T.freq) \div SysFreq + 1
memToSysCycle(m) == ((m + 1) * SysFreq) \div T.freq
matchingMemToSysCycle(m) == (((2 * m - 1) * SysFreq) \div T.freq) \div 2

\* The fields of an address from the highest to the lowest, the row above them.
Below(f) == LET at == CHOOSE i \in 1 .. 3 : setup.mapping[i] = f
            IN  FoldSeq(LAMBDA g, n : Sizes[g] * n, 1, SubSeq(setup.mapping, at + 1, 3))

mapLineAddr(line) ==
    [row |-> line \div (Sizes.col * Sizes.rank * Sizes.bank)]
        @@ [f \in {"col", "rank", "bank"} |-> (line \div Below(f)) % Sizes[f]]

-----------------------------------------------------------------------------
(* The state of the controller *)

ClosedBank == [openRow |-> 0, open |-> FALSE, minPre |-> 0, lastAct |-> 0, lastCmd |-> 0,
               curRowHits |-> 0, rdReqs |-> <<>>, wrReqs |-> <<>>]

\* lastCmdWasWrite is not initialised.
Idle(wasWrite) ==
    [banks |-> [r \in RankIds |-> [b \in BankIds |-> ClosedBank]],
     window |-> [r \in RankIds |-> [i \in 1 .. ActWindowSize |-> 0]],
     minResp |-> T.tCL + T.tBL + 1, wasWrite |-> wasWrite,
     rdQueue |-> <<>>, wrQueue |-> <<>>, overflow |-> <<>>,
     reqs |-> <<>>, done |-> <<>>,
     events |-> <<>>, free |-> <<>>, nextEvent |-> 0, nextSched |-> Never,
     refreshAt |-> 0, refreshes |-> 0, failed |-> {}]

Bank(s, r) == s.banks[r.loc.rank][r.loc.bank]
Full(s) == setup.queueDepth \in {Len(s.rdQueue), Len(s.wrQueue)}
Deferred(r) == setup.deferredWrites /\ r.write
Kind(r) == IF Deferred(r) THEN "wrReqs" ELSE "rdReqs"
BankQueue(s, r) == Bank(s, r)[Kind(r)]
FirstInBank(s, i) == Head(BankQueue(s, s.reqs[i])) = i
Check(s, holds, what) == IF holds THEN s ELSE [s EXCEPT !.failed = @ \cup {what}]

-----------------------------------------------------------------------------
(* When a request can have its column access *)

RowHit(bank, r) == bank.open /\ bank.openRow = r.loc.row

ActCycle(s, r) ==
    LET bank == Bank(s, r)
        pre == IF bank.open THEN Max({r.arrival, bank.minPre}) ELSE bank.minPre
    IN  Max({r.arrival, pre + T.tRP, bank.lastAct + T.tRRD, Head(s.window[r.loc.rank]) + T.tFAW})

findMinCmdCycle(s, r) ==
    IF RowHit(Bank(s, r), r) THEN Max({r.arrival, Bank(s, r).lastCmd + 1})
    ELSE ActCycle(s, r) + T.tRCD

-----------------------------------------------------------------------------
(* Queueing *)

BugPlace(q, bank, reqs, r) ==                           \* row hits are not counted
    LET same == {k \in DOMAIN q : reqs[q[k]].loc.row = r.loc.row}
    IN  <<IF same # {} THEN Max(same) ELSE Len(q), 0>>

\* Where queue() puts a request in the queue of its bank: after the last request for
\* the same row, or last if that row has had its share; and its place in the row hits.
Place(q, bank, reqs, r) ==
    LET same == {k \in DOMAIN q : reqs[q[k]].loc.row = r.loc.row}
        last == Max(same)
    IN  IF same # {}
        THEN IF reqs[q[last]].hits < setup.rowHitLimit THEN <<last, reqs[q[last]].hits + 1>>
             ELSE <<Len(q), 0>>
        ELSE <<Len(q), IF RowHit(bank, r) /\ bank.curRowHits < setup.rowHitLimit /\ q = <<>>
                       THEN bank.curRowHits + 1 ELSE 0>>

\* queue(): a write is answered at once.
QueueRequest(s, i, memCycle) ==
    LET r == s.reqs[i]
        q == BankQueue(s, r)
        p == Place(q, Bank(s, r), s.reqs, r)
        behind == {q[k] : k \in p[1] + 1 .. Len(q)}
    IN  [s EXCEPT !.done = IF r.write THEN @ @@ (i :> memToSysCycle(memCycle)) ELSE @,
                  !.reqs = [j \in DOMAIN @ |->
                              IF j = i THEN [r EXCEPT !.arrival = memCycle, !.hits = p[2], !.ahead = Len(q)]
                              ELSE IF j \in behind THEN [@[j] EXCEPT !.overtaken = @ + 1] ELSE @[j]],
                  !.banks[r.loc.rank][r.loc.bank][Kind(r)] = InsertAt(q, p[1] + 1, i),
                  !.rdQueue = IF Deferred(r) THEN @ ELSE Append(@, i),
                  !.wrQueue = IF Deferred(r) THEN Append(@, i) ELSE @]

\* The alarm is set to cycle; an earlier alarm is annulled, and events are recycled.
SetAlarm(s, cycle, sysCycle) ==
    LET e == IF s.free # <<>> THEN Head(s.free) ELSE Len(s.events) + 1
        annulled == IF s.nextEvent = 0 THEN s.events
                    ELSE [s.events EXCEPT ![s.nextEvent].state = "ANNULLED"]
        set == [state |-> "QUEUED", cycle |-> Max({matchingMemToSysCycle(cycle), sysCycle})]
    IN  [Check(s, s.nextEvent = 0 \/ s.events[s.nextEvent].state = "QUEUED", "annul")
            EXCEPT !.events = IF e \in DOMAIN annulled THEN [annulled EXCEPT ![e] = set]
                              ELSE Append(annulled, set),
                   !.free = IF @ = <<>> THEN @ ELSE Tail(@),
                   !.nextEvent = e, !.nextSched = cycle]

\* enqueue(): a request goes to the overflow queue when either queue is full.
Enqueue(s, line, write, sysCycle) ==
    LET memCycle == sysToMemCycle(sysCycle)
        i == Len(s.reqs) + 1
        req == [loc |-> mapLineAddr(line), write |-> write, arrival |-> memCycle, start |-> sysCycle,
                hits |-> 0, ahead |-> 0, overtaken |-> 0]
        s1 == [s EXCEPT !.reqs = Append(@, req)]
        s2 == QueueRequest(s1, i, memCycle)
        bus == Max({memCycle, s.minResp - T.tCL - T.tBL})
        wanted == IF s.nextSched > bus THEN Max({bus, findMinCmdCycle(s2, s2.reqs[i])}) ELSE bus
    IN  IF Full(s) THEN [s1 EXCEPT !.overflow = Append(@, i)]
        ELSE IF FirstInBank(s2, i) /\ s.nextSched > wanted THEN SetAlarm(s2, wanted, sysCycle)
        ELSE s2

-----------------------------------------------------------------------------
(* Scheduling: first ready, first come first served *)

prioWrites(s) == \/ Len(s.wrQueue) > (3 * setup.queueDepth) \div 4
                 \/ s.wasWrite /\ Len(s.wrQueue) > setup.queueDepth \div 4

\* ActWindow::addActivation(): activations may be recorded out of order.  The loop
\* looks for the place from the newest one back; when all that remain are newer,
\* it goes on to the slot of the oldest, which by then holds the newest.
addActivation(window, act) ==
    LET n == Len(window)
        older == {j \in 2 .. n : window[j] <= act}
    IN  IF older = {} THEN <<window[n]>> \o SubSeq(window, 2, n - 1) \o <<act>>
        ELSE SubSeq(window, 2, Max(older)) \o <<act>> \o SubSeq(window, Max(older) + 1, n)

\* The cycle of the column access of a request that is ready at cycle.
CmdCycle(s, r, cycle) ==
    Max({cycle, s.minResp - T.tCL,
         IF s.wasWrite /\ ~r.write THEN s.minResp + T.tWTR ELSE 0,
         IF RowHit(Bank(s, r), r) THEN 0 ELSE ActCycle(s, r) + T.tRCD})

BugAfterCmd(bank, r, cmd, reqs) ==                      \* minPreCycle is not monotonic
    LET q == bank[Kind(r)]
        closes == setup.closedPage /\ ~(Len(q) > 1 /\ reqs[q[2]].hits # 0)
    IN  [bank EXCEPT !.open = ~closes, !.openRow = r.loc.row,
                     !.minPre = Max({bank.lastAct + T.tRAS, IF r.write THEN cmd + T.tCL + T.tBL + T.tWR ELSE cmd + T.tRTP}),
                     !.lastCmd = cmd, !.curRowHits = r.hits, ![Kind(r)] = Tail(q)]

\* The bank after the column access; bank is as activated.
AfterCmd(bank, r, cmd, reqs) ==
    LET q == bank[Kind(r)]
        closes == setup.closedPage /\ ~(Len(q) > 1 /\ reqs[q[2]].hits # 0)
    IN  [bank EXCEPT !.open = ~closes, !.openRow = r.loc.row,
                     !.minPre = Max({@, bank.lastAct + T.tRAS,
                                     IF r.write THEN cmd + T.tCL + T.tBL + T.tWR ELSE cmd + T.tRTP}),
                     !.lastCmd = cmd, !.curRowHits = r.hits, ![Kind(r)] = Tail(q)]

\* The part of trySchedule() that issues request i.
Issue(s, i, cycle, sysCycle) ==
    LET r == s.reqs[i]
        old == Bank(s, r)
        hit == RowHit(old, r)
        act == ActCycle(s, r)
        cmd == CmdCycle(s, r, cycle)
        resp == cmd + T.tCL + T.tBL
        pre == Max({r.arrival, old.minPre})
        bank == IF hit THEN old
                ELSE [old EXCEPT !.lastAct = act, !.minPre = IF old.open THEN pre + T.tRAS ELSE @]
        s1 == Check(Check(Check(s, hit \/ Head(s.window[r.loc.rank]) <= act, "tFAW"),
                          old.lastCmd < cmd, "lastCmdCycle"),
                    r.write \/ memToSysCycle(resp) >= sysCycle, "doneSysCycle")
    IN  [s1 EXCEPT !.banks[r.loc.rank][r.loc.bank] = AfterCmd(bank, r, cmd, s.reqs),
                   !.window[r.loc.rank] = IF hit THEN @ ELSE addActivation(@, act),
                   !.minResp = resp, !.wasWrite = r.write,
                   !.done = IF r.write THEN @
                            ELSE @ @@ (i :> memToSysCycle(resp) - memToSysCycle(T.tCL + T.tBL - 1)),
                   !.rdQueue = IF Deferred(r) THEN @ ELSE SelectSeq(@, LAMBDA j : j # i),
                   !.wrQueue = IF Deferred(r) THEN SelectSeq(@, LAMBDA j : j # i) ELSE @]

Commands(s, i, cycle) ==
    LET r == s.reqs[i]
        at == [rank |-> r.loc.rank, bank |-> r.loc.bank, row |-> r.loc.row]
    IN  (IF RowHit(Bank(s, r), r) THEN <<>> ELSE <<[cmd |-> "ACT", cycle |-> ActCycle(s, r)] @@ at>>)
            \o <<[cmd |-> IF r.write THEN "WR" ELSE "RD", cycle |-> CmdCycle(s, r, cycle)] @@ at>>

\* The state after an issue, when to come back, and the commands issued.
Issued(s, cmds) ==
    [s |-> s, cmds |-> cmds, next |-> IF s.rdQueue = <<>> /\ s.wrQueue = <<>> THEN Never ELSE s.minResp - T.tCL]

\* trySchedule(): the state, when to come back, and the commands issued.
trySchedule(s, cycle, sysCycle) ==
    LET queue == IF s.rdQueue = <<>> \/ prioWrites(s) THEN s.wrQueue ELSE s.rdQueue
        first == {k \in DOMAIN queue : FirstInBank(s, queue[k])}
        ready == {k \in first : findMinCmdCycle(s, s.reqs[queue[k]]) <= cycle}
        i == queue[Min(ready)]
    IN  IF s.rdQueue = <<>> /\ s.wrQueue = <<>> THEN [s |-> s, next |-> Never, cmds |-> <<>>]
        ELSE IF cycle + T.tCL < s.minResp THEN [s |-> s, next |-> s.minResp - T.tCL, cmds |-> <<>>]
        ELSE IF ready = {}
        THEN [s |-> s, next |-> Min({findMinCmdCycle(s, s.reqs[queue[k]]) : k \in first}), cmds |-> <<>>]
        ELSE Issued(Issue(s, i, cycle, sysCycle), Commands(s, i, cycle))

BugFromOverflow(s, next, cycle) ==                      \* the alarm is not set for the request
    IF Full(s) \/ s.overflow = <<>> THEN [s |-> s, next |-> next]
    ELSE [s |-> QueueRequest([s EXCEPT !.overflow = Tail(@)], Head(s.overflow), cycle), next |-> next]

\* The part of tick() that takes one request from the overflow queue.
FromOverflow(s, next, cycle) ==
    LET i == Head(s.overflow)
        s1 == QueueRequest([s EXCEPT !.overflow = Tail(@)], i, cycle)
        bus == Max({cycle, s.minResp - T.tCL - T.tBL})
    IN  IF Full(s) \/ s.overflow = <<>> THEN [s |-> s, next |-> next]
        ELSE [s |-> s1, next |-> IF FirstInBank(s1, i) THEN Min({next, bus}) ELSE next]

\* What SchedEvent::simulate() makes of tick(): event e is free, or rings again at next.
Rearmed(s, next, e, sysCycle) ==
    IF next = Never
    THEN [s EXCEPT !.nextSched = next, !.nextEvent = 0, !.events[e].state = "IDLE", !.free = <<e>> \o @]
    ELSE [s EXCEPT !.nextSched = next, !.events[e].cycle = Max({matchingMemToSysCycle(next), sysCycle})]

\* The part of tick() after trySchedule().
AfterSchedule(t, e, cycle, sysCycle) ==
    LET o == FromOverflow(t.s, t.next, cycle)
    IN  [s |-> Rearmed(Check(o.s, t.next >= cycle, "minSchedCycle"), o.next, e, sysCycle), cmds |-> t.cmds]

\* tick(): event e rings at sysCycle.
tick(s, e, sysCycle) ==
    LET cycle == sysToMemCycle(sysCycle)
    IN  AfterSchedule(trySchedule(Check(s, cycle = s.nextSched, "nextSchedCycle"), cycle, sysCycle),
                      e, cycle, sysCycle)

\* refresh(): all banks are closed, and stay so for tRFC after they can be precharged.
refresh(s, sysCycle) ==
    LET all == {s.banks[r][b] : r \in RankIds, b \in BankIds}
        start == Max({sysToMemCycle(sysCycle)} \cup {Max({k.minPre, k.lastCmd}) : k \in all})
    IN  [s |-> [s EXCEPT !.banks = [r \in RankIds |-> [b \in BankIds |->
                                      [@[r][b] EXCEPT !.minPre = start + T.tRFC - T.tRP, !.open = FALSE]]],
                         !.refreshAt = sysCycle + memToSysCycle(T.tREFI), !.refreshes = @ + 1],
         cmds |-> <<[cmd |-> "REF", cycle |-> start]>>]

-----------------------------------------------------------------------------
(* The events, in the order of their system cycles *)

Alarms == {e \in DOMAIN mc.events : mc.events[e].state # "IDLE"}
\* Refreshes go on for ever: after the last one that is examined only the queues are emptied.
Pending == {mc.events[e].cycle : e \in Alarms} \cup (IF mc.refreshes < MaxRefreshes THEN {mc.refreshAt} ELSE {})
IsNext(cycle) == \A p \in Pending : cycle <= p

Init == /\ setup \in Setups
        /\ now = 0
        /\ mc \in {Idle(w) : w \in BOOLEAN}
        /\ trace = <<>>

\* The event of an access (DDRMemoryAccEvent) is simulated.
Arrive(line, write, gap) ==
    /\ Len(mc.reqs) < setup.max
    /\ IsNext(now + gap)
    /\ now' = now + gap
    /\ mc' = Enqueue(mc, line, write, now + gap)
    /\ UNCHANGED <<setup, trace>>

Ring(e) ==
    /\ e \in Alarms /\ mc.events[e].state = "QUEUED"
    /\ IsNext(mc.events[e].cycle)
    /\ now' = mc.events[e].cycle
    /\ \E t \in {tick(mc, e, mc.events[e].cycle)} :
          /\ mc' = t.s
          /\ trace' = trace \o t.cmds
    /\ UNCHANGED setup

\* An annulled event is recycled when it rings.
RingAnnulled(e) ==
    /\ e \in Alarms /\ mc.events[e].state = "ANNULLED"
    /\ IsNext(mc.events[e].cycle)
    /\ now' = mc.events[e].cycle
    /\ mc' = [Check(mc, e # mc.nextEvent, "recycleEvent")
                EXCEPT !.events[e].state = "IDLE", !.free = <<e>> \o @]
    /\ UNCHANGED <<setup, trace>>

Refresh ==
    /\ mc.refreshes < MaxRefreshes
    /\ IsNext(mc.refreshAt)
    /\ now' = mc.refreshAt
    /\ LET t == refresh(mc, mc.refreshAt)
       IN  /\ mc' = t.s
           /\ trace' = trace \o t.cmds
    /\ UNCHANGED setup

Next == \/ \E a \in setup.accesses, gap \in Gaps : Arrive(a.line, a.write, gap)
        \/ \E e \in DOMAIN mc.events : Ring(e) \/ RingAnnulled(e)
        \/ Refresh

-----------------------------------------------------------------------------
(* Properties *)

SameBank(a, b) == a.rank = b.rank /\ a.bank = b.bank
IsCAS(c) == c.cmd \in {"RD", "WR"}
BurstEnd(c) == c.cycle + T.tCL + T.tBL

\* What the devices ask of any two commands, the first given before the second.
PairObeys(a, b) ==
    CASE a.cmd = "REF" -> b.cmd = "REF" \/ b.cycle >= a.cycle + T.tRFC
      [] b.cmd = "REF" -> IF a.cmd = "ACT" THEN b.cycle >= a.cycle + T.tRAS
                          ELSE b.cycle >= (IF a.cmd = "WR" THEN BurstEnd(a) + T.tWR ELSE a.cycle + T.tRTP)
      [] IsCAS(a) /\ IsCAS(b) -> /\ b.cycle + T.tCL >= BurstEnd(a)
                                 /\ a.cmd = "WR" /\ b.cmd = "RD" => b.cycle >= BurstEnd(a) + T.tWTR
      [] b.cmd = "ACT" /\ SameBank(a, b) ->
            b.cycle >= T.tRP + (CASE a.cmd = "ACT" -> a.cycle + T.tRAS
                                [] a.cmd = "WR" -> BurstEnd(a) + T.tWR
                                [] a.cmd = "RD" -> a.cycle + T.tRTP)
      [] OTHER -> TRUE

\* A column access finds its row open, and open long enough.
FindsRow(k) ==
    LET acts == {j \in 1 .. k - 1 : trace[j].cmd = "ACT" /\ SameBank(trace[j], trace[k])}
        last == Max(acts)
    IN  /\ acts # {}
        /\ trace[last].row = trace[k].row
        /\ trace[k].cycle >= trace[last].cycle + T.tRCD
        /\ \A j \in last .. k : trace[j].cmd # "REF"

\* Whatever order the requests arrive and are served in, the commands respect the
\* timing of the devices: precharge, activation, column access, data bus, write
\* recovery and turnaround, refresh, and activations of a rank in a window; although
\* activations are placed after the fact by trySchedule() (ddr_mem.cpp:556-571).
ProtocolObeyed ==
    /\ \A k \in DOMAIN trace : /\ \A j \in 1 .. k - 1 : PairObeys(trace[j], trace[k])
                               /\ IsCAS(trace[k]) => FindsRow(k)
    /\ \A r \in RankIds : \A K \in kSubset(ActWindowSize + 1,
                                        {k \in DOMAIN trace : trace[k].cmd = "ACT" /\ trace[k].rank = r}) :
          LET cycles == {trace[k].cycle : k \in K} IN Max(cycles) - Min(cycles) >= T.tFAW

Waiting == ToSet(mc.rdQueue) \cup ToSet(mc.wrQueue)

\* A request that waits is not forgotten: exactly one alarm is set, for the cycle that
\* the controller believes it is set for, whenever a request is queued or has
\* overflowed, and none otherwise; a queue of a bank holds what the queue of the
\* controller holds; and the assertions on alarms and cycles hold (ddr_mem.cpp:120-139,
\* 428-431, 464, 596).
AlarmSet ==
    LET queued == {e \in DOMAIN mc.events : mc.events[e].state = "QUEUED"}
        banked(kind) == UNION {ToSet(mc.banks[r][b][kind]) : r \in RankIds, b \in BankIds}
    IN  /\ mc.failed = {}
        /\ queued = IF Waiting = {} /\ mc.overflow = <<>> THEN {} ELSE {mc.nextEvent}
        /\ \A e \in queued : sysToMemCycle(mc.events[e].cycle) = mc.nextSched
        /\ ToSet(mc.rdQueue) = banked("rdReqs") /\ ToSet(mc.wrQueue) = banked("wrReqs")

\* A request is answered when it has been served (a write when it has been queued), never
\* before it began, and a request is overtaken by others to rows that were ahead of it
\* only as often as rowHitLimit allows (ddr_mem.cpp:380-394).
Fair ==
    /\ \A i \in DOMAIN mc.reqs :
          /\ mc.reqs[i].overtaken <= mc.reqs[i].ahead * setup.rowHitLimit
          /\ i \in DOMAIN mc.done <=> IF mc.reqs[i].write THEN i \notin ToSet(mc.overflow)
                                      ELSE i \notin Waiting \cup ToSet(mc.overflow)
    /\ \A i \in DOMAIN mc.done : mc.done[i] > mc.reqs[i].start
=============================================================================
