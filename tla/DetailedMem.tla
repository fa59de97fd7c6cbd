----------------------------- MODULE DetailedMem -----------------------------
(***************************************************************************)
(* The detailed memory model (detailed_mem.cpp, detailed_mem_params.cpp).  *)
(* A channel computes the latency of an access in one go from the last     *)
(* commands of its ranks and banks; refreshes and power-downs are worked   *)
(* out in arrears.  The controller either simulates an access when its     *)
(* event comes, or gives it to the scheduler of its channel, which         *)
(* simulates one access per memory cycle, answers writes at once and lets  *)
(* reads be answered from the writes it holds.                             *)
(*                                                                         *)
(* Powers, energies and bandwidths are statistics and left out, but for    *)
(* the cycles of power-down and standby, which an assertion speaks of.     *)
(* updateStats() has no caller, so that lastPhaseCycle is always 0.        *)
(***************************************************************************)
EXTENDS Integers, Sequences, FiniteSets, SequencesExt, FiniteSetsExt

CONSTANTS tRC, tRAS, tRCD, tRP, tRPab, tRTRS, tRRD, tWR, tWTR, tCAS, tCWD, tCCD, tTrans,
          tXP, tREFI, tRFC, tFAW, tRTP,
          SysFreq, MemFreq,     \* cycles of either clock in the same time
          FAWSize,              \* activations in a window, 4
          Ranks, Banks,         \* the powers of two of which there are ranks and banks
          ColWidth, ColLowWidth,\* bits of a column, and those below the channel
          Setups,               \* open, merge, powerDown, queueCount, logDepth, latency, channels,
                                \* interleave; accesses, gaps, last and max bound what
                                \* is examined: the accesses, the cycles between them, the last
                                \* cycle of an event, and the number of accesses
          FirstCycle            \* caches keep accesses from coming before; 0 stands for "never"

\* What the devices and the configuration guarantee of the constants.
ConstantsFit ==
    /\ \A t \in {tRC, tRAS, tRCD, tRP, tRPab, tRTRS, tRRD, tWR, tWTR, tCAS, tCWD, tCCD, tTrans,
                 tXP, tREFI, tRFC, tFAW, tRTP} : t \in Nat \ {0}
    /\ tRC >= tRAS /\ ColLowWidth <= ColWidth
    /\ \A s \in Setups : s.interleave \in 0 .. 8 /\ s.channels > 0

VARIABLES setup,
          now,                  \* the system cycle of the last event
          nextTick,             \* the cycle of the scheduler's TickEvent
          chnls,                \* the ranks and the accessLog of the channels
          scheds,               \* the queues of their schedulers
          reqs,                 \* what has been asked: line, kind of access, cycle, and the answer
          unwritten,            \* the lines written that no channel has simulated since
          trace,                \* the commands of each channel
          failed                \* the assertions that have failed

vars == <<setup, now, nextTick, chnls, scheds, reqs, unwritten, trace, failed>>

tTransCrit == tTrans \div 4
Channels == 0 .. setup.channels - 1
RankIds == 0 .. 2 ^ Ranks - 1
BankIds == 0 .. 2 ^ Banks - 1
None == -1

-----------------------------------------------------------------------------
(* Parameters *)

sysToMemCycle(c) == (c * MemFreq) \div SysFreq
memToSysCycle(m) == (m * SysFreq) \div MemFreq

GetDataLatency(type) == IF type = "READ" THEN tCAS ELSE tCWD
GetDataDelay(type) == GetDataLatency(type) + tTransCrit
GetPreDelay(type) == IF type = "READ" THEN tRTP ELSE tCWD + tTrans + tWR
GetRefreshCycle == IF setup.open THEN tRFC + tRPab ELSE tRFC
GetRdWrDelay(type, last) ==
    CASE last = type -> Max({tTrans, tCCD})
      [] last = "READ" /\ type = "WRITE" -> tCAS + tCCD \div 2 + 2 - tCWD
      [] last = "WRITE" /\ type = "READ" -> tCWD + tTrans + tWTR

minLatency(type) ==
    memToSysCycle(IF setup.queueCount = 0 THEN GetDataLatency(type) ELSE 1) + setup.latency
preDelay(type) == minLatency(type) \div 2

-----------------------------------------------------------------------------
(* Addresses *)

\* The fields of a line address from the lowest to the highest, the row above them; the
\* low bits of the column are below them all.
Fields == <<<<"chnl", "rank", "bank", "col">>, <<"chnl", "bank", "rank", "col">>,
            <<"chnl", "rank", "col", "bank">>, <<"chnl", "bank", "col", "rank">>,
            <<"chnl", "col", "rank", "bank">>, <<"chnl", "col", "bank", "rank">>,
            <<"col", "chnl", "bank", "rank">>, <<"col", "bank", "chnl", "rank">>,
            <<"col", "bank", "rank", "chnl">>>>[setup.interleave + 1]

FieldSize == [chnl |-> setup.channels, rank |-> 2 ^ Ranks, bank |-> 2 ^ Banks, col |-> 2 ^ (ColWidth - ColLowWidth)]

AddressMap(line) ==
    LET take(a, f) == [left |-> a.left \div FieldSize[f],
                       loc |-> (f :> a.left % FieldSize[f]) @@ a.loc]
        all == FoldLeft(take, [left |-> line \div 2 ^ ColLowWidth, loc |-> <<>>], Fields)
    IN  [row |-> all.left] @@ [all.loc EXCEPT !.col = @ * 2 ^ ColLowWidth + (line % 2 ^ ColLowWidth)]

BugReturnChannel(line) ==                               \* the bits of the bank are forgotten
    ((line \div 2 ^ ColLowWidth) \div (IF setup.interleave <= 5 THEN 1 ELSE 2 ^ (ColWidth - ColLowWidth))) % setup.channels

\* ReturnChannel() goes by the type of interleaving on its own account.
ReturnChannel(line) ==
    LET addr == line \div 2 ^ ColLowWidth
        shift == CASE setup.interleave \in 0 .. 5 -> 0
                   [] setup.interleave = 6 -> ColWidth - ColLowWidth
                   [] setup.interleave = 7 -> ColWidth - ColLowWidth + Banks
                   [] setup.interleave = 8 -> ColWidth - ColLowWidth + Banks + Ranks
    IN  (addr \div 2 ^ shift) % setup.channels

-----------------------------------------------------------------------------
(* Refresh and power-down of a rank, worked out when it is used *)

NewRank == [open |-> [b \in BankIds |-> FALSE], row |-> [b \in BankIds |-> 0],
            type |-> [b \in BankIds |-> "READ"], act |-> [b \in BankIds |-> 0],
            rdwr |-> [b \in BankIds |-> 0], pre |-> [b \in BankIds |-> 0],
            faw |-> [i \in 1 .. FAWSize |-> 0], lastBank |-> 0, lastAccess |-> 0,
            lastRefresh |-> 0, inRefresh |-> 0, idlePD |-> 0, actvPD |-> 0, idleSB |-> 0]

UpdateRefreshNum(k, arrival) ==
    IF arrival >= k.lastRefresh THEN (arrival - k.lastRefresh) \div tREFI ELSE 0

UpdateLastRefreshCycle(k, n) ==
    IF n = 0 THEN k
    ELSE [k EXCEPT !.lastRefresh = @ + tREFI * n, !.open = [b \in BankIds |-> FALSE]]

GetPowerDownPenalty(k, arrival) ==
    IF setup.powerDown # 0 /\ arrival > k.lastAccess + setup.powerDown THEN tXP ELSE 0

\* The cycles since the last access that the rank was powered down or on standby.
UpdatePowerDownCycle(k, arrival, n) ==
    LET pd == setup.powerDown
        down == k.lastAccess + pd
        banks == 2 ^ Banks
        idle == Cardinality({b \in BankIds : ~k.open[b]})
        share(count, cycles) == (count * cycles) \div banks
        first == k.lastRefresh + tREFI
        toRefresh == IF first > down THEN first - down ELSE 0
        since == arrival - (k.lastRefresh + tREFI * n)
    IN  IF pd = 0 THEN k
        ELSE IF k.lastAccess = 0 THEN [k EXCEPT !.idlePD = @ + arrival]
        ELSE IF arrival <= k.lastAccess THEN k
        ELSE IF arrival <= down
        THEN [k EXCEPT !.idleSB = @ + share(IF setup.open THEN idle ELSE banks, arrival - k.lastAccess)]
        ELSE IF ~setup.open THEN [k EXCEPT !.idlePD = @ + arrival - down, !.idleSB = @ + pd]
        ELSE IF n = 0
        THEN [k EXCEPT !.idlePD = @ + share(idle, arrival - down), !.idleSB = @ + share(idle, pd),
                       !.actvPD = @ + share(banks - idle, arrival - down)]
        ELSE [k EXCEPT !.idlePD = @ + (idle * toRefresh + (n - 1) * tREFI + since) \div banks,
                       !.idleSB = @ + share(idle, pd), !.actvPD = @ + share(banks - idle, toRefresh)]

PowerDownExact(k, arrival) == setup.powerDown = 0 \/ arrival >= k.idlePD + k.actvPD + k.idleSB

-----------------------------------------------------------------------------
(* The constraints on the commands of an access *)

\* CalcIntraIssueCycle(): the cycle and the new accessInRefresh.
CalcIntraIssueCycle(k, rowHit, type, arrival, n) ==
    LET last == k.type[k.lastBank]
        overlap == k.lastAccess - k.lastRefresh
        count == IF k.lastRefresh # 0 /\ overlap >= 0 /\ GetRefreshCycle >= overlap
                 THEN (IF n = 0 THEN 0 ELSE k.inRefresh) + 1 ELSE 0
        issued == k.rdwr[k.lastBank]
    IN  [inRefresh |-> count,
         cycle |-> IF count # 0
                   THEN Max({k.lastRefresh + GetRefreshCycle + overlap, arrival})
                            + (IF count >= 2 THEN GetRdWrDelay(type, last) ELSE 0)
                   ELSE IF issued = 0 THEN arrival
                   ELSE Max({arrival, issued + (IF rowHit THEN GetRdWrDelay(type, last) ELSE 1)})]

CalcActConst(k, bank, cycle) ==
    IF k.act[bank] = 0 THEN cycle
    ELSE Max({cycle, k.act[bank] + tRC, IF k.pre[bank] # 0 THEN k.pre[bank] + tRP ELSE 0,
              Max({k.act[b] : b \in BankIds}) + tRRD, Head(k.faw) + tFAW})

CalcPreConst(k, bank, type, cycle) ==
    Max({cycle, k.rdwr[bank] + GetPreDelay(type), k.act[bank] + tRAS})

CalcRdWrConst(k, type, cycle) ==
    Max({cycle, k.rdwr[k.lastBank] + GetRdWrDelay(type, k.type[k.lastBank])})

BugCalcInterIssueCycle(log, type, cycle) ==             \* a slot that begins in time is not moved
    LET later(a, bus) == IF bus[1] <= a /\ a < bus[2] + tRTRS THEN bus[2] + tRTRS ELSE a
    IN  FoldLeft(later, cycle + GetDataLatency(type), log) - GetDataLatency(type)

\* CalcInterIssueCycle(): the first slot of the data bus from cycle on that the log leaves free.
CalcInterIssueCycle(log, type, cycle) ==
    LET slot == tTrans + tRTRS
        later(a, bus) ==
            LET end == a.start + slot
                busEnd == bus[2] + tRTRS
            IN  IF a.stop THEN a
                ELSE IF \/ bus[1] < end /\ end <= busEnd
                        \/ bus[1] <= a.start /\ a.start < busEnd THEN [a EXCEPT !.start = busEnd]
                ELSE [a EXCEPT !.stop = bus[1] > end]
    IN  FoldLeft(later, [start |-> cycle + GetDataLatency(type), stop |-> FALSE], log).start
            - GetDataLatency(type)

UpdateDataBusCycle(log, slot) ==
    LET all == SortSeq(Append(log, slot), LAMBDA a, b : a[1] < b[1] \/ (a[1] = b[1] /\ a[2] < b[2]))
    IN  IF Len(all) > setup.logDepth THEN [Tail(all) EXCEPT ![1][1] = 0] ELSE all

CheckContinuousAccess(k, arrival, bank, row) == setup.merge /\ arrival < k.pre[bank] /\ k.row[bank] = row

-----------------------------------------------------------------------------
(* LatencySimulate() of a channel: the channel, the latency, the commands, and the
   assertions that fail.  An access a has a location, a type and a cycle of arrival;
   k is its rank, and how says what it finds there. *)

Finds(k, a) ==
    LET rowHit == k.open[a.loc.bank] /\ k.row[a.loc.bank] = a.loc.row
        continuous == ~setup.open /\ CheckContinuousAccess(k, a.arrival, a.loc.bank, a.loc.row)
    IN  [rowHit |-> rowHit, continuous |-> continuous,
         activates |-> IF setup.open THEN ~rowHit ELSE ~continuous,
         closes |-> setup.open /\ ~rowHit /\ k.open[a.loc.bank]]

\* The cycles of its commands, each from those before it.
PreCycle(k, a, intra) ==
    [inRefresh |-> intra.inRefresh, intra |-> intra.cycle,
     pre |-> CalcPreConst(k, a.loc.bank, k.type[a.loc.bank], intra.cycle)]

ActCycle(k, a, how, c) ==
    c @@ [act |-> CalcActConst(IF how.closes THEN [k EXCEPT !.pre[a.loc.bank] = c.pre] ELSE k, a.loc.bank,
                               IF how.closes THEN c.pre + tRP ELSE c.intra)]

StartCycle(k, a, how, c) ==
    c @@ [start |-> IF how.activates THEN CalcRdWrConst(k, a.type, c.act + tRCD)
                    ELSE IF how.continuous THEN CalcRdWrConst(k, a.type, a.arrival)
                    ELSE c.intra]

RdWrCycle(log, a, c) == c @@ [rdwr |-> CalcInterIssueCycle(log, a.type, c.start)]

\* The rank after the column access, and the cycle in which the closed policy precharges.
Accessed(k, a, how, c, busEnd) ==
    [k EXCEPT !.inRefresh = IF how.continuous THEN @ ELSE c.inRefresh,
              !.pre[a.loc.bank] = IF how.closes THEN c.pre ELSE @,
              !.faw = IF how.activates THEN Append(Tail(@), c.act) ELSE @,
              !.act[a.loc.bank] = IF how.activates THEN c.act ELSE @,
              !.open[a.loc.bank] = setup.open,
              !.lastAccess = Max({@, busEnd}), !.rdwr[a.loc.bank] = c.rdwr, !.row[a.loc.bank] = a.loc.row,
              !.type[a.loc.bank] = a.type, !.lastBank = a.loc.bank]

Simulates(ch, a, k, how, c) ==
    LET bank == a.loc.bank
        latency == c.rdwr - a.arrival + GetDataDelay(a.type) + GetPowerDownPenalty(k, a.arrival)
        busEnd == a.arrival + latency + tTrans - tTransCrit
        k1 == Accessed(k, a, how, c, busEnd)
        shut == CalcPreConst(k1, bank, a.type, c.rdwr)
        command(cmd, at) == [cmd |-> cmd, cycle |-> at, rank |-> a.loc.rank, bank |-> bank, row |-> a.loc.row]
        holds == [channel |-> a.chnl = a.loc.chnl,
                  powerDown |-> PowerDownExact(k, a.arrival),
                  closed |-> setup.open \/ ~how.rowHit,
                  act |-> how.activates => c.act >= a.arrival /\ k.act[bank] <= c.act /\ Head(k.faw) <= c.act,
                  pre |-> /\ how.closes => c.pre >= c.intra /\ k.pre[bank] <= c.pre
                          /\ ~setup.open => shut >= c.rdwr /\ k1.pre[bank] <= shut,
                  rdwr |-> c.start >= a.arrival /\ c.rdwr >= a.arrival /\ k.rdwr[bank] < c.rdwr]
    IN  [merged |-> {m \in {command("PRE", k.pre[bank])} : how.continuous},
         ch |-> [ranks |-> [ch.ranks EXCEPT ![a.loc.rank] =
                               IF setup.open THEN k1 ELSE [k1 EXCEPT !.pre[bank] = shut]],
                 log |-> UpdateDataBusCycle(ch.log, <<busEnd - tTrans, busEnd>>)],
         latency |-> latency,
         cmds |-> (IF how.closes THEN <<command("PRE", c.pre)>> ELSE <<>>)
                      \o (IF how.activates THEN <<command("ACT", c.act)>> ELSE <<>>)
                      \o <<command(a.type, c.rdwr)>>
                      \o (IF setup.open THEN <<>> ELSE <<command("PRE", shut)>>),
         failed |-> {h \in DOMAIN holds : ~holds[h]}]

\* An access to a rank, after n refreshes.
AtRank(ch, a, k, how, n) ==
    Simulates(ch, a, k, how,
              RdWrCycle(ch.log, a, StartCycle(k, a, how, ActCycle(k, a, how,
                  PreCycle(k, a, CalcIntraIssueCycle(k, how.rowHit, a.type, a.arrival, n))))))

Refreshed(ch, a, k, n) == AtRank(ch, a, k, Finds(k, a), n)

Arrives(ch, a, old, n) == Refreshed(ch, a, UpdateLastRefreshCycle(UpdatePowerDownCycle(old, a.arrival, n), n), n)

Locates(ch, a) == Arrives(ch, a, ch.ranks[a.loc.rank], UpdateRefreshNum(ch.ranks[a.loc.rank], a.arrival))

LatencySimulate(ch, line, arrival, type) ==
    Locates(ch, [loc |-> AddressMap(line), chnl |-> ReturnChannel(line), arrival |-> arrival, type |-> type])

-----------------------------------------------------------------------------
(* The scheduler of a channel *)

NewSched == [rdQueue |-> <<>>, wrQueue |-> <<>>, wrDone |-> <<>>, prio |-> "READ"]
Without(q, line) == SelectSeq(q, LAMBDA l : l # line)

BugCheckSetEvent(s, i, line, type) ==                   \* a line that is done is not written again
    IF line \in ToSet(s.wrQueue \o s.wrDone) THEN [hit |-> TRUE, s |-> s]
    ELSE [hit |-> FALSE, s |-> IF type = "READ" THEN [s EXCEPT !.rdQueue = Append(@, i)]
                               ELSE [s EXCEPT !.wrQueue = Append(@, line)]]

\* CheckSetEvent(): the scheduler, and whether its writes hold the line.
CheckSetEvent(s, i, line, type) ==
    IF line \in ToSet(s.wrQueue)
    THEN [hit |-> TRUE, s |-> IF type = "READ" THEN s ELSE [s EXCEPT !.wrQueue = Append(Without(@, line), line)]]
    ELSE IF line \in ToSet(s.wrDone)
    THEN [hit |-> TRUE,
          s |-> IF type = "READ" THEN [s EXCEPT !.wrDone = Append(Without(@, line), line)]
                ELSE [s EXCEPT !.wrDone = Without(@, line), !.wrQueue = Append(@, line)]]
    ELSE [hit |-> FALSE,
          s |-> IF type = "READ" THEN [s EXCEPT !.rdQueue = Append(@, i)]
                ELSE LET full == Len(s.wrQueue) + Len(s.wrDone) + 1 = setup.queueCount
                     IN  [s EXCEPT !.wrQueue = Append(@, line),
                                   !.wrDone = IF full /\ @ # <<>> THEN Tail(@) ELSE @]]

IsRowHit(ch, loc) == ch.ranks[loc.rank].open[loc.bank] /\ ch.ranks[loc.rank].row[loc.bank] = loc.row

\* FindBestRequest(): the first row hit, or else the first request.
FindBestRequest(lines, ch) ==
    LET hits == {j \in DOMAIN lines : IsRowHit(ch, AddressMap(lines[j]))}
    IN  IF hits = {} THEN 1 ELSE Min(hits)

\* GetEvent(): what the scheduler simulates next, if anything.
GetEvent(s, ch) ==
    LET prio == IF Len(s.wrQueue) >= (setup.queueCount * 2) \div 3 THEN "WRITE"
                ELSE IF Len(s.wrQueue) <= setup.queueCount \div 3 THEN "READ" ELSE s.prio
        r == FindBestRequest([j \in DOMAIN s.rdQueue |-> reqs[s.rdQueue[j]].line], ch)
        w == FindBestRequest(s.wrQueue, ch)
        s1 == [s EXCEPT !.prio = prio]
    IN  IF prio = "READ" /\ s.rdQueue # <<>>
        THEN [any |-> TRUE, type |-> "READ", req |-> s.rdQueue[r], line |-> reqs[s.rdQueue[r]].line,
              s |-> [s1 EXCEPT !.rdQueue = RemoveAt(@, r)]]
        ELSE IF s.wrQueue # <<>>
        THEN [any |-> TRUE, type |-> "WRITE", req |-> None, line |-> s.wrQueue[w],
              s |-> [s1 EXCEPT !.wrQueue = RemoveAt(@, w), !.wrDone = Append(@, s.wrQueue[w])]]
        ELSE [any |-> FALSE, s |-> s1]

-----------------------------------------------------------------------------
(* The controller *)

Init == /\ setup \in Setups
        /\ now = FirstCycle
        /\ nextTick = IF setup.queueCount = 0 THEN None ELSE FirstCycle
        /\ chnls = [c \in Channels |-> [ranks |-> [r \in RankIds |-> NewRank], log |-> <<>>]]
        /\ scheds = [c \in Channels |-> NewSched]
        /\ reqs = <<>> /\ unwritten = {}
        /\ trace = [c \in Channels |-> <<>>]
        /\ failed = {}

\* An access is simulated by its channel at a system cycle.
Simulated(line, sysCycle, type) ==
    LatencySimulate(chnls[ReturnChannel(line)], line, sysToMemCycle(sysCycle), type)

\* A precharge is not issued if an access to its row comes first.
Traced(cmds, sim) == SelectSeq(cmds, LAMBDA c : c \notin sim.merged) \o sim.cmds

Comes(cycle) ==
    /\ Len(reqs) < setup.max /\ cycle <= setup.last
    /\ nextTick # None => cycle <= nextTick
    /\ now' = cycle

\* enqueue() without a scheduler.
EnqueueDirect(line, type, gap) ==
    LET cycle == now + gap
    IN  /\ setup.queueCount = 0
        /\ Comes(cycle)
        /\ \E sim \in {Simulated(line, cycle - preDelay(type) + setup.latency, type)} :
              /\ chnls' = [chnls EXCEPT ![ReturnChannel(line)] = sim.ch]
              /\ trace' = [trace EXCEPT ![ReturnChannel(line)] = Traced(@, sim)]
              /\ failed' = failed \cup sim.failed
              /\ reqs' = Append(reqs, [line |-> line, type |-> type, start |-> cycle,
                                       done |-> cycle + memToSysCycle(sim.latency) - minLatency(type) + setup.latency])
        /\ UNCHANGED <<setup, nextTick, scheds, unwritten>>

\* enqueue() with a scheduler: a write is answered at once, a read if a write holds its line.
EnqueueScheduled(line, type, gap) ==
    LET cycle == now + gap
        c == ReturnChannel(line)
        set == CheckSetEvent(scheds[c], Len(reqs) + 1, line, type)
    IN  /\ setup.queueCount # 0
        /\ Comes(cycle)
        /\ scheds' = [scheds EXCEPT ![c] = set.s]
        /\ reqs' = Append(reqs, [line |-> line, type |-> type, start |-> cycle,
                                 done |-> IF type = "READ" /\ ~set.hit THEN None
                                          ELSE cycle - minLatency(type) + setup.latency])
        /\ unwritten' = IF type = "WRITE" THEN unwritten \cup {line} ELSE unwritten
        /\ UNCHANGED <<setup, nextTick, chnls, trace, failed>>

\* Each channel with an event simulates it; a read is answered.
SimulateEvents(event, busy) ==
    LET reads == {c \in busy : event[c].type = "READ"}
    IN  /\ scheds' = [c \in Channels |-> event[c].s]
        /\ \E sim \in {[c \in busy |-> Simulated(event[c].line, nextTick, event[c].type)]} :
              /\ chnls' = [c \in Channels |-> IF c \in busy THEN sim[c].ch ELSE chnls[c]]
              /\ trace' = [c \in Channels |-> IF c \in busy THEN Traced(trace[c], sim[c]) ELSE trace[c]]
              /\ failed' = failed \cup UNION {sim[c].failed : c \in busy}
              /\ reqs' = [i \in DOMAIN reqs |->
                            LET mine == {c \in reads : event[c].req = i}
                            IN  IF mine = {} THEN reqs[i]
                                ELSE [reqs[i] EXCEPT !.done = nextTick - minLatency("READ")
                                                        + memToSysCycle(sim[CHOOSE c \in mine : TRUE].latency)]]
        /\ unwritten' = unwritten \ {event[c].line : c \in busy \ reads}

\* tick(): every scheduler simulates one access.
Tick ==
    /\ nextTick # None /\ nextTick <= setup.last
    /\ now' = nextTick
    /\ nextTick' = nextTick + Max({1, memToSysCycle(1)})
    /\ \E event \in {[c \in Channels |-> GetEvent(scheds[c], chnls[c])]} :
          SimulateEvents(event, {c \in Channels : event[c].any})
    /\ UNCHANGED setup

Next == \/ \E a \in setup.accesses, gap \in setup.gaps :
              EnqueueDirect(a[1], a[2], gap) \/ EnqueueScheduled(a[1], a[2], gap)
        \/ Tick

-----------------------------------------------------------------------------
(* Properties *)

\* The assertions of the channels and ranks hold, whatever order accesses and
\* refreshes come in, but for the one on the cycles of power-down (detailed_mem.cpp:79,
\* 373-423, 720; detailed_mem.h:123-132).
AssertsHold == failed \subseteq {"powerDown"}

IsCAS(c) == c.cmd \in {"READ", "WRITE"}
SameBank(a, b) == a.rank = b.rank /\ a.bank = b.bank

\* The commands of a bank keep their distances, those of a rank keep the turnaround of the
\* data bus, and a column access comes after the activation of its row, although each
\* access is placed on its own from what the last one left behind.
BanksObeyed ==
    \A c \in Channels : \A k \in DOMAIN trace[c] : \A j \in 1 .. k - 1 :
        LET a == trace[c][j]
            b == trace[c][k]
        IN  /\ IsCAS(a) /\ IsCAS(b) /\ a.rank = b.rank => b.cycle >= a.cycle + GetRdWrDelay(b.cmd, a.cmd)
            /\ SameBank(a, b) => CASE a.cmd = "ACT" /\ b.cmd = "ACT" -> b.cycle >= a.cycle + tRC
                                   [] a.cmd = "ACT" /\ b.cmd = "PRE" -> b.cycle >= a.cycle + tRAS
                                   [] a.cmd = "ACT" /\ IsCAS(b) -> b.cycle >= a.cycle + tRCD
                                   [] a.cmd = "PRE" /\ b.cmd = "ACT" -> b.cycle >= a.cycle + tRP
                                   [] IsCAS(a) /\ b.cmd = "PRE" -> b.cycle >= a.cycle + GetPreDelay(a.cmd)
                                   [] OTHER -> TRUE

\* No two transfers of a channel are on the data bus together, with the time to switch
\* ranks between them, unless a rank had to wake up, which delays its data after they
\* were given their place (detailed_mem.cpp:414).
BusExclusive ==
    \A c \in Channels : \A i, j \in DOMAIN chnls[c].log :
        i < j /\ setup.powerDown = 0 => chnls[c].log[i][2] + tRTRS <= chnls[c].log[j][1]

\* Commands and transfers keep the timing of the memory.
TimingObeyed == BanksObeyed /\ BusExclusive

\* The buffer of the scheduler: a line is at most once among the writes that wait and the
\* writes that are done, the lines that wait are those written since they were last
\* simulated, and a read waits in the queue of its channel exactly until it is answered.
BuffersExact ==
    \A c \in Channels :
        LET s == scheds[c]
            mine == {i \in DOMAIN reqs : ReturnChannel(reqs[i].line) = c}
        IN  setup.queueCount # 0 =>
            /\ IsInjective(s.wrQueue \o s.wrDone)
            /\ IsInjective(s.rdQueue)
            /\ ToSet(s.rdQueue) = {i \in mine : reqs[i].done = None}
            /\ ToSet(s.wrQueue) = {line \in unwritten : ReturnChannel(line) = c}
=============================================================================
