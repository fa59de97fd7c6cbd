------------------------------ MODULE MCMemory ------------------------------
(***************************************************************************)
(* Where lines are kept: a bank of a cache, and the two event-driven       *)
(* models of memory; `kind' says which of the three a behaviour is about.  *)
(***************************************************************************)
EXTENDS CacheArrays

VARIABLES kind,
          ddr, ddrNow, mc, ddrTrace,    \* the state of DDRMemory
          mem, memNow, nextTick, chnls, scheds, reqs, unwritten, memTrace, failed   \* of DetailedMem

-----------------------------------------------------------------------------
(* CacheArrays: banks of four lines in two sets of two ways, five addresses *)

\* A hash function by the sets of addresses 1, 2, ...
H(sets) == [a \in Addrs |-> sets[a]]
Plain == H(<<0, 1, 0, 1, 0>>)
Other == H(<<0, 0, 1, 1, 1>>)
Third == H(<<1, 0, 0, 1, 1>>)
\* Addresses 1 to 4 go round in a circle: a walk meets a line it has met before.
Circle == <<H(<<0, 1, 1, 0, 0>>), H(<<0, 0, 1, 1, 0>>)>>

Bank(arr, policy) ==
    [array |-> arr, policy |-> policy, llc |-> "no", ticks |-> FALSE, time |-> 5, addrs |-> Addrs,
     hash |-> <<Plain, Other>>, home |-> <<0, 0, 1, 1, 1>>]

\* The addresses of one set, and one of the other.
OneSet(arr, policy) == [Bank(arr, policy) EXCEPT !.addrs = {1, 2, 3, 5}]

McBanks ==
    {Bank(b[1], b[2]) : b \in {<<"SetAssoc", "NRU">>, <<"SetAssoc", "Rand">>, <<"SetAssoc", "WayPart">>,
                               <<"CEASER", "Rand">>, <<"IdealLRU", "IdealLRU">>}}
        \cup {[Bank("Z", "LRU") EXCEPT !.time = 4], OneSet("SetAssoc", "LRU"), OneSet("SetAssoc", "LFU"),
              [OneSet("SetAssoc", "Vantage") EXCEPT !.ticks = TRUE, !.time = 4],
              [Bank("IdealLRUPart", "IdealPart") EXCEPT !.ticks = TRUE, !.time = 1],
              [Bank("Z", "NRU") EXCEPT !.hash = Circle],
              [Bank("CEASER", "Rand") EXCEPT !.hash = <<Other, Third>>],
              [Bank("SetAssoc", "LRUNoSh") EXCEPT !.llc = "set", !.time = 4],
              [Bank("SetAssoc", "NRU") EXCEPT !.llc = "way"]}

-----------------------------------------------------------------------------
(* DDRMemory: two banks of a rank, with timings small enough for every         *)
(* constraint to bind soon, and with those of a real technology                *)

Read(line) == [line |-> line, write |-> FALSE]
Write(line) == [line |-> line, write |-> TRUE]

Short == [tBL |-> 2, tCL |-> 3, tRCD |-> 2, tRTP |-> 2, tRP |-> 2, tRRD |-> 1, tRAS |-> 5, tFAW |-> 9,
          tWTR |-> 2, tWR |-> 5, tRFC |-> 6, tREFI |-> 12, freq |-> 571]
\* DDR3-1066-CL7, for lines of 64 bytes.
CL7 == [tBL |-> 4, tCL |-> 7, tRCD |-> 7, tRTP |-> 4, tRP |-> 7, tRRD |-> 4, tRAS |-> 18, tFAW |-> 18,
        tWTR |-> 4, tWR |-> 7, tRFC |-> 59, tREFI |-> 4160, freq |-> 533]

\* Lines 0 and 2 are different rows of a bank, line 1 is in the other bank.
Controllers ==
    {[timing |-> Short, queueDepth |-> 3, rowHitLimit |-> 1, deferredWrites |-> TRUE, closedPage |-> FALSE,
      mapping |-> <<"col", "rank", "bank">>, accesses |-> {Read(0), Read(2), Write(1)}, max |-> 4],
     [timing |-> Short, queueDepth |-> 1, rowHitLimit |-> 1, deferredWrites |-> TRUE, closedPage |-> TRUE,
      mapping |-> <<"col", "bank", "rank">>, accesses |-> {Read(0), Write(2), Write(1)}, max |-> 3],
     [timing |-> Short, queueDepth |-> 3, rowHitLimit |-> 1, deferredWrites |-> FALSE, closedPage |-> TRUE,
      mapping |-> <<"bank", "rank", "col">>, accesses |-> {Read(0), Read(2), Write(2)}, max |-> 4],
     [timing |-> CL7, queueDepth |-> 2, rowHitLimit |-> 2, deferredWrites |-> TRUE, closedPage |-> FALSE,
      mapping |-> <<"rank", "col", "bank">>, accesses |-> {Read(0), Read(2), Write(0)}, max |-> 3]}
OneRank == [col |-> 1, rank |-> 1, bank |-> 2]

D == INSTANCE DDRMemory
        WITH ActWindowSize <- 2, Sizes <- OneRank, Gaps <- {0, 9}, MaxRefreshes <- 2,
             SysFreq <- 2000, Setups <- Controllers, setup <- ddr, now <- ddrNow, trace <- ddrTrace


-----------------------------------------------------------------------------
(* DetailedMem: memories of one or two channels, with and without a scheduler *)

Memory(open, powerDown, interleave) ==
    [open |-> open, merge |-> TRUE, powerDown |-> powerDown, queueCount |-> 0, logDepth |-> 2,
     latency |-> 1, channels |-> 1, interleave |-> interleave, max |-> 4,
     accesses |-> {0, 1, 4} \X {"READ", "WRITE"}, gaps |-> {0, 4, 30}, last |-> 110]

\* With a scheduler, which ticks five times.
Scheduled(open, queueCount, interleave) ==
    [Memory(open, 0, interleave) EXCEPT !.queueCount = queueCount, !.gaps = {0}, !.last = 28,
        !.accesses = {<<0, "READ">>, <<0, "WRITE">>, <<1, "WRITE">>, <<4, "WRITE">>}]

Memories == {Memory(TRUE, 0, 1), Memory(FALSE, 4, 5), Memory(TRUE, 4, 3), Scheduled(TRUE, 3, 0),
             [Scheduled(FALSE, 2, 7) EXCEPT !.channels = 3]}

M == INSTANCE DetailedMem
        WITH tRC <- 8, tRAS <- 5, tRCD <- 2, tRP <- 3, tRPab <- 3, tRTRS <- 1, tRRD <- 2, tWR <- 3, tWTR <- 2,
             tCAS <- 4, tCWD <- 3, tCCD <- 2, tTrans <- 4, tXP <- 2, tREFI <- 20, tRFC <- 6, tFAW <- 9,
             tRTP <- 2, SysFreq <- 5, MemFreq <- 2, FAWSize <- 2, Ranks <- 1, Banks <- 1, ColWidth <- 1,
             ColLowWidth <- 0, FirstCycle <- 20,
             Setups <- Memories, setup <- mem, now <- memNow, trace <- memTrace

ASSUME MemoriesFit ==
    /\ M!ConstantsFit /\ D!ConstantsFit
    /\ D!initTech("DDR3-1066-CL7", 64) = CL7

\* The ring of the code has four places.  Activations that minActCycle() allows, placed
\* in whichever order, are at most four in any tFAW cycles, although
\* addActivation() does not always leave the ring sorted.
Placed(tFAW, gaps) ==
    FoldLeft(LAMBDA p, g : LET act == Head(p.window) + tFAW + g
                           IN  [window |-> D!addActivation(p.window, act), acts |-> Append(p.acts, act)],
             [window |-> <<0, 0, 0, 0>>, acts |-> <<>>], gaps)

ASSUME FourInWindow ==
    \A gaps \in [1 .. 8 -> {0, 4, 9}] :
        LET acts == Placed(3, gaps).acts
        IN  \A a \in ToSet(acts) : Cardinality({k \in 1 .. 8 : acts[k] \in a .. a + 2}) <= 4

-----------------------------------------------------------------------------
ddrVars == <<ddr, ddrNow, mc, ddrTrace>>
memVars == <<mem, memNow, nextTick, chnls, scheds, reqs, unwritten, memTrace, failed>>

\* The models that a behaviour is not about keep one of their initial states.
MCInit == /\ kind \in {"array", "ddr", "detailed"}
          /\ Init /\ D!Init /\ M!Init
          /\ kind # "array" => setup = CHOOSE s \in Setups : TRUE
          /\ kind # "ddr" => ddr = (CHOOSE s \in Controllers : TRUE) /\ ~mc.wasWrite
          /\ kind # "detailed" => mem = CHOOSE s \in Memories : TRUE

MCNext == \/ kind = "array" /\ Next /\ UNCHANGED <<kind, ddrVars, memVars>>
          \/ kind = "ddr" /\ D!Next /\ UNCHANGED <<kind, vars, memVars>>
          \/ kind = "detailed" /\ M!Next /\ UNCHANGED <<kind, vars, ddrVars>>

MCSpec == MCInit /\ [][MCNext]_<<kind, vars, ddrVars, memVars>>

-----------------------------------------------------------------------------
(* The properties of DetailedMem and DDRMemory *)

\* The assertions of the channels and ranks of the detailed memory hold, whatever order
\* accesses and refreshes come in, but for the one on the cycles of power-down
\* (detailed_mem.cpp:79, 373-423, 720; detailed_mem.h:123-132).
AssertsHold == kind = "detailed" => M!AssertsHold

\* Commands and transfers of the detailed memory keep the timing of the devices, though
\* each is worked out from what earlier accesses left (detailed_mem.cpp:373-423).
TimingObeyed == kind = "detailed" => M!TimingObeyed

\* No write is lost or simulated twice by the detailed memory's scheduler, and a read
\* waits exactly until it is answered (detailed_mem.cpp:560-640).
BuffersExact == kind = "detailed" => M!BuffersExact

\* The commands that the DDR controller issues respect the timing of the devices,
\* whatever order requests arrive and are served in (ddr_mem.cpp:556-571).
ProtocolObeyed == kind = "ddr" => D!ProtocolObeyed

\* No request of the DDR controller is left without an alarm, and exactly one alarm
\* is set while any of them waits (ddr_mem.cpp:120-139, 428-431, 464, 596).
AlarmSet == kind = "ddr" => D!AlarmSet

\* Requests are answered once they are served, and overtaken only as often as
\* rowHitLimit allows (ddr_mem.cpp:380-394).
Fair == kind = "ddr" => D!Fair
=============================================================================
