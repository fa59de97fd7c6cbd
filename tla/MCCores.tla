------------------------------- MODULE MCCores -------------------------------
(***************************************************************************)
(* A core with two threads, and the scheduler of three threads on two      *)
(* contexts; `kind' says which of the two a behaviour is about.  Each      *)
(* setup of the core is a question of its own: every instruction of the    *)
(* decoder, alone and before and after a few others; a full window,        *)
(* reorder buffer and queues; loads, stores and fences; branches; phases   *)
(* and context switches, for every kind of core.                           *)
(***************************************************************************)
EXTENDS Cores, SchedulerParams

VARIABLES kind,
          sched, blockingSyscalls, pc, unfaked,             \* the state of Scheduler, with its barrier
          state, futexWord, lastIdx, runList, runListSize, curThreadIdx,
          runningThreads, leftThreads, phaseCount, synced

schedVars == <<sched, blockingSyscalls, pc, unfaked, state, futexWord, lastIdx, runList, runListSize,
               curThreadIdx, runningThreads, leftThreads, phaseCount, synced>>

-----------------------------------------------------------------------------
(* The scheduler: masks overlap partially *)

CONSTANTS g1, g2, g3

TwoContexts == (g1 :> {0, 1}) @@ (g2 :> {0, 1}) @@ (g3 :> {1})

S == INSTANCE Scheduler

-----------------------------------------------------------------------------
(* The core *)

Ins(op, loads, stores, in, out) ==
    [op |-> op, loads |-> loads, stores |-> stores, in |-> in, out |-> out,
     bytes |-> 4, width |-> 8, imm |-> FALSE, atomic |-> FALSE, lock |-> FALSE, pred |-> FALSE]

M == <<RBX, 0>>                                 \* a memory operand
Reg(op) == Ins(op, <<>>, <<>>, <<RAX, RBX>>, <<RAX, RFLAGS>>)
Mem(op) == Ins(op, <<M>>, <<>>, <<RAX>>, <<RAX, RFLAGS>>)
Upd(op) == Ins(op, <<M>>, <<M>>, <<RAX>>, <<RFLAGS>>)
Cvt(op, m) == Ins(op, IF m THEN <<M>> ELSE <<>>, <<>>, IF m THEN <<>> ELSE <<RBX>>, <<RAX>>)

Load == Ins("MOV", <<M>>, <<>>, <<>>, <<RAX>>)
Store == Ins("MOV", <<>>, <<M>>, <<RAX>>, <<>>)
Move == Ins("MOV", <<>>, <<>>, <<RAX>>, <<RBX>>)
Nop == Ins("NOP", <<>>, <<>>, <<>>, <<>>)
Cmp == Ins("CMP", <<>>, <<>>, <<RAX, RBX>>, <<RFLAGS>>)
Jump(op) == Ins(op, <<>>, <<>>, <<RFLAGS>>, <<RIP>>)
Xadd == [Upd("XADD") EXCEPT !.atomic = TRUE, !.lock = TRUE, !.out = <<RAX, RFLAGS>>]
Mfence == [Move EXCEPT !.atomic = TRUE]
Sqrt == Cvt("SQRTSD", FALSE)

\* What the decoder knows
Pool ==
    {Load, Store, Move, Nop, Cmp, Xadd, Jump("JZ"), Jump("JO"), Jump("LOOP"), Jump("JMP")}
    \cup {Cvt(op, FALSE) : op \in {"BSWAP", "MOVAPS", "MOVMSKPS"}}
    \cup {Reg(op) : op \in {"ADD", "SHL", "ROR", "RCR", "BSF", "AAA", "AAD", "AAM", "DIV", "IMUL", "LEA"}}
    \cup {[Reg(op) EXCEPT !.in = <<RAX, RBX, RFLAGS>>] : op \in {"ADC", "SBB", "SHLD", "SHRD"}}
    \cup {Mem(op) : op \in {"ADD", "SHLD", "DIV", "IMUL"}}
    \cup {Upd(op) : op \in {"ADD", "SHL"}} \cup {[Upd("ADC") EXCEPT !.in = <<RAX, RFLAGS>>]}
    \cup {Ins(op, <<>>, <<>>, <<RBX, RFLAGS>>, <<RAX>>) : op \in {"CMOV", "FCMOV"}}
    \cup {Ins("CMOV", <<M>>, <<>>, <<RFLAGS>>, <<RAX>>), Ins("XCHG", <<>>, <<>>, <<RAX, RBX>>, <<RAX, RBX>>),
          Ins("XADD", <<>>, <<>>, <<RSI, RBX>>, <<RSI, RBX, RFLAGS>>),
          Ins("CMPXCHG", <<>>, <<>>, <<RBX, RSI, RAX>>, <<RBX, RAX, RFLAGS>>),
          Ins("CMPXCHG", <<M>>, <<M>>, <<RSI, RAX>>, <<RAX, RFLAGS>>)}
    \cup {[Mem(op) EXCEPT !.out = <<RAX, RDI, RFLAGS>>, !.in = in] :
                op \in {"MUL", "DIV", "IDIV"}, in \in {<<RAX, RDI>>}}
    \cup {[Upd("XCHG") EXCEPT !.out = <<RAX>>, !.lock = l, !.atomic = TRUE] : l \in BOOLEAN}
    \cup {Cvt(op, m) : op \in {"CVTPD2PS", "CVTPS2PD", "CVTDQ2PD", "CVTPI2PD", "CVTSI2SD", "CVTSS2SD", "CVTDQ2PS"}
                            \cup DOMAIN SSEGroups, m \in BOOLEAN}
    \cup {Cvt(op, FALSE) : op \in {"CBW", "CWD", "CLD", "STD", "PAUSE", "OTHER"}}
    \cup {Ins("MOVHPS", <<M>>, <<>>, <<RAX>>, <<RAX>>), Ins("PREFETCH", <<M>>, <<>>, <<>>, <<>>),
          Ins("PUSH", <<>>, <<M>>, <<RAX>>, <<>>), Ins("PUSH", <<M>>, <<M>>, <<>>, <<>>),
          Ins("POP", <<M>>, <<>>, <<>>, <<RAX>>), Ins("PUSHF", <<>>, <<M>>, <<RFLAGS>>, <<>>),
          Ins("POPF", <<M>>, <<>>, <<>>, <<RFLAGS>>), Ins("CALL", <<>>, <<M>>, <<>>, <<RIP>>),
          Ins("RET", <<M>>, <<>>, <<>>, <<RIP>>), Ins("STOS", <<>>, <<M>>, <<RAX>>, <<RDI>>),
          Ins("LODS", <<M>>, <<>>, <<>>, <<RAX>>), Ins("MOVS", <<M>>, <<M>>, <<>>, <<RSI, RDI>>),
          Ins("CMPS", <<M, M>>, <<>>, <<>>, <<RSI, RDI, RFLAGS>>)}

Block(a, ins) == [addr |-> a, ins |-> ins]

OneByOne == [kind |-> "OOO", bbls |-> {}, lats |-> {1}, fetches |-> {0}, addrs |-> {0}, gaps |-> {0},
             length |-> 100, calls |-> 2, phases |-> 0, switches |-> 0]

Long(i) == [i EXCEPT !.bytes = 8]

\* Four simple instructions and a complex one, all of which are predecoded together.
LastComplex == Block(0, [k \in 1 .. 5 |-> [IF k = 5 THEN Store ELSE Nop EXCEPT !.bytes = 3]])

\* Every instruction alone, and in blocks that fill predecoder and decoders.
DecodeSetups ==
    {[OneByOne EXCEPT !.bbls = {b}] :
        b \in {Block(a, <<i>>) : a \in {0, 13}, i \in Pool}
              \cup {Block(0, <<Cmp, i, Nop, Nop, Nop, Nop, Nop>>) : i \in Pool}
              \cup {Block(13, <<Long(x), y, i, Load, Cmp, j>>) : x, y \in {Nop, Store}, i \in {Xadd, Move},
                                                                j \in {Jump("JZ"), Jump("JO"), Jump("LOOP")}}
              \cup {Block(0, [k \in 1 .. 8 |-> [Nop EXCEPT !.bytes = n]]) : n \in {2, 5}}
              \cup {LastComplex}}

\* Operations that wait for each other, in every order.
OrderSetups ==
    {[OneByOne EXCEPT !.bbls = {Block(0, <<x, y, z>>)}, !.lats = {0, 3}, !.addrs = {0, 1}, !.calls = 2] :
        x, z \in {Load, Store, Xadd}, y \in {Load, Store, Mfence, Move}}

\* A window, a reorder buffer and queues that fill up while memory is slow.
FullSetups ==
    {[OneByOne EXCEPT !.bbls = {Block(0, b)}, !.lats = {1, 9}, !.calls = 4] :
        b \in {<<Load, Load, Sqrt, Move>>, <<Store, Sqrt, Store>>, <<Sqrt, Sqrt, Nop, Load>>}}

\* Phases, gaps and switches.
Brancher == Block(2, <<Load, Cmp, Jump("JZ")>>)
PhaseSetups ==
    {[OneByOne EXCEPT !.kind = k, !.bbls = {Brancher, Block(4, <<[Load EXCEPT !.pred = TRUE], Store>>)},
                      !.lats = {1, 6}, !.fetches = {0, 7}, !.addrs = {0}, !.gaps = {0, 3},
                      !.length = 5, !.calls = 3, !.phases = 3, !.switches = 2] : k \in {"Null", "Simple", "Timing"}}
    \cup {[OneByOne EXCEPT !.kind = k, !.bbls = {Block(4, <<Load, [Store EXCEPT !.pred = TRUE]>>)},
                      !.length = 5, !.phases = 1, !.switches = 1] : k \in {"Null", "Simple", "Timing"}}
    \cup {[OneByOne EXCEPT !.bbls = {Brancher, Block(4, <<[Load EXCEPT !.pred = TRUE], Sqrt>>)}, !.lats = {1, 6},
                      !.fetches = {0, 7}, !.gaps = {0, 3}, !.length = 5, !.calls = 3, !.phases = 3, !.switches = 2]}

McSetups == DecodeSetups \cup OrderSetups \cup FullSetups \cup PhaseSetups
Symm == Permutations(Tids)

-----------------------------------------------------------------------------
\* The model that a behaviour is not about keeps an initial state.
MCInit == /\ kind \in {"core", "sched"}
          /\ Init /\ S!Init
          /\ kind = "sched" => setup = (CHOOSE s \in Setups : TRUE) /\ on = CHOOSE t \in Tids : TRUE

MCNext == \/ kind = "core" /\ Next /\ UNCHANGED <<kind, schedVars>>
          \/ kind = "sched" /\ S!Next /\ UNCHANGED <<kind, vars>>

MCSpec == MCInit /\ [][MCNext]_<<kind, vars, schedVars>>

\* Queues, contexts, promises, deadlines and the barrier agree, whatever threads, the
\* watchdog and the ends of phases do in between (scheduler.h, scheduler.cpp).
SchedulerSound == kind = "sched" => S!SchedulerSound
=============================================================================
