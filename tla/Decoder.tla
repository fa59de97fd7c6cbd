------------------------------- MODULE Decoder -------------------------------
(***************************************************************************)
(* The decoder of basic blocks for out-of-order cores                      *)
(* (src/src/decoder.cpp): the micro-operations of every instruction, the   *)
(* fusion of compares with branches, and the cycle in which the predecoder *)
(* and the 4-1-1-1 decoders are done with each instruction.                *)
(*                                                                         *)
(* An instruction i is what Pin tells of it:                               *)
(*   op       its opcode, one name for each group that is decoded alike    *)
(*   loads, stores    its memory operands: the base and the index register *)
(*   in, out  its registers, flags last                                    *)
(*   bytes, width, imm, atomic, lock, pred      its length, the width of   *)
(*            operand 1, and whether it has an immediate operand, is an    *)
(*            atomic update, has a lock prefix, is predicated              *)
(* A basic block is [addr |-> its address, ins |-> its instructions].      *)
(***************************************************************************)
EXTENDS Integers, Sequences, SequencesExt, FiniteSets, TLC

CONSTANT BlockBytes,        \* bytes that are fetched together: 16
         MaxPredecs,        \* instructions that are predecoded per cycle: 6
         SmallDecoders,     \* instructions that are decoded per cycle: 4
         SmallBytes         \* the longest one a small decoder takes: 7

ASSUME DecoderAssumption ==
    /\ {BlockBytes, MaxPredecs, SmallDecoders, SmallBytes} \subseteq Nat \ {0}

\* Registers: 0 is none of them.
RAX == 1
RSI == 2
RDI == 3
RFLAGS == 4
RIP == 5
RBX == 6
LoadTemp(k) == 6 + k
StoreTemp(k) == 8 + k
StoreAddrTemp(k) == 10 + k
ExecTemp(k) == 13 + k
Registers == 0 .. 15

P015 == {0, 1, 5}

Uop(type, rs0, rs1, rd0, rd1, lat, ports, extra) ==
    [type |-> type, rs |-> <<rs0, rs1>>, rd |-> <<rd0, rd1>>, lat |-> lat, ports |-> ports,
     extra |-> extra, dec |-> 0]

Uops ==
    [type : {"GENERAL", "LOAD", "STORE", "STORE_ADDR", "FENCE"}, rs : Registers \X Registers,
     rd : Registers \X Registers, lat : Nat, ports : (SUBSET (0 .. 5)) \ {{}}, extra : Nat, dec : Nat]

Exec(rs0, rs1, rd0, rd1, lat, ports) == <<Uop("GENERAL", rs0, rs1, rd0, rd1, lat, ports, 0)>>

emitFence(lat) == <<Uop("FENCE", 0, 0, 0, 0, lat, {4}, 0)>>

\* To the register r, or to the temporary of the load.
emitLoad(i, k, r) ==
    <<Uop("LOAD", i.loads[k][1], i.loads[k][2], IF r = 0 THEN LoadTemp(k) ELSE r, 0, 0, {2}, 0)>>

\* The address of a store is an operation of its own, which later loads wait for.
emitStore(i, k, r) ==
    <<Uop("STORE_ADDR", i.stores[k][1], i.stores[k][2], StoreAddrTemp(k), 0, 1, {3}, 0),
      Uop("STORE", StoreAddrTemp(k), IF r = 0 THEN StoreTemp(k) ELSE r, 0, 0, 0, {4}, 0)>>

emitLoads(i) == FlattenSeq([k \in 1 .. Len(i.loads) |-> emitLoad(i, k, 0)])

emitStores(i) == FlattenSeq([k \in 1 .. Len(i.stores) |-> emitStore(i, k, 0)])

\* populateRegArrays(): memory operands first, then registers, then none.
Srcs(i) == [k \in 1 .. Len(i.loads) |-> LoadTemp(k)] \o i.in \o <<0, 0>>

Dsts(i) == [k \in 1 .. Len(i.stores) |-> StoreTemp(k)] \o i.out \o <<0, 0>>

NumSrcs(i) == Len(i.loads) + Len(i.in)

NumDsts(i) == Len(i.stores) + Len(i.out)

-----------------------------------------------------------------------------
(* The templates *)

emitBasicMove(i, lat, ports) ==
    LET src == IF Len(i.in) = 1 THEN i.in[1] ELSE 0 IN
    IF i.stores = <<>>
    THEN IF i.loads = <<>> THEN Exec(src, 0, i.out[1], 0, lat, ports)
         ELSE emitLoad(i, 1, i.out[1])
    ELSE IF i.loads = <<>> THEN emitStore(i, 1, src)
         ELSE emitLoad(i, 1, 0) \o emitStore(i, 1, LoadTemp(1))

emitBasicOp(i, lat, ports, extra) ==
    emitLoads(i)
        \o <<Uop("GENERAL", Srcs(i)[1], Srcs(i)[2], Dsts(i)[1], Dsts(i)[2], lat, ports, extra)>>
        \o emitStores(i)

\* Each takes the result of the one before and another source.
emitChainedOp(i, lats, ports) ==
    LET n == Len(lats) IN
    emitLoads(i)
        \o [k \in 1 .. n |->
              Uop("GENERAL", IF k = 1 THEN Srcs(i)[1] ELSE ExecTemp(0),
                  IF k = 1 THEN Srcs(i)[2] ELSE Srcs(i)[IF k = n THEN n ELSE k + 1],
                  IF k = n THEN Dsts(i)[1] ELSE ExecTemp(0), IF k = n THEN Dsts(i)[2] ELSE 0,
                  lats[k], ports, 0)]
        \o emitStores(i)

emitConvert2Op(i, lats, ports1, ports2) ==
    IF i.stores # <<>> \/ Len(i.out) # 1 \/ NumSrcs(i) # 1 THEN <<>>    \* "Unhandled case"
    ELSE emitLoads(i)
            \o Exec(Srcs(i)[1], 0, ExecTemp(0), 0, lats[1], ports1)
            \o Exec(ExecTemp(0), 0, i.out[1], 0, lats[2], ports2)

emitConditionalMove(i, lat, ports) ==
    IF i.loads # <<>>
    THEN Exec(i.in[1], i.loads[1][2], ExecTemp(0), 0, lat, ports)
            \o << [emitLoad(i, 1, 0)[1] EXCEPT !.rs[2] = ExecTemp(0)] >>
    ELSE Exec(i.in[2], i.in[1], ExecTemp(0), 0, 1, ports)
            \o Exec(i.out[1], ExecTemp(0), i.out[1], 0, lat, ports)

emitXchg(i) ==
    IF i.loads # <<>>
    THEN emitLoad(i, 1, 0)
            \o Exec(i.in[1], 0, ExecTemp(0), 0, 1, P015)
            \o Exec(LoadTemp(1), 0, i.out[1], 0, 1, P015)
            \o emitStore(i, 1, ExecTemp(0))
            \o (IF i.lock THEN <<>> ELSE emitFence(14))
    ELSE Exec(i.in[1], 0, ExecTemp(0), 0, 1, P015)
            \o Exec(i.in[2], 0, i.out[1], 0, 1, P015)
            \o Exec(ExecTemp(0), 0, i.out[2], 0, 1, P015)

emitCompareAndExchange(i) ==
    LET s == Srcs(i)
        d == Dsts(i)
    IN  emitLoads(i)
        \o (IF i.loads = <<>>
            THEN Exec(s[1], d[2], ExecTemp(0), d[3], 1, P015)
                    \o Exec(s[2], d[3], ExecTemp(1), 0, 2, P015)
                    \o Exec(s[3], d[3], ExecTemp(2), 0, 2, P015)
                    \o Exec(ExecTemp(0), ExecTemp(1), d[1], 0, 2, P015)
                    \o Exec(ExecTemp(1), ExecTemp(2), d[2], 0, 2, P015)
            ELSE Exec(s[1], d[2], ExecTemp(0), d[3], 2, P015)
                    \o Exec(s[2], d[3], d[1], 0, 2, P015)
                    \o Exec(s[3], ExecTemp(0), d[2], 0, 2, P015))
        \o emitStores(i)

emitMul(i) ==
    LET s == Srcs(i)
        d == Dsts(i)
    IN  IF NumDsts(i) # 3 THEN emitBasicOp(i, 3, {1}, 0)
        ELSE emitLoads(i)
                \o Exec(s[1], s[2], d[1], ExecTemp(0), 3, {1})
                \o Exec(s[1], s[2], d[2], ExecTemp(1), 3, {1})
                \o Exec(ExecTemp(0), ExecTemp(1), d[3], 0, 1, P015)
                \o emitStores(i)

DivLat == (8 :> 15) @@ (16 :> 19) @@ (32 :> 23) @@ (64 :> 63)

emitDiv(i) ==
    LET s == Srcs(i)
        d == Dsts(i)
        lat == DivLat[i.width]
        long(k) == <<Uop("GENERAL", s[1], s[k], ExecTemp(k - 2), 0, lat, P015, lat - 1)>>
    IN  IF NumSrcs(i) = 3 /\ NumDsts(i) = 3
        THEN emitLoads(i) \o long(2) \o long(3)
                \o Exec(ExecTemp(0), ExecTemp(1), d[1], d[2], 1, P015)
                \o Exec(ExecTemp(0), ExecTemp(1), d[3], 0, 1, P015)
                \o emitStores(i)
        ELSE IF NumSrcs(i) <= 2 /\ NumDsts(i) <= 2 THEN emitBasicOp(i, lat, P015, lat - 1)
        ELSE <<>>                                                       \* "Unhandled case"

-----------------------------------------------------------------------------
(* decodeInstr(): the categories.  An opcode that no case knows gets no    *)
(* operations here, and a basic one below.                                 *)

Moves(i) ==
    CASE i.op = "BSWAP" -> emitBasicMove(i, 1, {1})
      [] i.op = "MOVAPS" -> emitBasicMove(i, 1, {5})
      [] i.op = "MOVHPS" -> emitBasicOp(i, 1, {5}, 0)
      [] i.op = "MOVMSKPS" -> emitBasicMove(i, 1, {0})
      [] i.op = "XCHG" -> emitXchg(i)
      [] i.op = "CMOV" -> emitConditionalMove(i, 1, P015)
      [] i.op = "FCMOV" -> emitConditionalMove(i, 1, {0})
      [] OTHER -> emitBasicMove(i, 1, P015)                             \* MOV, MOVD, MOVSX

Arithmetic(i) ==
    CASE i.op \in {"ADC", "SBB"} -> emitChainedOp(i, <<1, 1>>, P015)
      [] i.op \in {"MUL", "IMUL"} -> emitMul(i)
      [] i.op \in {"DIV", "IDIV"} -> emitDiv(i)
      [] i.op = "BSF" -> emitBasicOp(i, 3, P015, 0)
      [] i.op = "RCR" -> emitBasicOp(i, 2, {0, 5}, 0)
      [] i.op \in {"ROR", "SHL"} -> emitBasicOp(i, 1, {0, 5}, 0)
      [] i.op = "SHLD" -> emitChainedOp(i, <<2, 1>>, P015)
      [] i.op = "SHRD" -> emitChainedOp(i, <<2, 2>>, P015)
      [] i.op = "AAA" -> emitBasicOp(i, 3, P015, 0)
      [] i.op = "AAD" -> emitBasicOp(i, 15, P015, 0)
      [] i.op = "AAM" -> emitBasicOp(i, 20, P015, 0)
      [] i.op = "CLD" -> Exec(0, 0, ExecTemp(0), 0, 2, P015) \o Exec(ExecTemp(0), 0, RFLAGS, 0, 2, P015)
      [] i.op = "STD" -> Exec(0, 0, ExecTemp(0), 0, 3, P015) \o Exec(ExecTemp(0), 0, RFLAGS, 0, 2, P015)
      [] i.op = "CMPXCHG" -> emitCompareAndExchange(i)
      [] i.op = "XADD" -> emitChainedOp(i, <<2, 2>>, P015)
      [] OTHER -> emitBasicOp(i, 1, P015, 0)                            \* ADD, CMP, AND, BT, LAHF

\* Latency, ports and extra slots of the groups of SSE operations.
SSEGroups ==
    [g \in {"ADDPD", "CMPPD", "COMISD", "MAXPD", "RCPPS", "ROUNDPD", "POPCNT", "PCMPGTQ"} |->
        <<3, {1}, 0>>]
    @@ ("BLENDPS" :> <<1, {5}, 0>>)
    @@ [g \in {"DIVPS", "DIVPD", "SQRTSS", "SQRTSD"} |-> <<7, {0}, 6>>]
    @@ ("MULSS" :> <<4, {0}, 0>>) @@ ("MULSD" :> <<5, {0}, 0>>)
    @@ ("RSQRTPS" :> <<3, {1}, 1>>) @@ ("PADDB" :> <<1, {0, 5}, 0>>)
    @@ ("PMOVMSKB" :> <<4, {0}, 0>>) @@ ("SSE" :> <<1, P015, 0>>)

SSE(i) == LET g == SSEGroups[i.op] IN emitBasicOp(i, g[1], g[2], g[3])

Converts(i) ==
    CASE i.op = "CVTPD2PS" -> emitConvert2Op(i, <<2, 2>>, {1}, {5})
      [] i.op = "CVTPS2PD" -> emitConvert2Op(i, <<1, 1>>, {0}, {5})
      [] i.op = "CVTDQ2PD" -> emitConvert2Op(i, <<2, 4>>, {1}, {5})
      [] i.op = "CVTPI2PD" -> emitConvert2Op(i, <<2, 4>>, {1}, {0, 5})
      [] i.op = "CVTSI2SD" -> emitConvert2Op(i, <<2, 4>>, {1}, {0})
      [] i.op = "CVTSS2SD" -> emitBasicOp(i, 1, {0}, 0)
      [] i.op = "CVTDQ2PS" -> emitBasicOp(i, 5, {1}, 0)
      [] i.op = "CBW" -> emitBasicOp(i, 1, P015, 0)
      [] i.op = "CWD" -> emitBasicOp(i, 1, {0, 5}, 0)

\* The conditional branches: those that fuse with CMP and TEST, with TEST only, with neither.
CondBranches == {"JZ", "JO", "LOOP"}

Control(i) ==
    CASE i.op \in CondBranches \cup {"JMP", "CALL", "RET"} -> emitBasicOp(i, 1, {5}, 0)
      [] i.op \in {"POP", "PUSH"} -> emitBasicMove(i, 1, P015)
      [] i.op = "POPF" -> emitBasicOp(i, 14, P015, 0)
      [] i.op = "PUSHF" -> emitChainedOp(i, <<1, 1>>, P015)
      [] i.op = "PREFETCH" -> emitLoads(i)

Step(r) == Exec(r, 0, r, 0, 1, P015)

\* String operations and what has no category.  Both loads of CMPS are from its
\* first operand.
Strings(i) ==
    CASE i.op = "STOS" -> emitStore(i, 1, RAX) \o Step(RDI)
      [] i.op = "LODS" -> emitLoad(i, 1, RAX) \o Step(RSI)
      [] i.op = "MOVS" -> emitLoad(i, 1, RAX) \o emitStore(i, 1, RAX) \o Step(RSI) \o Step(RDI)
      [] i.op = "CMPS" -> emitLoad(i, 1, LoadTemp(1)) \o emitLoad(i, 1, LoadTemp(2))
                            \o Exec(LoadTemp(1), LoadTemp(2), RFLAGS, 0, 1, {5})
                            \o Step(RSI) \o Step(RDI)
      [] i.op = "LEA" -> emitBasicOp(i, 1, {1}, 0)
      [] i.op = "PAUSE" -> [k \in 1 .. 5 |-> LET l == <<9, 5, 5, 4, 4>>[k] IN
                                                Uop("GENERAL", 0, 0, 0, 0, l, P015, l - 1)]

Emit(i) ==
    CASE i.op = "NOP" -> Exec(0, 0, 0, 0, 1, P015)
      [] i.op \in {"BSWAP", "MOV", "MOVAPS", "MOVHPS", "MOVMSKPS", "XCHG", "CMOV", "FCMOV"} -> Moves(i)
      [] i.op \in {"ADC", "SBB", "MUL", "IMUL", "DIV", "IDIV", "ADD", "CMP", "TEST", "BSF", "RCR", "ROR",
                   "SHL", "SHLD", "SHRD", "AAA", "AAD", "AAM", "CLD", "STD", "CMPXCHG", "XADD"}
            -> Arithmetic(i)
      [] i.op \in DOMAIN SSEGroups -> SSE(i)
      [] i.op \in {"CVTPD2PS", "CVTPS2PD", "CVTDQ2PD", "CVTPI2PD", "CVTSI2SD", "CVTSS2SD",
                   "CVTDQ2PS", "CBW", "CWD"} -> Converts(i)
      [] i.op \in CondBranches \cup {"JMP", "CALL", "RET", "POP", "PUSH", "POPF", "PUSHF", "PREFETCH"}
            -> Control(i)
      [] i.op \in {"STOS", "LODS", "MOVS", "CMPS", "LEA", "PAUSE"} -> Strings(i)
      [] OTHER -> <<>>

\* Something approximate if there is nothing else.
OrApproximate(i, uops) == IF uops = <<>> THEN emitBasicOp(i, 1, P015, 0) ELSE uops

\* Fences around an atomic update.
decodeInstr(i) ==
    (IF i.atomic THEN emitFence(0) ELSE <<>>)
        \o OrApproximate(i, Emit(i))
        \o (IF i.atomic THEN emitFence(9) ELSE <<>>)

canFuse(i, next) ==
    /\ i.op \in {"CMP", "TEST"} /\ ~i.imm
    /\ next.op = "JZ" \/ (next.op = "JO" /\ i.op = "TEST")

decodeFusedInstrs(i, next) ==
    LET both == i.out = <<RFLAGS>> /\ next.out = <<RIP>> IN
    emitBasicOp(IF both THEN [i EXCEPT !.out = <<RFLAGS, RIP>>] ELSE i, 1, {5}, 0)

-----------------------------------------------------------------------------
(* decodeBbl() *)

Fuses(b, k) == k < Len(b.ins) /\ canFuse(b.ins[k], b.ins[k + 1])

UopsOf(b, k) ==
    IF k > 1 /\ Fuses(b, k - 1) THEN <<>>                               \* the branch of the pair
    ELSE IF Fuses(b, k) THEN decodeFusedInstrs(b.ins[k], b.ins[k + 1])
    ELSE decodeInstr(b.ins[k])

InstrUops(b) == [k \in 1 .. Len(b.ins) |-> UopsOf(b, k)]

\* The bytes before instruction k, from the start of the block of 16 that the first is in.
Offset(b, k) ==
    LET before[j \in 1 .. k] == IF j = 1 THEN b.addr % BlockBytes ELSE before[j - 1] + b.ins[j - 1].bytes
    IN  before[k]

\* The predecoder ends a cycle at 16 bytes, at 6 instructions and at the end of a block.
Predecoded(b) ==
    LET step[k \in 0 .. Len(b.ins)] ==
            IF k = 0 THEN [cyc |-> 0, sz |-> 0, cnt |-> 0, blk |-> 0]
            ELSE LET s == step[k - 1]
                     n == b.ins[k].bytes
                     blk == Offset(b, k) \div BlockBytes
                 IN  IF s.sz + n > BlockBytes \/ s.cnt + 1 > MaxPredecs \/ blk > s.blk
                     THEN [cyc |-> s.cyc + 1, sz |-> n, cnt |-> 1, blk |-> blk]
                     ELSE [s EXCEPT !.sz = @ + n, !.cnt = @ + 1]
    IN  [k \in 1 .. Len(b.ins) |-> step[k].cyc]

Simple(b, uops, k) == Len(uops[k]) = 1 /\ b.ins[k].bytes <= SmallBytes

BugDecoded(b, uops) == [k \in 1 .. Len(b.ins) |-> Predecoded(b)[k]]           \* any number per cycle

\* The cycle in which each instruction is decoded, uops being InstrUops(b).
Decoded(b, uops) ==
    LET pre == Predecoded(b)
        step[k \in 0 .. Len(b.ins)] ==
            IF k = 0 THEN [cyc |-> 0, simple |-> 0, complex |-> 0]
            ELSE LET s == IF pre[k] > step[k - 1].cyc
                          THEN [cyc |-> pre[k], simple |-> 0, complex |-> 0] ELSE step[k - 1]
                     full == IF Simple(b, uops, k) THEN s.simple + s.complex = SmallDecoders ELSE s.complex = 1
                     t == IF full THEN [cyc |-> s.cyc + 1, simple |-> 0, complex |-> 0] ELSE s
                 IN  IF uops[k] = <<>> THEN step[k - 1]                     \* fused branch
                     ELSE IF Simple(b, uops, k) THEN [t EXCEPT !.simple = @ + 1] ELSE [t EXCEPT !.complex = @ + 1]
    IN  [k \in 1 .. Len(b.ins) |-> step[k].cyc]

\* Every operation with the cycle of its instruction.
InOrder(uops, dec) ==
    FlattenSeq([k \in DOMAIN uops |-> [j \in DOMAIN uops[k] |-> [uops[k][j] EXCEPT !.dec = dec[k]]]])

\* The operations that the core executes for the block.
decodeBbl(b) == LET uops == InstrUops(b) IN InOrder(uops, Decoded(b, uops))

Bytes(b) == Offset(b, Len(b.ins)) + b.ins[Len(b.ins)].bytes - (b.addr % BlockBytes)

-----------------------------------------------------------------------------
(* Instrumentation (zsim.cpp): the calls that an instruction makes before  *)
(* it executes.  Pin reports at most two reads and one write.              *)

Instruction(i) ==
    [k \in 1 .. Len(i.loads) |-> IF i.pred THEN "predLoad" ELSE "load"]
        \o [k \in 1 .. Len(i.stores) |-> IF i.pred THEN "predStore" ELSE "store"]
        \o (IF i.op \in CondBranches THEN <<"branch">> ELSE <<>>)

\* The calls of a block: its own first.
Trace(b) == <<"bbl">> \o FlattenSeq([k \in 1 .. Len(b.ins) |-> Instruction(b.ins[k])])
=============================================================================
