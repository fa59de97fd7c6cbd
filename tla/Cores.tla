-------------------------------- MODULE Cores --------------------------------
(***************************************************************************)
(* A simulated core and the threads that run on it (src/src/null_core.cpp, *)
(* simple_core.cpp, timing_core.cpp, ooo_core.cpp): the calls that         *)
(* instrumented code makes, the end of a phase, context switches, and what *)
(* the recorders of timing and out-of-order cores do to the clock.         *)
(*                                                                         *)
(* A setup says what happens in a behaviour: kind is the core, bbls the    *)
(* basic blocks that threads execute, lats and fetches the latencies of    *)
(* data and of instructions, addrs the addresses, gaps what the weave      *)
(* phase adds to the clock, length the phaseLength; calls, phases and      *)
(* switches are bounds.                                                    *)
(***************************************************************************)
EXTENDS OOOPipeline

CONSTANTS Setups, Tids, LineSize

ASSUME CoreAssumption ==
    /\ LineSize \in Nat \ {0} /\ Cardinality(Tids) > 1
    /\ \A s \in Setups : s.length \in Nat \ {0}

\* Time does not go back, and the decoder knows the instructions.
ASSUME SetupsSupported ==
    \A s \in Setups :
        /\ s.kind \in {"Null", "Simple", "Timing", "OOO"}
        /\ s.lats \cup s.fetches \cup s.addrs \cup s.gaps \subseteq Nat
        /\ \A b \in s.bbls : Len(b.ins) \in Nat /\ Bytes(b) \in Nat /\ decodeBbl(b) \in Seq(Uops)

VARIABLES
    setup,
    core,       \* p: the pipeline, of which other cores use the clock only; phaseEnd, prev (prevBbl),
                \* loads, stores (the addresses that prev accesses), branch, rec (state of the recorder)
    work,       \* the micro-operations of prev that are left, and what bbl() keeps in its locals
    todo,       \* the calls that are left of the block a thread is in
    on,         \* the thread that has the context of the core
    st,         \* run: between calls; uops, frontend: in bbl(); check: in the loop of BblFunc; sync, synced:
                \* in TakeBarrier(), before and after the end of the phase; out: has left and not joined
    glob,       \* globPhaseCycles
    left,       \* what the setup still allows
    ops         \* history: the micro-operations so far

vars == <<setup, core, work, todo, on, st, glob, left, ops>>

None == [addr |-> -1, ins |-> <<>>]             \* no block
NoBranch == [pc |-> -1, taken |-> FALSE]
Idling == [block |-> None, uops |-> <<>>, loads |-> 0, stores |-> 0, dec |-> 0, last |-> 0, next |-> None]

PhaseLength == setup.length

Recorded == setup.kind \in {"Timing", "OOO"}

Init ==
    /\ setup \in Setups
    /\ core = [p |-> NewPipeline({b.addr : b \in setup.bbls}), phaseEnd |-> 0, prev |-> None,
               loads |-> <<>>, stores |-> <<>>, branch |-> NoBranch, rec |-> "HALTED"]
    /\ work = Idling
    /\ todo = [t \in Tids |-> <<>>]
    /\ on \in Tids
    /\ st = "out"
    /\ glob = 0
    /\ left = [calls |-> setup.calls, phases |-> setup.phases, switches |-> setup.switches]
    /\ ops = <<>>

Expect(c, b) == [c EXCEPT !.p.ok = @ /\ b]

-----------------------------------------------------------------------------
(* Calls of instrumented code *)

\* The lines of a block are fetched one after the other.
Fetches(b) ==
    LET lines == (Bytes(b) + LineSize - 1) \div LineSize
    IN  {SumFunction(f) : f \in [1 .. lines -> setup.fetches]}

Running(call) == st = "run" /\ todo[on] # <<>> /\ Head(todo[on]).call = call

Begin(b) ==
    /\ st = "run" /\ todo[on] = <<>> /\ left.calls > 0
    /\ todo' = [todo EXCEPT ![on] = [k \in 1 .. Len(Trace(b)) - 1 |-> [call |-> Trace(b)[k + 1], pc |-> b.addr]]]
    /\ left' = [left EXCEPT !.calls = @ - 1]

\* An instruction takes a cycle, and a null core sees nothing else.
InOrderBbl(b) ==
    /\ setup.kind # "OOO"
    /\ Begin(b)
    /\ \E f \in (IF setup.kind = "Null" THEN {0} ELSE Fetches(b)) :
            core' = [core EXCEPT !.p.cur = @ + Len(b.ins) + f]
    /\ st' = "check"
    /\ UNCHANGED <<setup, work, on, glob, ops>>

BugFirstBbl(b) ==                               \* keeps lingering accesses
    /\ setup.kind = "OOO" /\ core.prev = None
    /\ Begin(b)
    /\ core' = [core EXCEPT !.prev = b]
    /\ st' = "check"
    /\ UNCHANGED <<setup, work, on, glob, ops>>

\* bbl(): the first block since a thread was scheduled is not simulated yet.
FirstBbl(b) ==
    /\ setup.kind = "OOO" /\ core.prev = None
    /\ Begin(b)
    /\ core' = [core EXCEPT !.prev = b, !.loads = <<>>, !.stores = <<>>]
    /\ st' = "check"
    /\ UNCHANGED <<setup, work, on, glob, ops>>

\* bbl(): the operations of the block before are simulated, one by one.
OOOBbl(b) ==
    /\ setup.kind = "OOO" /\ core.prev # None
    /\ Begin(b)
    /\ work' = [Idling EXCEPT !.block = core.prev, !.uops = decodeBbl(core.prev), !.next = b]
    /\ core' = [core EXCEPT !.prev = b]
    /\ st' = "uops"
    /\ UNCHANGED <<setup, on, glob, ops>>

\* The address of the operation that is next; none if the block recorded too few.
Address(u) ==
    CASE u.type = "LOAD" /\ work.loads < Len(core.loads) -> core.loads[work.loads + 1]
      [] u.type = "STORE" /\ work.stores < Len(core.stores) -> core.stores[work.stores + 1]
      [] OTHER -> NoAddr

SimulateUop ==
    /\ st = "uops" /\ work.uops # <<>>
    /\ LET u == Head(work.uops)
           a == Address(u)
       IN  \E lat \in (IF a = NoAddr THEN {0} ELSE setup.lats) :
              \E x \in {RunUop(core.p, u, work.dec, a, lat)} :
              /\ core' = Expect([core EXCEPT !.p = x.p], x.p.cur <= x.at)
              /\ work' = [work EXCEPT !.uops = Tail(@), !.dec = u.dec, !.last = x.commit,
                                      !.loads = @ + (IF u.type = "LOAD" THEN 1 ELSE 0),
                                      !.stores = @ + (IF u.type = "STORE" THEN 1 ELSE 0)]
              /\ ops' = Append(ops, [u |-> u, addr |-> a, slot |-> x.slot, at |-> x.at,
                                     commit |-> x.commit, ret |-> x.p.rob.cyc])
    /\ UNCHANGED <<setup, todo, on, st, glob, left>>

\* The end of bbl(): a misprediction delays the fetch of the new block, whose lines
\* delay its decoding.  Fetches on the wrong path leave only records.
Frontend ==
    /\ st = "uops" /\ work.uops = <<>>
    /\ LET br == core.branch
           miss == br # NoBranch /\ predicts(core.p, br.pc) # br.taken
           p == IF br = NoBranch THEN core.p ELSE Predict(core.p, br.pc, br.taken)
           fetch == IF miss THEN work.last ELSE p.dec - FetchToDecode
       IN  \E f \in Fetches(work.next) :
              core' = Expect([core EXCEPT !.p = [p EXCEPT !.dec = Larger(@ + 1, fetch + f + FetchToDecode)],
                                          !.loads = <<>>, !.stores = <<>>, !.branch = NoBranch],
                             work.loads = Len(core.loads) /\ work.stores = Len(core.stores))
    /\ work' = Idling
    /\ st' = "check"
    /\ UNCHANGED <<setup, todo, on, glob, left, ops>>

Return == todo' = [todo EXCEPT ![on] = Tail(@)]

\* Load-, Store-, PredLoad- and PredStoreFunc.  In order, an access is simulated at
\* once; out of order it is kept for the block's operations.  What is predicated
\* and not executed becomes a load without address there.
Access(call, executes) ==
    /\ Running(call)
    /\ executes \/ call \in {"predLoad", "predStore"}
    /\ LET store == call \in {"store", "predStore"} IN
       CASE setup.kind = "Null" -> UNCHANGED core
         [] setup.kind = "OOO" /\ executes ->
                \E a \in setup.addrs : core' = IF store THEN [core EXCEPT !.stores = Append(@, a)]
                                               ELSE [core EXCEPT !.loads = Append(@, a)]
         [] setup.kind = "OOO" /\ ~executes -> core' = [core EXCEPT !.loads = Append(@, NoAddr)]
         [] OTHER -> \E lat \in setup.lats : core' = IF executes THEN [core EXCEPT !.p.cur = @ + lat] ELSE core
    /\ Return
    /\ UNCHANGED <<setup, work, on, st, glob, left, ops>>

\* BranchFunc: the last call of a block, and nothing in order.  The address of the
\* block stands for that of its branch.
Branch(taken) ==
    /\ Running("branch")
    /\ core' = IF setup.kind = "OOO" THEN [core EXCEPT !.branch = [pc |-> Head(todo[on]).pc, taken |-> taken]]
               ELSE core
    /\ Return
    /\ UNCHANGED <<setup, work, on, st, glob, left, ops>>

-----------------------------------------------------------------------------
(* Phases *)

\* The loop of BblFunc.
PhaseLoop ==
    /\ st = "check"
    /\ IF core.p.cur > core.phaseEnd
       THEN /\ st' = "sync"
            /\ core' = Expect([core EXCEPT !.phaseEnd = @ + PhaseLength],
                              Recorded \/ core.phaseEnd = glob + PhaseLength)
       ELSE st' = "run" /\ UNCHANGED core
    /\ UNCHANGED <<setup, work, todo, on, glob, left, ops>>

\* advance() of an out-of-order core moves all of its clocks; a timing core has one.
Advance(p, target) ==
    IF setup.kind # "OOO" THEN [p EXCEPT !.cur = target]
    ELSE IF target <= p.cur THEN p
    ELSE LongAdvance([NewCycle(p) EXCEPT !.dec = @ + target - p.cur], target)

\* cSimStart(), the weave phase, which finds a gap and may simulate the last event
\* of a core that drains, cSimEnd(); then the next phase begins.
EndPhase ==
    /\ st \in {"sync", "out"} /\ left.phases > 0
    /\ LET next == glob + PhaseLength
           started == IF core.rec = "DRAINING" THEN Advance(core.p, Larger(core.p.cur, next)) ELSE core.p
           due == core.rec = "RUNNING" =>
                    IF setup.kind = "OOO" THEN core.p.cur > next ELSE core.p.cur >= next
       IN  \/ /\ Recorded /\ core.rec # "HALTED"
              /\ \E gap \in setup.gaps, drained \in BOOLEAN :
                    /\ drained => core.rec = "DRAINING" /\ core.p.cur < next
                    /\ core' = Expect([core EXCEPT !.p = Advance(started, started.cur + gap),
                                                   !.rec = IF drained THEN "HALTED" ELSE @], due)
           \/ ~(Recorded /\ core.rec # "HALTED") /\ UNCHANGED core
    /\ glob' = glob + PhaseLength
    /\ left' = [left EXCEPT !.phases = @ - 1]
    /\ st' = IF st = "sync" THEN "synced" ELSE st
    /\ UNCHANGED <<setup, work, todo, on, ops>>

\* The thread has still its context: back to the loop.
Resume ==
    /\ st = "synced"
    /\ st' = "check"
    /\ UNCHANGED <<setup, core, work, todo, on, glob, left, ops>>

-----------------------------------------------------------------------------
(* Context switches *)

\* contextSwitch(-1)
contextSwitch(c) == [c EXCEPT !.prev = None]

leave(c) == IF Recorded THEN Expect([c EXCEPT !.rec = "DRAINING"], c.rec = "RUNNING") ELSE c

BugJoin(c) ==                                   \* keeps the end of the phase it left in
    [c EXCEPT !.rec = "RUNNING", !.p = Advance(@, Larger(c.p.cur, glob))]

\* A core that was halted starts with the phase; one that is still draining is not
\* behind it.  A timing core goes back to the start of the phase if it was ahead.
join(c) ==
    LET in == [c EXCEPT !.rec = IF Recorded THEN "RUNNING" ELSE @, !.phaseEnd = glob + PhaseLength]
    IN  CASE ~Recorded -> [in EXCEPT !.p = Advance(@, Larger(c.p.cur, glob))]
          [] Recorded /\ c.rec = "HALTED" -> [in EXCEPT !.p = Advance(@, glob)]
          [] Recorded /\ c.rec # "HALTED" -> Expect(in, c.rec = "DRAINING" /\ c.p.cur >= glob)

Switch(t) ==
    /\ t # on /\ left.switches > 0
    /\ on' = t
    /\ left' = [left EXCEPT !.switches = @ - 1]

\* sync() hands the context off, and the other thread goes on in the phase.  If it waited
\* in join(), or in TakeBarrier() with another core (newCid # cid), it returns to its
\* program; if it lost this very core in TakeBarrier(), it is back in the loop.
Handoff(t) ==
    /\ st = "synced" /\ Switch(t)
    /\ core' = contextSwitch(core)
    /\ st' \in {"run", "check"}
    /\ UNCHANGED <<setup, work, todo, glob, ops>>

\* A system call leaves between two blocks; the thread keeps the context, ...
Leave ==
    /\ st = "run" /\ todo[on] = <<>> /\ left.switches > 0
    /\ core' = leave(core)
    /\ left' = [left EXCEPT !.switches = @ - 1]
    /\ st' = "out"
    /\ UNCHANGED <<setup, work, todo, on, glob, ops>>

\* ... or another one takes it at once.
LeaveTo(t) ==
    /\ st = "run" /\ todo[on] = <<>> /\ Switch(t)
    /\ core' = join(contextSwitch(leave(core)))
    /\ UNCHANGED <<setup, work, todo, st, glob, ops>>

Join ==
    /\ st = "out"
    /\ core' = join(core)
    /\ st' = "run"
    /\ UNCHANGED <<setup, work, todo, on, glob, left, ops>>

\* Another thread joins and takes the context of one that is out.
Steal(t) ==
    /\ st = "out" /\ Switch(t)
    /\ core' = join(contextSwitch(core))
    /\ st' = "run"
    /\ UNCHANGED <<setup, work, todo, glob, ops>>

Next ==
    \/ \E b \in setup.bbls : InOrderBbl(b) \/ FirstBbl(b) \/ OOOBbl(b)
    \/ SimulateUop \/ Frontend
    \/ \E call \in {"load", "predLoad", "store", "predStore"}, executes \in BOOLEAN : Access(call, executes)
    \/ \E taken \in BOOLEAN : Branch(taken)
    \/ PhaseLoop \/ EndPhase \/ Resume
    \/ Leave \/ Join
    \/ \E t \in Tids : Handoff(t) \/ LeaveTo(t) \/ Steal(t)

Spec == Init /\ [][Next]_vars

-----------------------------------------------------------------------------
(* Properties *)

\* No assertion fails: a block makes exactly the accesses that its operations take
\* (ooo_core.cpp), whatever thread ran before; the window is never overfull and
\* ubWin never behind it (ooo_core.h); the loops of BblFunc and the recorders find
\* the clocks in the phase they expect.
AssertsHold == core.p.ok

\* The window is exact: occupancy counts the operations that are dispatched from
\* curCycle on, which have their ports, however blocks of cycles were rotated and
\* jumped over; the last operation is the only one on its port in its cycle.
WindowExact ==
    LET future == {i \in DOMAIN ops : ops[i].slot[1] >= core.p.cur}
        n == Len(ops)
    IN  /\ core.p.occ = Cardinality(future)
        /\ \A i \in future : ops[i].slot[2] \in SlotAt(core.p, ops[i].slot[1]).units
        /\ \A i \in 1 .. n - 1 : ops[i].slot # ops[n].slot

Is(i, type) == ops[i].u.type = type

\* Operations are executed in an order that the program allows (of the last one, at
\* any time): after the ones that give it its operands; a load or a store after the
\* addresses of all earlier stores, and after all stores before a fence; a load has
\* its data from the last store to the address, while fwdArray still knows it.
OrderKept ==
    LET j == Len(ops) IN
    j > 1 =>
    /\ \A r \in {ops[j].u.rs[1], ops[j].u.rs[2]} \ {0} :
        LET writers == {i \in 1 .. j - 1 : r \in {ops[i].u.rd[1], ops[i].u.rd[2]}}
        IN  writers # {} => ops[j].slot[1] >= ops[Max(writers)].commit
    /\ ops[j].u.type \in {"LOAD", "STORE"} =>
        \A i \in 1 .. j - 1 :
            /\ ops[i].u.type \in {"STORE_ADDR", "FENCE"} => ops[j].at > ops[i].commit
            /\ Is(i, "STORE") /\ (\E f \in i .. j : Is(f, "FENCE")) => ops[j].at > ops[i].commit
            /\ /\ Is(j, "LOAD") /\ Is(i, "STORE") /\ ops[i].addr = ops[j].addr
               /\ ~\E k \in i + 1 .. j - 1 : Is(k, "STORE") /\ FwdIdx(ops[k].addr) = FwdIdx(ops[i].addr)
               => ops[j].commit >= ops[i].commit

\* Whether the last operation comes after the one of its type whose entry it takes
\* in a queue of this size.
Waits(type, size) ==
    LET n == Len(ops) IN
    Is(n, type) =>
        \A i \in 1 .. n - 1 :
            Is(i, type) /\ Cardinality({k \in i .. n - 1 : Is(k, type)}) = size
                => ops[n].at >= ops[i].commit

\* Operations retire in order, after they are executed, and one more than the width
\* at most in a cycle; none enters the reorder buffer, or the load or the store queue,
\* before the one retires whose entry it takes (of the last one, at any time).
BuffersBounded ==
    LET n == Len(ops) IN
    n > 1 =>
    /\ ops[n].ret >= ops[n].commit
    /\ ops[n].ret >= ops[n - 1].ret
    /\ n > RetireWidth + 1 => ops[n].ret > ops[n - RetireWidth - 1].ret
    /\ n > RobSize => ops[n].slot[1] >= ops[n - RobSize].ret + IssueToDispatch
    /\ Waits("LOAD", LoadQueueSize) /\ Waits("STORE", StoreQueueSize)

\* The instructions of block b, with the operations uops, that are decoded in cycle c.
DecodedIn(b, uops, c) == {k \in DOMAIN uops : uops[k] # <<>> /\ Decoded(b, uops)[k] = c}

ComplexIn(b, uops, c) == {k \in DecodedIn(b, uops, c) : ~Simple(b, uops, k)}

KeepsToPredecoder(b, uops) ==
    LET pre == Predecoded(b)
        dec == Decoded(b, uops)
    IN  /\ \A c \in 0 .. pre[Len(pre)] :
            LET in == {k \in DOMAIN b.ins : pre[k] = c} IN
            /\ Cardinality(in) <= MaxPredecs
            /\ MapThenSumSet(LAMBDA k : b.ins[k].bytes, in) <= BlockBytes
        /\ \A k \in DOMAIN uops :
            /\ uops[k] # <<>> => dec[k] >= pre[k]
            /\ k > 1 => dec[k] >= dec[k - 1]

\* The operations of one instruction write a temporary before they read it.
NoStaleTemporary(uops) ==
    \A k \in DOMAIN uops : \A j \in DOMAIN uops[k] :
        \A r \in {uops[k][j].rs[1], uops[k][j].rs[2]} \cap (LoadTemp(1) .. ExecTemp(2)) :
            \E i \in 1 .. j - 1 : r \in {uops[k][i].rd[1], uops[k][i].rd[2]}

Decoding == st = "uops" /\ work.last = 0

\* Decoding keeps to the predecoder and to the one big decoder: at most 16 bytes and 6
\* instructions are predecoded in a cycle and at most one complex instruction is
\* decoded, in order and not before it is predecoded.  The operations of an
\* instruction never take a temporary register that an earlier instruction left.
DecodeExact ==
    Decoding => LET b == work.block
                    uops == InstrUops(b)
                IN  /\ KeepsToPredecoder(b, uops) /\ NoStaleTemporary(uops)
                    /\ \A c \in ToSet(Decoded(b, uops)) : Cardinality(ComplexIn(b, uops, c)) <= 1

\* "4-1-1-1 rules" (decoder.cpp:1381): there are four decoders, so that at most four
\* instructions are decoded in a cycle, complex ones included.
DecodeRules ==
    Decoding => LET b == work.block
                    uops == InstrUops(b)
                IN  \A c \in ToSet(Decoded(b, uops)) : Cardinality(DecodedIn(b, uops, c)) <= SmallDecoders

\* A core is in the phase of the simulation: the end it compares its clock with is
\* that of the current phase, after any number of phases in one block, handoffs and
\* joins, and its clock is neither behind the phase while it runs nor still within
\* it when it waits for the end.
CoreInPhase ==
    /\ st # "out" => core.phaseEnd = glob + (IF st = "sync" THEN 2 ELSE 1) * PhaseLength
    /\ st # "out" => core.p.cur >= glob
    /\ st = "sync" => core.p.cur > glob + PhaseLength
=============================================================================
