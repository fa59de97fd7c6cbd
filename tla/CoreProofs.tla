------------------------------ MODULE CoreProofs ------------------------------
(***************************************************************************)
(* Theorems about Cores: the instruction window, the order of operations,  *)
(* the buffers and the phase of a core, for every setup and every size of  *)
(* the pipeline.  The argument has three parts: what the window does with  *)
(* a cycle, a jump and one more operation; what an operation does to the   *)
(* rest of the pipeline on its way from decoding to retirement; and that   *)
(* the history of the operations so far says what is in a pipeline (IInv), *)
(* action by action.                                                       *)
(***************************************************************************)
EXTENDS Cores, ProofFacts

-----------------------------------------------------------------------------
(* What a pipeline is. *)

Slots == [units : SUBSET (0 .. 5), n : Nat]

PipeFields == {"cur", "dec", "cw", "nw", "ub", "pos", "occ", "rob", "lq", "sq", "uq", "reg", "fwd", "st", "sta",
               "rf", "iss", "bhsr", "pht", "ok"}

\* Its clock and its window, also at the end of a block.
Moving(p) ==
    /\ p = [f \in PipeFields |-> p[f]]
    /\ p.cur \in Nat /\ p.pos \in 0 .. H /\ p.occ \in Int
    /\ p.cw \in [0 .. H - 1 -> Slots] /\ p.nw \in [0 .. H - 1 -> Slots]
    /\ \A k \in 0 .. p.pos - 1 : p.cw[k] = Idle
    /\ p.ub \in [DOMAIN p.ub -> Slots] /\ DOMAIN p.ub \in SUBSET Nat /\ IsFiniteSet(DOMAIN p.ub)

Window(p) == Moving(p) /\ p.pos # H

Buffers(size) == [buf : [0 .. size - 1 -> Int], idx : 0 .. size - 1, cyc : Int, n : Int]

\* The rest of it.
Backend(p) ==
    /\ p.dec \in Int /\ p.st \in Int /\ p.sta \in Int /\ p.rf \in Int /\ p.iss \in Int
    /\ p.rob \in Buffers(RobSize) /\ p.lq \in Buffers(LoadQueueSize) /\ p.sq \in Buffers(StoreQueueSize)
    /\ p.uq \in Buffers(UopQueueSize)
    /\ p.reg \in [Registers -> Int] /\ p.fwd \in [0 .. FwdEntries - 1 -> [addr : Int, cyc : Int]]

\* The operations that have the slots s are in the window, and no others.
At(s, c) == {i \in DOMAIN s : s[i][1] = c}
From(s, c) == {i \in DOMAIN s : s[i][1] >= c}

Scheduled(p, s) ==
    /\ p.occ = Cardinality(From(s, p.cur))
    /\ \A c \in Nat : c >= p.cur =>
        /\ SlotAt(p, c).n = Cardinality(At(s, c))
        /\ \A i \in At(s, c) : s[i][2] \in SlotAt(p, c).units

\* Registers, and what waits for stores and for fences, after the operations o.
Writes(e, r) == r \in {e.u.rd[1], e.u.rd[2]}

Ordered(p, o) ==
    /\ \A r \in Registers \ {0} : \A i \in 1 .. Len(o) :
        Writes(o[i], r) /\ (\A k \in i + 1 .. Len(o) : ~Writes(o[k], r)) => p.reg[r] = o[i].commit
    /\ \A i \in 1 .. Len(o) :
        /\ o[i].u.type \in {"STORE_ADDR", "FENCE"} => p.sta >= o[i].commit
        /\ o[i].u.type = "STORE" =>
            /\ p.st >= o[i].commit
            /\ (\E f \in i .. Len(o) : o[f].u.type = "FENCE") => p.sta >= o[i].commit
            /\ \/ p.fwd[FwdIdx(o[i].addr)] = [addr |-> o[i].addr, cyc |-> o[i].commit]
               \/ \E k \in i + 1 .. Len(o) : o[k].u.type = "STORE" /\ FwdIdx(o[k].addr) = FwdIdx(o[i].addr)

\* The place in a buffer of the d-th last that entered it.
Place(b, size, d) == IF d <= b.idx THEN b.idx - d ELSE b.idx - d + size

Retired(b, o) ==
    /\ b.n \in 0 .. RetireWidth
    /\ Len(o) > 0 => b.cyc = o[Len(o)].ret
    /\ \A i \in 1 .. Len(o) : o[i].ret <= b.cyc /\ (i < Len(o) - b.n => o[i].ret < b.cyc)
    /\ \A d \in 1 .. RobSize : d <= Len(o) => b.buf[Place(b, RobSize, d)] = o[Len(o) - d + 1].ret

OfType(o, type, i) == {k \in i .. Len(o) : o[k].u.type = type}

Queued(b, size, o, type) ==
    \A i \in 1 .. Len(o) :
        o[i].u.type = type /\ Cardinality(OfType(o, type, i)) <= size
            => b.buf[Place(b, size, Cardinality(OfType(o, type, i)))] >= o[i].commit

Buffered(p, o) ==
    /\ Retired(p.rob, o)
    /\ Queued(p.lq, LoadQueueSize, o, "LOAD") /\ Queued(p.sq, StoreQueueSize, o, "STORE")

SlotsOf(o) == [i \in DOMAIN o |-> o[i].slot]

Events == [u : Uops, addr : Int, slot : Nat \X Nat, at : Int, commit : Int, ret : Int]

\* Cores that are not out of order have a pipeline that is not used.
Unused(p) ==
    /\ p.cw = [k \in 0 .. H - 1 |-> Idle] /\ p.nw = p.cw /\ p.ub = <<>> /\ p.pos = 0 /\ p.occ = 0

CoreFields == {"p", "phaseEnd", "prev", "loads", "stores", "branch", "rec"}
WorkFields == {"block", "uops", "loads", "stores", "dec", "last", "next"}

CoreOf(c, bbls) ==
    /\ c = [f \in CoreFields |-> c[f]]
    /\ c.phaseEnd \in Int /\ c.prev \in bbls \cup {None} /\ c.loads \in Seq(Int) /\ c.stores \in Seq(Int)

WorkOf(w) ==
    /\ w = [f \in WorkFields |-> w[f]]
    /\ w.uops \in Seq(Uops) /\ w.loads \in Nat /\ w.stores \in Nat /\ w.dec \in Int /\ w.last \in Int

CoreTypes ==
    /\ setup \in Setups
    /\ CoreOf(core, setup.bbls) /\ WorkOf(work)
    /\ st = "uops" => work.next \in setup.bbls /\ setup.kind = "OOO"
    /\ glob \in Nat /\ ops \in Seq(Events)

LastOnly ==
    \A i \in 1 .. Len(ops) - 1 : ops[i].slot # ops[Len(ops)].slot

Recording ==
    Recorded => /\ st # "out" => core.rec = "RUNNING"
                /\ st = "out" => core.rec \in {"DRAINING", "HALTED"}
                /\ core.rec = "DRAINING" => core.p.cur >= glob

IInv ==
    /\ CoreTypes
    /\ Window(core.p) /\ Backend(core.p)
    /\ Scheduled(core.p, SlotsOf(ops)) /\ Ordered(core.p, ops) /\ Buffered(core.p, ops)
    /\ LastOnly /\ OrderKept /\ BuffersBounded
    /\ setup.kind # "OOO" => ops = <<>> /\ Unused(core.p)
    /\ Recording /\ CoreInPhase

-----------------------------------------------------------------------------
(* Least and greatest elements. *)

\* A nonempty set of naturals has a least element, which Min gives.
LEMMA MinOf ==
    ASSUME NEW S \in SUBSET Nat, S # {}
    PROVE  Min(S) \in S /\ \A y \in S : Min(S) <= y
  <1>1. PICK n \in S : \A m \in S : ~(<<m, n>> \in OpToRel(<, Nat))
    BY NatLessThanWellFounded, WFMin
  <1>2. \A m \in S : ~(m < n)
    BY <1>1 DEF OpToRel
  <1>3. \A m \in S : n <= m
    BY <1>2
  <1> QED
    BY <1>3 DEF Min

\* A finite one has a greatest.
LEMMA MaxOf ==
    ASSUME NEW S \in SUBSET Nat, S # {}, IsFiniteSet(S)
    PROVE  Max(S) \in S /\ \A y \in S : y <= Max(S)
  <1>1. PICK Q : Q = {s \in SUBSET S : s = {} \/ \E x \in s : \A y \in s : y <= x}
    OBVIOUS
  <1>2. ASSUME NEW s \in SUBSET S, s # {}, \A x \in s : s \ {x} \in Q PROVE s \in Q
    <2>1. PICK x \in s : TRUE
      BY <1>2
    <2>2. CASE s \ {x} = {}
      <3>1. \A y \in s : y <= x
        BY <2>2
      <3> QED
        BY <1>1, <3>1
    <2>3. CASE s \ {x} # {}
      <3>1. PICK z \in s \ {x} : \A y \in s \ {x} : y <= z
        BY <1>1, <1>2, <2>3
      <3>2. (\A y \in s : y <= x) \/ (\A y \in s : y <= z)
        BY <3>1
      <3> QED
        BY <1>1, <3>2
    <2> QED
      BY <2>2, <2>3
  <1>3. S \in Q
    <2>1. {} \in Q /\ Q \in SUBSET (SUBSET S)
      BY <1>1
    <2>2. Inductive(Q, S)
      BY <1>2 DEF Inductive
    <2> QED
      BY <2>1, <2>2, SetInduct
  <1>4. PICK x \in S : \A y \in S : y <= x
    BY <1>1, <1>3
  <1>5. \A y \in S : x >= y
    BY <1>4
  <1>6. Max(S) \in S /\ \A y \in S : Max(S) >= y
    BY <1>5 DEF Max
  <1> QED
    BY <1>6

-----------------------------------------------------------------------------
(* The window *)

\* What moving the window leaves alone.
Apart(p, q) ==
    /\ q.dec = p.dec /\ q.rob = p.rob /\ q.lq = p.lq /\ q.sq = p.sq /\ q.uq = p.uq /\ q.reg = p.reg
    /\ q.fwd = p.fwd /\ q.st = p.st /\ q.sta = p.sta /\ q.rf = p.rf /\ q.iss = p.iss

\* The fields of a window that has passed its cycle.
Passed(p, q) ==
    /\ q = [f \in PipeFields |-> q[f]]
    /\ q.cw = [p.cw EXCEPT ![p.pos] = Idle] /\ q.nw = p.nw /\ q.ub = p.ub
    /\ q.pos = p.pos + 1 /\ q.cur = p.cur + 1 /\ q.occ = p.occ - p.cw[p.pos].n
    /\ Apart(p, q)

\* The fields of one that has been rebased.
Rebased(p, q) ==
    /\ q = [f \in PipeFields |-> q[f]]
    /\ q.cw = p.nw /\ q.pos = 0 /\ q.cur = p.cur /\ q.occ = p.occ
    /\ q.nw = [k \in 0 .. H - 1 |-> IF p.cur + H + k \in DOMAIN p.ub THEN p.ub[p.cur + H + k] ELSE p.cw[k]]
    /\ q.ub = [c \in {c \in DOMAIN p.ub : c >= p.cur + 2 * H} |-> p.ub[c]]
    /\ Apart(p, q)

\* Those are the ways to advance.
LEMMA AdvanceFields ==
    ASSUME NEW p, Window(p)
    PROVE  \E q : Passed(p, q) /\ (IF q.pos = H THEN Rebased(q, advancePos(p)) ELSE advancePos(p) = q)
  <1>1. PICK q : q = [p EXCEPT !.occ = @ - p.cw[p.pos].n, !.cw[p.pos] = Idle, !.pos = @ + 1, !.cur = @ + 1]
    OBVIOUS
  <1>2. p = [f \in PipeFields |-> p[f]]
    BY DEF Window, Moving
  <1>3. Passed(p, q)
    BY <1>1, <1>2 DEF Passed, Apart, PipeFields
  <1>4. advancePos(p) = IF q.pos = H THEN Rebase(q) ELSE q
    BY <1>1 DEF advancePos
  <1>5. Rebased(q, Rebase(q))
    <2>1. q = [f \in PipeFields |-> q[f]]
      BY <1>3 DEF Passed
    <2> QED
      BY <2>1 DEF Rebased, Rebase, Apart, PipeFields
  <1> QED
    BY <1>3, <1>4, <1>5

\* A window that has passed a cycle, or was rebased, has the same slots for the cycles
\* that are left.
SameSlots(p, q) == \A c \in Nat : c >= q.cur => SlotAt(q, c) = SlotAt(p, c)

\* The slot of a cycle in which nothing is dispatched.
LEMMA IdleSlot == Idle \in Slots /\ Idle.units = {} /\ Idle.n = 0
  BY DEF Idle, Slots

\* The window has cycles.
LEMMA HAssumption == H \in Nat \ {0} /\ 0 \in 0 .. H - 1
  BY PipelineAssumption

\* A finite set with one more element is finite.
LEMMA OneMoreFinite ==
    ASSUME NEW S, IsFiniteSet(S), NEW x, NEW T, T = S \cup {x}
    PROVE  IsFiniteSet(T)
  <1>1. IsFiniteSet(S \cup {x})
    BY FS_AddElement
  <1> QED
    BY <1>1

\* After a cycle the window has the slots of the cycles that are left, ...
LEMMA PassedWindow ==
    ASSUME NEW p, Window(p), NEW q, Passed(p, q)
    PROVE  Moving(q) /\ SameSlots(p, q)
  <1> USE HAssumption, IdleSlot
  <1>1. /\ p.cur \in Nat /\ p.pos \in 0 .. H - 1 /\ p.occ \in Int
        /\ p.cw \in [0 .. H - 1 -> Slots] /\ p.nw \in [0 .. H - 1 -> Slots]
        /\ \A k \in 0 .. p.pos - 1 : p.cw[k] = Idle
    BY DEF Window, Moving
  <1>2. p.cw[p.pos].n \in Int
    BY <1>1 DEF Slots
  <1>a. /\ q.cur = p.cur + 1 /\ q.pos = p.pos + 1 /\ q.occ = p.occ - p.cw[p.pos].n
        /\ q.cw = [p.cw EXCEPT ![p.pos] = Idle] /\ q.nw = p.nw
    BY DEF Passed
  <1>3. q.cur \in Nat /\ q.pos \in 0 .. H /\ q.occ \in Int
    BY <1>1, <1>2, <1>a, SMTT(30)
  <1>4. q.cw \in [0 .. H - 1 -> Slots] /\ q.nw \in [0 .. H - 1 -> Slots]
    BY <1>1, <1>a
  <1>5. \A k \in 0 .. q.pos - 1 : q.cw[k] = Idle
    <2>1. ASSUME NEW k \in 0 .. q.pos - 1 PROVE k \in 0 .. H - 1 /\ (k = p.pos \/ k \in 0 .. p.pos - 1)
      BY <1>1, <1>a
    <2> QED
      BY <1>1, <1>a, <2>1
  <1>6. Moving(q)
    BY <1>3, <1>4, <1>5 DEF Window, Moving, Passed
  <1>7. ASSUME NEW c \in Nat, c >= q.cur PROVE SlotAt(q, c) = SlotAt(p, c)
    <2>1. PICK o \in Int : o = c - p.cur + p.pos
      BY <1>1
    <2>0. q.cur = p.cur + 1 /\ q.pos = p.pos + 1 /\ q.cw = [p.cw EXCEPT ![p.pos] = Idle]
      BY DEF Passed
    <2>2. c - q.cur + q.pos = o /\ o > p.pos
      <3>1. p.cur \in Int /\ p.pos \in Int
        BY <1>1
      <3> QED
        BY <2>0, <2>1, <1>7, <3>1
    <2>3. o < H => q.cw[o] = p.cw[o]
      <3>1. o < H => o \in 0 .. H - 1 /\ o # p.pos
        BY <1>1, <2>2
      <3> QED
        BY <1>1, <2>0, <3>1
    <2> QED
      BY <2>1, <2>2, <2>3 DEF SlotAt, Passed
  <1> QED
    BY <1>6, <1>7 DEF SameSlots

\* ... also when blocks of cycles were rotated.
LEMMA RebasedWindow ==
    ASSUME NEW p, Moving(p), p.pos = H, NEW q, Rebased(p, q)
    PROVE  Window(q) /\ SameSlots(p, q)
  <1> USE HAssumption, IdleSlot
  <1>1. /\ p.cur \in Nat /\ p.occ \in Int
        /\ p.cw \in [0 .. H - 1 -> Slots] /\ p.nw \in [0 .. H - 1 -> Slots]
        /\ \A k \in 0 .. H - 1 : p.cw[k] = Idle
        /\ p.ub \in [DOMAIN p.ub -> Slots] /\ DOMAIN p.ub \in SUBSET Nat /\ IsFiniteSet(DOMAIN p.ub)
    BY DEF Moving
  <1>2. q.cur \in Nat /\ q.pos \in 0 .. H /\ q.pos # H /\ q.occ \in Int
    BY <1>1 DEF Rebased
  <1>3. q.cw \in [0 .. H - 1 -> Slots]
    <2>1. q.cw = p.nw
      BY DEF Rebased
    <2> QED
      BY <1>1, <2>1
  <1>4. q.nw \in [0 .. H - 1 -> Slots]
    <2>1. q.nw = [k \in 0 .. H - 1 |-> IF p.cur + H + k \in DOMAIN p.ub THEN p.ub[p.cur + H + k] ELSE p.cw[k]]
      BY DEF Rebased
    <2> QED
      BY <1>1, <2>1
  <1>5. DOMAIN q.ub \in SUBSET DOMAIN p.ub /\ q.ub \in [DOMAIN q.ub -> Slots]
    <2>1. PICK D : D = {c \in DOMAIN p.ub : c >= p.cur + 2 * H}
      OBVIOUS
    <2>2. q.ub = [c \in D |-> p.ub[c]]
      BY <2>1 DEF Rebased
    <2> QED
      BY <1>1, <2>1, <2>2
  <1>6. IsFiniteSet(DOMAIN q.ub) /\ DOMAIN q.ub \in SUBSET Nat
    BY <1>1, <1>5, FS_Subset
  <1>7. \A k \in 0 .. q.pos - 1 : q.cw[k] = Idle
    BY DEF Rebased
  <1>8. Window(q)
    BY <1>2, <1>3, <1>4, <1>5, <1>6, <1>7 DEF Window, Moving, Rebased
  <1>9. ASSUME NEW c \in Nat, c >= q.cur PROVE SlotAt(q, c) = SlotAt(p, c)
    <2>1. PICK o \in Int : o = c - q.cur + q.pos
      BY <1>2
    <2>2. c - p.cur + p.pos = o + H /\ o >= 0 /\ c = p.cur + o
      BY <1>1, <2>1, <1>9 DEF Rebased
    <2>3. CASE o < H
      BY <1>1, <2>1, <2>2, <2>3 DEF SlotAt, Rebased
    <2>4. CASE o >= H /\ o < 2 * H
      <3>1. q.nw[o - H] = IF c \in DOMAIN p.ub THEN p.ub[c] ELSE Idle
        <4>1. o - H \in 0 .. H - 1 /\ p.cur + H + (o - H) = c
          <5>1. p.cur \in Nat
            BY <1>1
          <5> QED
            BY <5>1, <2>2, <2>4
        <4> QED
          BY <1>1, <4>1 DEF Rebased
      <3>2. SlotAt(q, c) = q.nw[o - H]
        BY <2>1, <2>4 DEF SlotAt
      <3>3. SlotAt(p, c) = IF c \in DOMAIN p.ub THEN p.ub[c] ELSE Idle
        BY <2>2, <2>4 DEF SlotAt
      <3> QED
        BY <3>1, <3>2, <3>3
    <2>5. CASE o >= 2 * H
      <3>1. c >= p.cur + 2 * H
        BY <1>1, <2>2, <2>5
      <3> QED
        BY <1>1, <2>1, <2>2, <2>5, <3>1 DEF SlotAt, Rebased
    <2> QED
      BY <2>3, <2>4, <2>5
  <1> QED
    BY <1>8, <1>9 DEF SameSlots

\* The slots of operations: a cycle and a port each.
Taken(s) == IsFiniteSet(DOMAIN s) /\ \A i \in DOMAIN s : s[i][1] \in Nat

\* Later, only those count that are not dispatched yet.
LEMMA FromLater ==
    ASSUME NEW s, Taken(s), NEW c \in Nat
    PROVE  /\ Cardinality(From(s, c)) \in Nat /\ Cardinality(At(s, c)) \in Nat
           /\ Cardinality(From(s, c + 1)) = Cardinality(From(s, c)) - Cardinality(At(s, c))
  <1>1. At(s, c) \subseteq From(s, c) /\ From(s, c) \subseteq DOMAIN s /\ At(s, c) \subseteq DOMAIN s
    BY DEF At, From, Taken
  <1>2. IsFiniteSet(From(s, c)) /\ IsFiniteSet(At(s, c))
    BY <1>1, FS_Subset DEF Taken
  <1>3. From(s, c + 1) = From(s, c) \ At(s, c)
    BY DEF At, From, Taken
  <1>4. From(s, c) \cap At(s, c) = At(s, c)
    BY <1>1
  <1>5. Cardinality(From(s, c) \ At(s, c)) = Cardinality(From(s, c)) - Cardinality(From(s, c) \cap At(s, c))
    BY <1>2, FS_Difference
  <1> QED
    BY <1>2, <1>3, <1>4, <1>5, FS_CardinalityType

\* One cycle passes: the operations that it dispatches leave the window.
LEMMA AdvanceScheduled ==
    ASSUME NEW p, Window(p), NEW s, Taken(s), Scheduled(p, s), NEW q, q = advancePos(p)
    PROVE  Window(q) /\ Scheduled(q, s) /\ Apart(p, q) /\ q.cur = p.cur + 1
  <1>1. PICK r : Passed(p, r) /\ (IF r.pos = H THEN Rebased(r, q) ELSE q = r)
    BY AdvanceFields
  <1>2. Moving(r) /\ SameSlots(p, r)
    BY <1>1, PassedWindow
  <1>3. Window(q) /\ SameSlots(r, q) /\ q.cur = r.cur /\ q.occ = r.occ /\ Apart(r, q)
    <2>1. CASE r.pos = H
      BY <1>1, <1>2, <2>1, RebasedWindow DEF Rebased
    <2>2. CASE r.pos # H
      BY <1>1, <1>2, <2>2 DEF Window, SameSlots, Apart
    <2> QED
      BY <2>1, <2>2
  <1>4. p.cur \in Nat /\ p.pos \in 0 .. H - 1 /\ p.pos < H /\ p.cur >= p.cur
    BY HAssumption DEF Window, Moving
  <1>5. r.cur = p.cur + 1 /\ r.occ = p.occ - p.cw[p.pos].n
    BY <1>1 DEF Passed
  <1>6. SlotAt(p, p.cur) = p.cw[p.pos]
    BY <1>4 DEF SlotAt
  <1>7. p.occ = Cardinality(From(s, p.cur)) /\ p.cw[p.pos].n = Cardinality(At(s, p.cur))
    BY <1>4, <1>6 DEF Scheduled
  <1>8. q.occ = Cardinality(From(s, q.cur))
    BY <1>3, <1>4, <1>5, <1>7, FromLater
  <1>9. ASSUME NEW c \in Nat, c >= q.cur PROVE SlotAt(q, c) = SlotAt(p, c) /\ c >= p.cur
    BY <1>2, <1>3, <1>4, <1>5, <1>9 DEF SameSlots
  <1>10. Scheduled(q, s)
    BY <1>8, <1>9 DEF Scheduled
  <1> QED
    BY <1>1, <1>3, <1>5, <1>10 DEF Passed, Apart

\* The calls of advancePos() one after the other.
WhileStep(p, f, occs, k) ==
    IF k = 0 THEN p ELSE LET q == f[k - 1] IN IF q.occ \in occs THEN advancePos(q) ELSE q
While(p, f, n, occs) == f = [k \in 0 .. n |-> WhileStep(p, f, occs, k)]

\* The recursion of AdvanceWhile() has a solution.
LEMMA WhileExists ==
    ASSUME NEW p, NEW occs, NEW n \in Nat
    PROVE  \E f : While(p, f, n, occs)
  <1>1. PICK N : N = {m \in Nat : \E f : While(p, f, m, occs)}
    OBVIOUS
  <1>2. 0 \in N
    <2>1. PICK f : f = [k \in 0 .. 0 |-> p]
      OBVIOUS
    <2>2. \A k \in 0 .. 0 : WhileStep(p, f, occs, k) = p
      BY DEF WhileStep
    <2>3. While(p, f, 0, occs)
      BY <2>1, <2>2 DEF While
    <2> QED
      BY <1>1, <2>3
  <1>3. ASSUME NEW m \in Nat, m \in N PROVE m + 1 \in N
    <2>1. PICK f : While(p, f, m, occs)
      BY <1>1, <1>3
    <2>2. PICK g : g = [k \in 0 .. m + 1 |-> WhileStep(p, f, occs, k)]
      OBVIOUS
    <2>3. \A k \in 0 .. m : g[k] = f[k]
      BY <2>1, <2>2 DEF While
    <2>4. \A k \in 0 .. m + 1 : WhileStep(p, f, occs, k) = WhileStep(p, g, occs, k)
      <3>1. \A k \in 0 .. m + 1 : k # 0 => k - 1 \in 0 .. m
        OBVIOUS
      <3> QED
        BY <2>3, <3>1 DEF WhileStep
    <2>5. g = [k \in 0 .. m + 1 |-> WhileStep(p, g, occs, k)]
      BY <2>2, <2>4
    <2>6. While(p, g, m + 1, occs)
      BY <2>5 DEF While
    <2> QED
      BY <1>1, <2>6
  <1>4. N = Nat
    BY <1>1, <1>2, <1>3, NatInduct
  <1> QED
    BY <1>1, <1>4

\* It is what AdvanceWhile() returns the last value of.
LEMMA WhileSolves ==
    ASSUME NEW p, NEW occs, NEW n \in Nat
    PROVE  \E f : /\ AdvanceWhile(p, n, occs) = f[n] /\ f[0] = p
                  /\ \A k \in 0 .. n : k # 0 =>
                        f[k] = IF f[k - 1].occ \in occs THEN advancePos(f[k - 1]) ELSE f[k - 1]
  <1>1. PICK f : f = CHOOSE g : While(p, g, n, occs)
    OBVIOUS
  <1>2. While(p, f, n, occs)
    <2>1. \E g : While(p, g, n, occs)
      BY WhileExists
    <2> HIDE DEF While
    <2> QED
      BY <1>1, <2>1
  <1>3. AdvanceWhile(p, n, occs) = f[n]
    BY <1>1 DEF AdvanceWhile, While, WhileStep
  <1>4. \A k \in 0 .. n : f[k] = WhileStep(p, f, occs, k)
    BY <1>2 DEF While
  <1>5. 0 \in 0 .. n
    OBVIOUS
  <1> QED
    BY <1>3, <1>4, <1>5 DEF WhileStep

\* However far the window moves, it stays exact.
LEMMA WhileScheduled ==
    ASSUME NEW p, Window(p), NEW s, Taken(s), Scheduled(p, s), NEW occs, NEW n \in Nat,
           NEW q, q = AdvanceWhile(p, n, occs)
    PROVE  /\ Window(q) /\ Scheduled(q, s) /\ Apart(p, q) /\ p.cur <= q.cur /\ q.cur <= p.cur + n
           /\ q.occ \notin occs \/ q.cur = p.cur + n
  <1>1. PICK f : /\ q = f[n] /\ f[0] = p
                 /\ \A k \in 0 .. n : k # 0 =>
                        f[k] = IF f[k - 1].occ \in occs THEN advancePos(f[k - 1]) ELSE f[k - 1]
    BY WhileSolves
  <1> DEFINE Fine(r, k) == /\ Window(r) /\ Scheduled(r, s) /\ Apart(p, r) /\ p.cur <= r.cur /\ r.cur <= p.cur + k
                           /\ r.occ \notin occs \/ r.cur = p.cur + k
  <1>2. PICK N : N = {k \in Nat : k <= n => Fine(f[k], k)}
    OBVIOUS
  <1>3. p.cur \in Nat
    BY DEF Window, Moving
  <1>4. 0 \in N
    <2>1. Fine(p, 0)
      BY <1>3 DEF Apart
    <2> HIDE DEF Fine
    <2> QED
      BY <1>1, <1>2, <2>1
  <1>5. ASSUME NEW k \in Nat, k \in N PROVE k + 1 \in N
    <2>1. SUFFICES ASSUME k + 1 <= n PROVE Fine(f[k + 1], k + 1)
      BY <1>2
    <2>2. Fine(f[k], k)
      BY <1>2, <1>5, <2>1
    <2>3. f[k + 1] = IF f[k].occ \in occs THEN advancePos(f[k]) ELSE f[k]
      <3>1. k + 1 \in 0 .. n /\ k + 1 # 0 /\ (k + 1) - 1 = k
        BY <2>1
      <3> QED
        BY <1>1, <3>1
    <2>4. CASE f[k].occ \in occs
      <3>1. /\ Window(f[k + 1]) /\ Scheduled(f[k + 1], s) /\ Apart(f[k], f[k + 1])
            /\ f[k + 1].cur = f[k].cur + 1
        BY <2>2, <2>3, <2>4, AdvanceScheduled
      <3>2. Apart(p, f[k + 1])
        BY <2>2, <3>1 DEF Apart
      <3>3. f[k].cur \in Nat
        BY <2>2 DEF Window, Moving
      <3> QED
        BY <1>3, <2>2, <2>4, <3>1, <3>2, <3>3
    <2>5. CASE f[k].occ \notin occs
      <3>3. f[k].cur \in Nat
        BY <2>2 DEF Window, Moving
      <3> QED
        BY <1>3, <2>2, <2>3, <2>5, <3>3
    <2> QED
      BY <2>4, <2>5
  <1>6. N = Nat
    <2> HIDE DEF Fine
    <2> QED
      BY <1>2, <1>4, <1>5, NatInduct
  <1>7. Fine(f[n], n)
    <2> HIDE DEF Fine
    <2> QED
      BY <1>2, <1>6
  <1> QED
    BY <1>1, <1>7

\* What is known of a cycle is a slot.
LEMMA SlotTyped ==
    ASSUME NEW p, Window(p), NEW c \in Nat, c >= p.cur
    PROVE  SlotAt(p, c) \in Slots
  <1> USE HAssumption, IdleSlot
  <1>1. /\ p.cur \in Nat /\ p.pos \in 0 .. H - 1
        /\ p.cw \in [0 .. H - 1 -> Slots] /\ p.nw \in [0 .. H - 1 -> Slots]
        /\ p.ub \in [DOMAIN p.ub -> Slots]
    BY DEF Window, Moving
  <1>2. PICK o \in Nat : o = c - p.cur + p.pos
    BY <1>1
  <1>3. (o < H => o \in 0 .. H - 1) /\ (o >= H /\ o < 2 * H => o - H \in 0 .. H - 1)
    BY <1>2
  <1>4. CASE o < H
    BY <1>1, <1>2, <1>3, <1>4 DEF SlotAt
  <1>5. CASE o >= H /\ o < 2 * H
    BY <1>1, <1>2, <1>3, <1>5 DEF SlotAt
  <1>6. CASE o >= 2 * H
    BY <1>1, <1>2, <1>6 DEF SlotAt
  <1> QED
    BY <1>2, <1>4, <1>5, <1>6

\* SetSlot changes this slot, and nothing else.
LEMMA SetSlotWindow ==
    ASSUME NEW p, Window(p), NEW c \in Nat, c >= p.cur, NEW s \in Slots, NEW q, q = SetSlot(p, c, s)
    PROVE  /\ Window(q) /\ Apart(p, q) /\ q.cur = p.cur /\ q.occ = p.occ
           /\ \A d \in Nat : d >= p.cur => SlotAt(q, d) = IF d = c THEN s ELSE SlotAt(p, d)
  <1> USE HAssumption, IdleSlot
  <1>0. p = [f \in PipeFields |-> p[f]]
    BY DEF Window, Moving
  <1>1. p.cur \in Nat /\ p.pos \in 0 .. H - 1 /\ p.occ \in Int
    BY DEF Window, Moving
  <1>7. /\ p.cw \in [0 .. H - 1 -> Slots] /\ p.nw \in [0 .. H - 1 -> Slots]
        /\ \A k \in 0 .. p.pos - 1 : p.cw[k] = Idle
    BY DEF Window, Moving
  <1>8. p.ub \in [DOMAIN p.ub -> Slots] /\ DOMAIN p.ub \in SUBSET Nat /\ IsFiniteSet(DOMAIN p.ub)
    BY DEF Window, Moving
  <1>2. PICK o \in Nat : o = c - p.cur + p.pos /\ o >= p.pos
    <2>1. c - p.cur + p.pos \in Nat /\ c - p.cur + p.pos >= p.pos
      BY <1>1
    <2> QED
      BY <2>1
  <1>3. CASE o < H
    <2>1. q = [p EXCEPT !.cw[o] = s]
      BY <1>2, <1>3 DEF SetSlot
    <2>2. /\ q = [f \in PipeFields |-> q[f]] /\ q.cw = [p.cw EXCEPT ![o] = s] /\ q.nw = p.nw /\ q.ub = p.ub
          /\ q.cur = p.cur /\ q.pos = p.pos /\ q.occ = p.occ /\ Apart(p, q)
      BY <1>0, <2>1 DEF PipeFields, Apart
    <2>3. o \in 0 .. H - 1
      BY <1>3
    <2>4. q.cw \in [0 .. H - 1 -> Slots] /\ \A k \in 0 .. q.pos - 1 : q.cw[k] = Idle
      <3>1. q.cw = [p.cw EXCEPT ![o] = s] /\ q.pos = p.pos
        BY <2>2
      <3>2. \A k \in 0 .. p.pos - 1 : k # o /\ k \in 0 .. H - 1
        BY <1>1, <1>2
      <3> QED
        BY <1>7, <2>3, <3>1, <3>2
    <2>5. Window(q)
      BY <2>2, <2>4 DEF Window, Moving
    <2>6. ASSUME NEW d \in Nat, d >= p.cur PROVE SlotAt(q, d) = IF d = c THEN s ELSE SlotAt(p, d)
      <3>1. PICK x \in Nat : x = d - p.cur + p.pos /\ (d = c <=> x = o)
        <4>1. d - p.cur + p.pos \in Nat /\ (d = c <=> d - p.cur + p.pos = o)
          BY <1>1, <1>2, <2>6
        <4> QED
          BY <4>1
      <3>2. x < H => q.cw[x] = IF d = c THEN s ELSE p.cw[x]
        BY <1>7, <2>2, <2>3, <3>1
      <3> QED
        BY <1>3, <2>2, <3>1, <3>2 DEF SlotAt
    <2> QED
      BY <2>2, <2>5, <2>6
  <1>4. CASE o >= H /\ o < 2 * H
    <2>1. q = [p EXCEPT !.nw[o - H] = s]
      BY <1>2, <1>4 DEF SetSlot
    <2>2. /\ q = [f \in PipeFields |-> q[f]] /\ q.nw = [p.nw EXCEPT ![o - H] = s] /\ q.cw = p.cw /\ q.ub = p.ub
          /\ q.cur = p.cur /\ q.pos = p.pos /\ q.occ = p.occ /\ Apart(p, q)
      BY <1>0, <2>1 DEF PipeFields, Apart
    <2>3. o - H \in 0 .. H - 1
      BY <1>4
    <2>4. q.nw \in [0 .. H - 1 -> Slots]
      <3>1. q.nw = [p.nw EXCEPT ![o - H] = s]
        BY <2>2
      <3> QED
        BY <1>7, <2>3, <3>1
    <2>5. Window(q)
      BY <2>2, <2>4 DEF Window, Moving
    <2>6. ASSUME NEW d \in Nat, d >= p.cur PROVE SlotAt(q, d) = IF d = c THEN s ELSE SlotAt(p, d)
      <3>1. PICK x \in Nat : x = d - p.cur + p.pos /\ (d = c <=> x = o)
        <4>1. d - p.cur + p.pos \in Nat /\ (d = c <=> d - p.cur + p.pos = o)
          BY <1>1, <1>2, <2>6
        <4> QED
          BY <4>1
      <3>2. x >= H /\ x < 2 * H => q.nw[x - H] = IF d = c THEN s ELSE p.nw[x - H]
        <4>1. q.nw = [p.nw EXCEPT ![o - H] = s]
          BY <2>2
        <4>2. x >= H /\ x < 2 * H => x - H \in 0 .. H - 1 /\ (x - H = o - H <=> d = c)
          BY <3>1
        <4> QED
          BY <1>7, <2>3, <4>1, <4>2
      <3> QED
        BY <1>4, <2>2, <3>1, <3>2 DEF SlotAt
    <2> QED
      BY <2>2, <2>5, <2>6
  <1>5. CASE o >= 2 * H
    <2>1. q = [p EXCEPT !.ub = [d \in {c} \cup DOMAIN p.ub |-> IF d = c THEN s ELSE p.ub[d]]]
      <3>1. ~(o < H) /\ ~(o < 2 * H)
        BY <1>5
      <3> QED
        BY <1>2, <3>1 DEF SetSlot
    <2>2. /\ q = [f \in PipeFields |-> q[f]] /\ q.nw = p.nw /\ q.cw = p.cw
          /\ q.ub = [d \in {c} \cup DOMAIN p.ub |-> IF d = c THEN s ELSE p.ub[d]]
          /\ q.cur = p.cur /\ q.pos = p.pos /\ q.occ = p.occ /\ Apart(p, q)
      BY <1>0, <2>1 DEF PipeFields, Apart
    <2>3. DOMAIN q.ub = DOMAIN p.ub \cup {c}
      BY <2>2
    <2>4. IsFiniteSet(DOMAIN q.ub)
      BY <1>8, <2>3, OneMoreFinite
    <2>5. q.ub \in [DOMAIN q.ub -> Slots] /\ DOMAIN q.ub \in SUBSET Nat
      BY <1>8, <2>2, <2>3
    <2>6. Window(q)
      BY <2>2, <2>4, <2>5 DEF Window, Moving
    <2>7. ASSUME NEW d \in Nat, d >= p.cur PROVE SlotAt(q, d) = IF d = c THEN s ELSE SlotAt(p, d)
      <3>1. PICK x \in Nat : x = d - p.cur + p.pos /\ (d = c <=> x = o)
        <4>1. d - p.cur + p.pos \in Nat /\ (d = c <=> d - p.cur + p.pos = o)
          BY <1>1, <1>2, <2>7
        <4> QED
          BY <4>1
      <3> QED
        BY <1>5, <2>2, <3>1 DEF SlotAt
    <2> QED
      BY <2>2, <2>6, <2>7
  <1> QED
    BY <1>2, <1>3, <1>4, <1>5

\* FirstFree() finds a cycle with a free port: there is one, beyond all that are known.
LEMMA FirstFreeIs ==
    ASSUME NEW p, Window(p), NEW c \in Nat, c >= p.cur, NEW ports \in SUBSET (0 .. 5), ports # {}
    PROVE  /\ FirstFree(p, c, ports) \in Nat /\ FirstFree(p, c, ports) >= c
           /\ ports \ SlotAt(p, FirstFree(p, c, ports)).units # {}
           /\ Beyond(p) \in Nat /\ Beyond(p) > p.cur
  <1> USE HAssumption, IdleSlot
  <1>1. p.cur \in Nat /\ p.pos \in 0 .. H - 1 /\ DOMAIN p.ub \in SUBSET Nat /\ IsFiniteSet(DOMAIN p.ub)
    BY DEF Window, Moving
  <1>2. PICK K : K = {p.cur + 2 * H} \cup DOMAIN p.ub
    OBVIOUS
  <1>3. K \in SUBSET Nat /\ K # {} /\ IsFiniteSet(K)
    <2>1. p.cur + 2 * H \in Nat
      BY <1>1
    <2>2. K = DOMAIN p.ub \cup {p.cur + 2 * H}
      BY <1>2
    <2>3. IsFiniteSet(K)
      BY <1>1, <2>2, OneMoreFinite
    <2> QED
      BY <1>1, <2>1, <2>2, <2>3
  <1>4. Beyond(p) \in Nat /\ \A k \in K : k < Beyond(p)
    <2>1. Max(K) \in K /\ \A k \in K : k <= Max(K)
      BY <1>3, MaxOf
    <2>2. Beyond(p) = Max(K) + 1
      BY <1>2 DEF Beyond
    <2>3. Max(K) \in Nat
      BY <1>3, <2>1
    <2>4. \A k \in K : k \in Nat
      BY <1>3
    <2> QED
      BY <2>1, <2>2, <2>3, <2>4
  <1>5. PICK top \in Nat : top = Larger(c, Beyond(p)) /\ top >= c /\ top >= Beyond(p)
    BY <1>4 DEF Larger
  <1>6. SlotAt(p, top) = Idle
    <2>1. top \notin DOMAIN p.ub /\ top - p.cur + p.pos >= 2 * H
      BY <1>1, <1>2, <1>4, <1>5
    <2>2. ~(top - p.cur + p.pos < H) /\ ~(top - p.cur + p.pos < 2 * H)
      BY <1>1, <1>5, <2>1
    <2> QED
      BY <2>1, <2>2 DEF SlotAt
  <1>7. PICK F : F = {d \in c .. Larger(c, Beyond(p)) : ports \ SlotAt(p, d).units # {}}
    OBVIOUS
  <1>8. F \in SUBSET Nat /\ top \in F
    BY <1>5, <1>6, <1>7
  <1>9. Min(F) \in F
    BY <1>8, MinOf
  <1> QED
    BY <1>1, <1>2, <1>4, <1>5, <1>7, <1>9 DEF FirstFree

\* A port that was free is taken at the cycle at, for n operations.
Takes(p, r, at, ports, n) ==
    /\ Window(r.p) /\ Apart(p, r.p) /\ r.p.cur = p.cur /\ r.p.occ = p.occ + n
    /\ r = [p |-> r.p, at |-> at, port |-> r.port]
    /\ at \in Nat /\ at >= p.cur /\ r.port \in ports /\ r.port \notin SlotAt(p, at).units
    /\ \A d \in Nat : d >= p.cur =>
        SlotAt(r.p, d) = IF d = at THEN [units |-> SlotAt(p, at).units \cup {r.port}, n |-> SlotAt(p, at).n + n]
                         ELSE SlotAt(p, d)

\* TakePort takes one of the ports that are free.
LEMMA TakePortTakes ==
    ASSUME NEW p, Window(p), NEW at \in Nat, at >= p.cur, NEW ports \in SUBSET (0 .. 5), NEW n \in {0, 1},
           ports \ SlotAt(p, at).units # {}, NEW r, r = TakePort(p, at, ports, n)
    PROVE  Takes(p, r, at, ports, n)
  <1>1. PICK s : s = SlotAt(p, at)
    OBVIOUS
  <1>2. s \in Slots
    BY <1>1, SlotTyped
  <1>3. PICK port : port = Min(ports \ s.units)
    OBVIOUS
  <1>4. port \in ports \ s.units
    <2>0. \A k \in ports : k \in Nat
      OBVIOUS
    <2>1. ports \ s.units \in SUBSET Nat
      BY <2>0
    <2> QED
      BY <1>1, <1>3, <2>1, MinOf
  <1>5. PICK e : e = [units |-> s.units \cup {port}, n |-> s.n + n]
    OBVIOUS
  <1>6. e \in Slots
    <2>1. s.units \in SUBSET (0 .. 5) /\ s.n \in Nat
      BY <1>2 DEF Slots
    <2>2. s.units \cup {port} \in SUBSET (0 .. 5) /\ s.n + n \in Nat
      BY <1>4, <2>1
    <2> QED
      BY <1>5, <2>2 DEF Slots
  <1>7. PICK q : q = SetSlot(p, at, e)
    OBVIOUS
  <1>8. /\ Window(q) /\ Apart(p, q) /\ q.cur = p.cur /\ q.occ = p.occ
        /\ \A d \in Nat : d >= p.cur => SlotAt(q, d) = IF d = at THEN e ELSE SlotAt(p, d)
    BY <1>6, <1>7, SetSlotWindow
  <1>9. r = [p |-> [q EXCEPT !.occ = @ + n], at |-> at, port |-> port]
    BY <1>1, <1>3, <1>5, <1>7 DEF TakePort
  <1>10. q = [f \in PipeFields |-> q[f]] /\ q.occ \in Int
    BY <1>8 DEF Window, Moving
  <1>11. /\ r.p = [f \in PipeFields |-> r.p[f]] /\ r.p.occ = q.occ + n /\ Apart(q, r.p) /\ r.at = at /\ r.port = port
         /\ r.p.cur = q.cur /\ r.p.pos = q.pos /\ r.p.cw = q.cw /\ r.p.nw = q.nw /\ r.p.ub = q.ub
    BY <1>9, <1>10 DEF PipeFields, Apart
  <1>12. Window(r.p)
    <2>1. /\ q.cur \in Nat /\ q.pos \in 0 .. H /\ q.pos # H
          /\ q.cw \in [0 .. H - 1 -> Slots] /\ q.nw \in [0 .. H - 1 -> Slots]
          /\ \A k \in 0 .. q.pos - 1 : q.cw[k] = Idle
          /\ q.ub \in [DOMAIN q.ub -> Slots] /\ DOMAIN q.ub \in SUBSET Nat /\ IsFiniteSet(DOMAIN q.ub)
      BY <1>8 DEF Window, Moving
    <2>2. r.p.occ \in Int
      BY <1>10, <1>11
    <2> QED
      BY <1>11, <2>1, <2>2 DEF Window, Moving
  <1>13. \A d : SlotAt(r.p, d) = SlotAt(q, d)
    BY <1>11 DEF SlotAt
  <1>14. Apart(p, r.p)
    BY <1>8, <1>11 DEF Apart
  <1>15. r = [p |-> r.p, at |-> at, port |-> r.port]
    BY <1>9
  <1> QED
    BY <1>1, <1>4, <1>5, <1>8, <1>11, <1>12, <1>13, <1>14, <1>15 DEF Takes

\* A shadow leaves the operations in the window alone.
LEMMA ShadowScheduled ==
    ASSUME NEW p, Window(p), NEW s, Scheduled(p, s), NEW r, NEW at, NEW ports, Takes(p, r, at, ports, 0)
    PROVE  Scheduled(r.p, s)
  <1>1. r.p.occ = p.occ /\ r.p.cur = p.cur
    BY DEF Takes, Window, Moving
  <1>2. \A d \in Nat : d >= p.cur => SlotAt(r.p, d).n = SlotAt(p, d).n /\ SlotAt(p, d).units \subseteq SlotAt(r.p, d).units
    <2> SUFFICES ASSUME NEW d \in Nat, d >= p.cur
                 PROVE  SlotAt(r.p, d).n = SlotAt(p, d).n /\ SlotAt(p, d).units \subseteq SlotAt(r.p, d).units
      OBVIOUS
    <2>1. SlotAt(p, d) \in Slots
      BY SlotTyped
    <2>2. SlotAt(p, d).n + 0 = SlotAt(p, d).n
      BY <2>1 DEF Slots
    <2> QED
      BY <2>2 DEF Takes
  <1> QED
    BY <1>1, <1>2 DEF Scheduled

\* The slots t are the slots s, and e for x.
AndOne(s, t, x, e) ==
    x \notin DOMAIN s /\ DOMAIN t = DOMAIN s \cup {x} /\ t[x] = e /\ \A i \in DOMAIN s : t[i] = s[i]

\* An operation enters the window, on a port that no other one has in its cycle.
LEMMA OperationScheduled ==
    ASSUME NEW p, Window(p), NEW s, Taken(s), Scheduled(p, s), NEW r, NEW at, NEW ports, Takes(p, r, at, ports, 1),
           NEW t, NEW x, AndOne(s, t, x, <<at, r.port>>)
    PROVE  Scheduled(r.p, t) /\ Taken(t) /\ \A i \in DOMAIN s : t[i] # t[x]
  <1>0. at \in Nat /\ at >= p.cur /\ p.cur \in Nat /\ p.occ \in Int
    BY DEF Takes, Window, Moving
  <1>1. t[x][1] = at /\ t[x][2] = r.port
    BY DEF AndOne
  <1>2. Taken(t)
    BY <1>0, <1>1, FS_AddElement DEF Taken, AndOne
  <1>3. \A c \in Nat : /\ At(t, c) = IF c = at THEN At(s, c) \cup {x} ELSE At(s, c)
                       /\ x \notin At(s, c) /\ IsFiniteSet(At(s, c))
    <2> SUFFICES ASSUME NEW c \in Nat
                 PROVE  /\ At(t, c) = IF c = at THEN At(s, c) \cup {x} ELSE At(s, c)
                        /\ x \notin At(s, c) /\ IsFiniteSet(At(s, c))
      OBVIOUS
    <2>1. At(t, c) = IF c = at THEN At(s, c) \cup {x} ELSE At(s, c)
      BY <1>1 DEF At, AndOne
    <2>2. x \notin At(s, c) /\ At(s, c) \subseteq DOMAIN s
      BY DEF At, AndOne
    <2> QED
      BY <2>1, <2>2, FS_Subset DEF Taken
  <1>4. From(t, p.cur) = From(s, p.cur) \cup {x} /\ x \notin From(s, p.cur) /\ IsFiniteSet(From(s, p.cur))
    <2>1. From(t, p.cur) = From(s, p.cur) \cup {x}
      BY <1>0, <1>1 DEF From, AndOne
    <2>2. x \notin From(s, p.cur) /\ From(s, p.cur) \subseteq DOMAIN s
      BY DEF From, AndOne
    <2> QED
      BY <2>1, <2>2, FS_Subset DEF Taken
  <1>5. r.p.occ = Cardinality(From(t, r.p.cur))
    <2>1. Cardinality(From(t, p.cur)) = Cardinality(From(s, p.cur)) + 1
      BY <1>4, FS_AddElement
    <2> QED
      BY <2>1 DEF Scheduled, Takes
  <1>6. ASSUME NEW c \in Nat, c >= p.cur
        PROVE  /\ SlotAt(r.p, c).n = Cardinality(At(t, c))
               /\ \A i \in At(t, c) : t[i][2] \in SlotAt(r.p, c).units
    <2>1. SlotAt(p, c).n = Cardinality(At(s, c)) /\ \A i \in At(s, c) : s[i][2] \in SlotAt(p, c).units
      BY <1>6 DEF Scheduled
    <2>2. \A i \in At(s, c) : t[i] = s[i]
      BY DEF At, AndOne
    <2>3. CASE c = at
      <3>1. SlotAt(r.p, c) = [units |-> SlotAt(p, c).units \cup {r.port}, n |-> SlotAt(p, c).n + 1]
        BY <1>6, <2>3 DEF Takes
      <3>2. Cardinality(At(t, c)) = Cardinality(At(s, c)) + 1
        BY <1>3, <2>3, FS_AddElement
      <3> QED
        BY <1>1, <1>3, <2>1, <2>2, <2>3, <3>1, <3>2
    <2>4. CASE c # at
      <3>1. SlotAt(r.p, c) = SlotAt(p, c)
        BY <1>6, <2>4 DEF Takes
      <3> QED
        BY <1>3, <2>1, <2>2, <2>4, <3>1
    <2> QED
      BY <2>3, <2>4
  <1>7. Scheduled(r.p, t)
    <2>1. r.p.cur = p.cur
      BY DEF Takes
    <2> QED
      BY <1>5, <1>6, <2>1 DEF Scheduled
  <1>8. ASSUME NEW i \in DOMAIN s, t[i] = t[x] PROVE FALSE
    <2>1. s[i][1] = at /\ s[i][2] = r.port
      BY <1>1, <1>8 DEF AndOne
    <2>2. i \in At(s, at)
      BY <2>1 DEF At
    <2>3. r.port \in SlotAt(p, at).units
      BY <1>0, <2>1, <2>2 DEF Scheduled
    <2> QED
      BY <2>3 DEF Takes
  <1> QED
    BY <1>2, <1>7, <1>8

\* An operation or a shadow goes to the first cycle from c on with a free port.
LEMMA InternalTakes ==
    ASSUME NEW p, Window(p), NEW c \in Int, NEW ports \in SUBSET (0 .. 5), ports # {}, NEW n \in {0, 1},
           NEW r, r = ScheduleInternal(p, c, ports, n)
    PROVE  r.at \in Nat /\ r.at >= c /\ Takes(p, r, r.at, ports, n)
  <1>1. p.cur \in Nat
    BY DEF Window, Moving
  <1>2. PICK d \in Nat : d = Larger(c, p.cur) /\ d >= c /\ d >= p.cur
    BY <1>1 DEF Larger
  <1>3. PICK at : at = FirstFree(p, d, ports)
    OBVIOUS
  <1>4. at \in Nat /\ at >= d /\ ports \ SlotAt(p, at).units # {}
    BY <1>2, <1>3, FirstFreeIs
  <1>5. at >= p.cur /\ at >= c
    BY <1>1, <1>2, <1>4
  <1>6. r = TakePort(p, at, ports, n)
    BY <1>2, <1>3 DEF ScheduleInternal
  <1>7. Takes(p, r, at, ports, n)
    BY <1>4, <1>5, <1>6, TakePortTakes
  <1>8. r.at = at
    BY <1>6 DEF TakePort
  <1> QED
    BY <1>4, <1>5, <1>7, <1>8

\* The shadows of an operation one after the other.
ShadowStep(x, f, k) == IF k = 0 THEN x ELSE ScheduleInternal(f[k - 1].p, f[k - 1].at + 1, {x.port}, 0)
Shadows(x, f, n) == f = [k \in 0 .. n |-> ShadowStep(x, f, k)]

\* The recursion of Shadowed() has a solution.
LEMMA ShadowsExist ==
    ASSUME NEW x, NEW n \in Nat
    PROVE  \E f : Shadows(x, f, n)
  <1>1. PICK N : N = {m \in Nat : \E f : Shadows(x, f, m)}
    OBVIOUS
  <1>2. 0 \in N
    <2>1. PICK f : f = [k \in 0 .. 0 |-> x]
      OBVIOUS
    <2>2. \A k \in 0 .. 0 : ShadowStep(x, f, k) = x
      BY DEF ShadowStep
    <2>3. Shadows(x, f, 0)
      BY <2>1, <2>2 DEF Shadows
    <2> QED
      BY <1>1, <2>3
  <1>3. ASSUME NEW m \in Nat, m \in N PROVE m + 1 \in N
    <2>1. PICK f : Shadows(x, f, m)
      BY <1>1, <1>3
    <2>2. PICK g : g = [k \in 0 .. m + 1 |-> ShadowStep(x, f, k)]
      OBVIOUS
    <2>3. \A k \in 0 .. m : g[k] = f[k]
      BY <2>1, <2>2 DEF Shadows
    <2>4. \A k \in 0 .. m + 1 : ShadowStep(x, f, k) = ShadowStep(x, g, k)
      <3>1. \A k \in 0 .. m + 1 : k # 0 => k - 1 \in 0 .. m
        OBVIOUS
      <3> QED
        BY <2>3, <3>1 DEF ShadowStep
    <2>5. g = [k \in 0 .. m + 1 |-> ShadowStep(x, g, k)]
      BY <2>2, <2>4
    <2>6. Shadows(x, g, m + 1)
      BY <2>5 DEF Shadows
    <2> QED
      BY <1>1, <2>6
  <1>4. N = Nat
    BY <1>1, <1>2, <1>3, NatInduct
  <1> QED
    BY <1>1, <1>4

\* They change nothing but the ports.
LEMMA ShadowedKeeps ==
    ASSUME NEW x, x = [p |-> x.p, at |-> x.at, port |-> x.port], Window(x.p), NEW t, Scheduled(x.p, t),
           x.at \in Nat, x.port \in 0 .. 5, NEW extra \in Nat, NEW r, r = Shadowed(x, extra)
    PROVE  /\ Window(r.p) /\ Scheduled(r.p, t) /\ Apart(x.p, r.p) /\ r.p.cur = x.p.cur
           /\ r = [p |-> r.p, at |-> x.at, port |-> x.port]
  <1>1. PICK f : f = CHOOSE g : Shadows(x, g, extra)
    OBVIOUS
  <1>2. Shadows(x, f, extra)
    <2>1. \E g : Shadows(x, g, extra)
      BY ShadowsExist
    <2> HIDE DEF Shadows
    <2> QED
      BY <1>1, <2>1
  <1>3. r = [x EXCEPT !.p = [f[extra].p EXCEPT !.ok = @ /\ f[extra].p.occ <= WSZ]]
    BY <1>1 DEF Shadowed, Shadows, ShadowStep
  <1>4. \A k \in 0 .. extra : f[k] = ShadowStep(x, f, k)
    BY <1>2 DEF Shadows
  <1> DEFINE Fine(y) == /\ Window(y.p) /\ Scheduled(y.p, t) /\ Apart(x.p, y.p) /\ y.p.cur = x.p.cur
                        /\ y.at \in Nat
  <1>5. PICK N : N = {k \in Nat : k <= extra => Fine(f[k])}
    OBVIOUS
  <1>6. 0 \in N
    <2>1. f[0] = x
      <3>1. 0 \in 0 .. extra
        OBVIOUS
      <3> QED
        BY <1>4, <3>1 DEF ShadowStep
    <2>2. Fine(x)
      BY DEF Apart
    <2> HIDE DEF Fine
    <2> QED
      BY <1>5, <2>1, <2>2
  <1>7. ASSUME NEW k \in Nat, k \in N PROVE k + 1 \in N
    <2>1. SUFFICES ASSUME k + 1 <= extra PROVE Fine(f[k + 1])
      BY <1>5
    <2>2. Fine(f[k])
      BY <1>5, <1>7, <2>1
    <2>3. f[k + 1] = ScheduleInternal(f[k].p, f[k].at + 1, {x.port}, 0)
      <3>1. k + 1 \in 0 .. extra /\ k + 1 # 0 /\ (k + 1) - 1 = k
        BY <2>1
      <3> QED
        BY <1>4, <3>1 DEF ShadowStep
    <2>4. f[k + 1].at \in Nat /\ Takes(f[k].p, f[k + 1], f[k + 1].at, {x.port}, 0)
      <3>1. f[k].at + 1 \in Int /\ {x.port} \in SUBSET (0 .. 5) /\ {x.port} # {} /\ 0 \in {0, 1}
        BY <2>2
      <3> QED
        BY <2>2, <2>3, <3>1, InternalTakes
    <2>5. Scheduled(f[k + 1].p, t)
      BY <2>2, <2>4, ShadowScheduled
    <2> QED
      BY <2>2, <2>4, <2>5 DEF Takes, Apart
  <1>8. N = Nat
    <2> HIDE DEF Fine
    <2> QED
      BY <1>5, <1>6, <1>7, NatInduct
  <1>9. Fine(f[extra])
    <2> HIDE DEF Fine
    <2> QED
      BY <1>5, <1>8
  <1>10. PICK q : q = f[extra].p /\ Window(q) /\ Scheduled(q, t) /\ Apart(x.p, q) /\ q.cur = x.p.cur
    BY <1>9
  <1>11. r.p = [q EXCEPT !.ok = @ /\ q.occ <= WSZ] /\ r = [p |-> r.p, at |-> x.at, port |-> x.port]
    BY <1>3, <1>10
  <1>12. q = [f_ \in PipeFields |-> q[f_]]
    BY <1>10 DEF Window, Moving
  <1>13. /\ r.p = [f_ \in PipeFields |-> r.p[f_]] /\ Apart(q, r.p) /\ r.p.occ = q.occ
         /\ r.p.cur = q.cur /\ r.p.pos = q.pos /\ r.p.cw = q.cw /\ r.p.nw = q.nw /\ r.p.ub = q.ub
    BY <1>11, <1>12 DEF PipeFields, Apart
  <1>14. Window(r.p)
    BY <1>10, <1>13 DEF Window, Moving
  <1>15. Scheduled(r.p, t)
    BY <1>10, <1>13 DEF Scheduled, SlotAt
  <1> QED
    BY <1>10, <1>11, <1>13, <1>14, <1>15 DEF Apart

\* schedule() finds room for an operation, not before the cycle c.
Schedules(p, r, c, ports, s, t, x) ==
    /\ Window(r.p) /\ Scheduled(r.p, t) /\ Apart(p, r.p) /\ p.cur <= r.p.cur
    /\ r.at \in Nat /\ r.at >= c /\ r.at >= r.p.cur /\ r.port \in ports
    /\ r = [p |-> r.p, at |-> r.at, port |-> r.port]
    /\ Taken(t) /\ \A i \in DOMAIN s : t[i] # t[x]

\* However the window moves on to make room, and whatever shadows it takes.
LEMMA ScheduleIs ==
    ASSUME NEW p, Window(p), NEW s, Taken(s), Scheduled(p, s), NEW c \in Int,
           NEW ports \in SUBSET (0 .. 5), ports # {}, NEW extra \in Nat, NEW r, r = schedule(p, c, ports, extra),
           NEW t, NEW x, AndOne(s, t, x, <<r.at, r.port>>)
    PROVE  Schedules(p, r, c, ports, s, t, x)
  <1>1. PICK q : q = MakeRoom(p)
    OBVIOUS
  <1>2. Window(q) /\ Scheduled(q, s) /\ Apart(p, q) /\ p.cur <= q.cur
    <2>1. p.cur \in Nat /\ p.cur >= p.cur
      BY DEF Window, Moving
    <2>2. Beyond(p) \in Nat /\ Beyond(p) > p.cur
      BY <2>1, FirstFreeIs
    <2>3. PICK n \in Nat : n = Beyond(p) - p.cur
      BY <2>1, <2>2
    <2>4. q = AdvanceWhile(p, n, {WSZ})
      BY <1>1, <2>3 DEF MakeRoom
    <2> QED
      BY <2>4, WhileScheduled
  <1>3. PICK y : y = ScheduleInternal(q, c, ports, 1)
    OBVIOUS
  <1>4. y.at \in Nat /\ y.at >= c /\ Takes(q, y, y.at, ports, 1)
    BY <1>2, <1>3, InternalTakes
  <1>5. r = Shadowed(y, extra)
    BY <1>1, <1>3 DEF schedule
  <1>6. y = [p |-> y.p, at |-> y.at, port |-> y.port] /\ Window(y.p) /\ y.port \in ports
    BY <1>4 DEF Takes
  <1>7. y.port \in 0 .. 5
    BY <1>6
  <1>8. r.at = y.at /\ r.port = y.port
    BY <1>5, <1>6 DEF Shadowed
  <1>9. Scheduled(y.p, t) /\ Taken(t) /\ \A i \in DOMAIN s : t[i] # t[x]
    <2>1. AndOne(s, t, x, <<y.at, y.port>>)
      BY <1>8
    <2> QED
      BY <1>2, <1>4, <2>1, OperationScheduled
  <1>10. /\ Window(r.p) /\ Scheduled(r.p, t) /\ Apart(y.p, r.p) /\ r.p.cur = y.p.cur
         /\ r = [p |-> r.p, at |-> y.at, port |-> y.port]
    BY <1>4, <1>5, <1>6, <1>7, <1>9, ShadowedKeeps
  <1>11. Apart(p, r.p)
    BY <1>2, <1>4, <1>10 DEF Apart, Takes
  <1>12. p.cur <= r.p.cur /\ r.at >= r.p.cur
    BY <1>2, <1>4, <1>8, <1>10 DEF Takes
  <1> QED
    BY <1>4, <1>6, <1>8, <1>9, <1>10, <1>11, <1>12 DEF Schedules

-----------------------------------------------------------------------------
(* From decoding to dispatch *)

\* q has the window of p.
Still(p, q) ==
    /\ q = [f \in PipeFields |-> q[f]]
    /\ q.cur = p.cur /\ q.pos = p.pos /\ q.occ = p.occ /\ q.cw = p.cw /\ q.nw = p.nw /\ q.ub = p.ub

\* Then it is exact for the same operations.
LEMMA StillScheduled ==
    ASSUME NEW p, Window(p), NEW q, Still(p, q)
    PROVE  Window(q) /\ \A s : Scheduled(p, s) => Scheduled(q, s)
  <1>1. Window(q)
    BY DEF Window, Moving, Still
  <1>2. ASSUME NEW s, Scheduled(p, s) PROVE Scheduled(q, s)
    BY <1>2 DEF Scheduled, Still, SlotAt
  <1> QED
    BY <1>1, <1>2

\* A pipeline, and what dispatch needs of another one.
Fit(p, s) == Window(p) /\ Backend(p) /\ Scheduled(p, s)

Onward(p, q) ==
    /\ q.rob = p.rob /\ q.lq = p.lq /\ q.sq = p.sq /\ q.fwd = p.fwd /\ q.st = p.st /\ q.sta = p.sta
    /\ \A r \in Registers \ {0} : q.reg[r] = p.reg[r]
    /\ p.cur <= q.cur

\* One step after the other, ...
LEMMA OnwardChain ==
    ASSUME NEW p, NEW q, NEW r, Window(p), Window(q), Window(r), Onward(p, q), Onward(q, r)
    PROVE  Onward(p, r)
  <1>1. p.cur \in Nat /\ q.cur \in Nat /\ r.cur \in Nat
    BY DEF Window, Moving
  <1>2. p.cur <= r.cur
    BY <1>1 DEF Onward
  <1> QED
    BY <1>2 DEF Onward

\* ... or none.
LEMMA OnwardSelf ==
    ASSUME NEW p, Window(p)
    PROVE  Onward(p, p)
  BY DEF Onward, Window, Moving

\* The window may move meanwhile.
LEMMA ApartFit ==
    ASSUME NEW p, Backend(p), NEW q, Apart(p, q), p.cur <= q.cur
    PROVE  Backend(q) /\ Onward(p, q)
  BY DEF Backend, Apart, Onward

\* The counters of a cycle do not matter.
LEMMA NewCycleFit ==
    ASSUME NEW s, NEW p, Fit(p, s), NEW q, q = NewCycle(p)
    PROVE  Fit(q, s) /\ Onward(p, q) /\ q.cur = p.cur /\ q.uq = p.uq /\ q.dec = p.dec
  <1>1. p = [f \in PipeFields |-> p[f]] /\ Window(p) /\ Scheduled(p, s) /\ p.cur \in Nat
    BY DEF Fit, Window, Moving
  <1>2. q = [p EXCEPT !.rf = 0, !.iss = 0]
    BY DEF NewCycle
  <1>3. Still(p, q)
    BY <1>1, <1>2 DEF Still, PipeFields
  <1>4. /\ q.dec = p.dec /\ q.rob = p.rob /\ q.lq = p.lq /\ q.sq = p.sq /\ q.uq = p.uq /\ q.reg = p.reg
        /\ q.fwd = p.fwd /\ q.st = p.st /\ q.sta = p.sta /\ q.rf = 0 /\ q.iss = 0
    BY <1>1, <1>2 DEF PipeFields
  <1>5. Backend(q)
    BY <1>4 DEF Fit, Backend
  <1>6. Onward(p, q)
    BY <1>1, <1>3, <1>4 DEF Onward, Still
  <1> QED
    BY <1>1, <1>3, <1>4, <1>5, <1>6, StillScheduled DEF Fit, Still

\* advancePos() keeps a pipeline fit.
LEMMA AdvanceFit ==
    ASSUME NEW s, Taken(s), NEW p, Fit(p, s), NEW q, q = advancePos(p)
    PROVE  Fit(q, s) /\ Onward(p, q)
  <1>1. Window(q) /\ Scheduled(q, s) /\ Apart(p, q) /\ q.cur = p.cur + 1
    BY AdvanceScheduled DEF Fit
  <1>2. p.cur <= q.cur
    BY <1>1 DEF Fit, Window, Moving
  <1> QED
    BY <1>1, <1>2, ApartFit DEF Fit

\* An entry of a buffer is taken.
Pushed(b, e, c, size) ==
    /\ e \in Buffers(size) /\ e.cyc = b.cyc /\ e.n = b.n
    /\ e.buf = [b.buf EXCEPT ![b.idx] = c]
    /\ e.idx = IF b.idx + 1 = size THEN 0 ELSE b.idx + 1

\* markLeave() takes the entry at idx, and idx wraps around.
LEMMA PushIs ==
    ASSUME NEW size \in Nat \ {0}, NEW b \in Buffers(size), NEW c \in Int, NEW e, e = Push(b, c)
    PROVE  Pushed(b, e, c, size)
  <1>1. /\ b.buf \in [0 .. size - 1 -> Int] /\ b.idx \in 0 .. size - 1 /\ b.cyc \in Int /\ b.n \in Int
        /\ b = [buf |-> b.buf, idx |-> b.idx, cyc |-> b.cyc, n |-> b.n]
    BY DEF Buffers
  <1>2. Cardinality(DOMAIN b.buf) = size
    <2>1. DOMAIN b.buf = 0 .. size - 1
      BY <1>1
    <2>2. 0 \in Int /\ size - 1 \in Int /\ ~(0 > size - 1) /\ (size - 1) - 0 + 1 = size
      OBVIOUS
    <2> QED
      BY <2>1, <2>2, FS_Interval
  <1>3. PICK k : k = (b.idx + 1) % size
    OBVIOUS
  <1>4. k = IF b.idx + 1 = size THEN 0 ELSE b.idx + 1
    <2>1. b.idx + 1 \in Nat /\ b.idx + 1 <= size
      BY <1>1
    <2>2. PICK m \in Nat : m = b.idx + 1
      BY <2>1
    <2>3. m % size = IF m = size THEN 0 ELSE m
      BY <2>1, <2>2
    <2> QED
      BY <1>3, <2>2, <2>3
  <1>5. e = [buf |-> [b.buf EXCEPT ![b.idx] = c], idx |-> k, cyc |-> b.cyc, n |-> b.n]
    BY <1>1, <1>2, <1>3 DEF Push
  <1>6. k \in 0 .. size - 1
    BY <1>1, <1>4
  <1>7. [b.buf EXCEPT ![b.idx] = c] \in [0 .. size - 1 -> Int]
    BY <1>1
  <1> QED
    BY <1>1, <1>4, <1>5, <1>6, <1>7 DEF Buffers, Pushed

\* The parameters, one by one.
LEMMA Sizes ==
    /\ RobSize \in Nat \ {0} /\ LoadQueueSize \in Nat \ {0} /\ StoreQueueSize \in Nat \ {0}
    /\ UopQueueSize \in Nat \ {0} /\ RetireWidth \in Nat \ {0} /\ FwdEntries \in Nat \ {0}
    /\ IssueToDispatch \in Nat /\ FetchToDecode \in Nat /\ L1DLat \in Nat /\ LoadExtra \in Nat
    /\ IssueWidth \in Nat /\ RFReads \in Nat
  BY PipelineAssumption

\* The oldest entry of a buffer is an integer.
LEMMA MinAllocInt ==
    ASSUME NEW size \in Nat \ {0}, NEW b \in Buffers(size)
    PROVE  minAllocCycle(b) \in Int /\ minAllocCycle(b) = b.buf[b.idx]
  BY DEF Buffers, minAllocCycle

\* The larger of two cycles.
LEMMA LargerIs ==
    ASSUME NEW a \in Int, NEW b \in Int
    PROVE  Larger(a, b) \in Int /\ Larger(a, b) >= a /\ Larger(a, b) >= b
  BY DEF Larger

\* Decoding moves the window on, and nothing that dispatch needs.
LEMMA DecodeFit ==
    ASSUME NEW s, Taken(s), NEW p, Fit(p, s), NEW u, u.dec \in Int, NEW prev \in Int,
           NEW r, r = DecodeUop(p, u, prev)
    PROVE  Fit(r, s) /\ Onward(p, r)
  <1>1. p.dec \in Int /\ p.uq \in Buffers(UopQueueSize) /\ p.cur \in Nat /\ Window(p)
    BY DEF Fit, Backend, Window, Moving
  <1>2. PICK d \in Int : d = Larger(p.dec + u.dec - prev, minAllocCycle(p.uq))
    <2>1. minAllocCycle(p.uq) \in Int
      BY <1>1, Sizes, MinAllocInt
    <2>2. p.dec + u.dec - prev \in Int
      BY <1>1
    <2> QED
      BY <2>1, <2>2, LargerIs
  <1>3. PICK q : q = IF d > p.cur THEN AdvanceBy(NewCycle(p), d - p.cur) ELSE p
    OBVIOUS
  <1>4. Fit(q, s) /\ Onward(p, q)
    <2>1. CASE d > p.cur
      <3>1. PICK e : e = NewCycle(p)
        OBVIOUS
      <3>2. Fit(e, s) /\ Onward(p, e)
        BY <3>1, NewCycleFit
      <3>3. PICK n \in Nat : n = d - p.cur
        BY <1>1, <2>1
      <3>4. q = AdvanceWhile(e, n, Int)
        BY <1>3, <2>1, <3>1, <3>3 DEF AdvanceBy
      <3>5. Window(q) /\ Scheduled(q, s) /\ Apart(e, q) /\ e.cur <= q.cur
        BY <3>2, <3>4, WhileScheduled DEF Fit
      <3>6. Backend(q) /\ Onward(e, q)
        BY <3>2, <3>5, ApartFit DEF Fit
      <3> QED
        BY <1>1, <3>2, <3>5, <3>6, OnwardChain DEF Fit
    <2>2. CASE ~(d > p.cur)
      BY <1>1, <1>3, <2>2, OnwardSelf
    <2> QED
      BY <2>1, <2>2
  <1>5. r = [q EXCEPT !.dec = d, !.uq = Push(@, q.cur), !.ok = @ /\ u.dec >= prev]
    BY <1>2, <1>3 DEF DecodeUop
  <1>6. q = [f \in PipeFields |-> q[f]] /\ q.cur \in Nat /\ Window(q)
    BY <1>4 DEF Fit, Window, Moving
  <1>7. /\ Still(q, r) /\ r.dec = d /\ r.rob = q.rob /\ r.lq = q.lq /\ r.sq = q.sq /\ r.uq = Push(q.uq, q.cur)
        /\ r.reg = q.reg /\ r.fwd = q.fwd /\ r.st = q.st /\ r.sta = q.sta /\ r.rf = q.rf /\ r.iss = q.iss
    BY <1>5, <1>6, ZenonT(60) DEF PipeFields, Still
  <1>8. r.uq \in Buffers(UopQueueSize)
    <2>1. q.uq \in Buffers(UopQueueSize)
      BY <1>4 DEF Fit, Backend
    <2>2. q.cur \in Int /\ r.uq = Push(q.uq, q.cur)
      BY <1>6, <1>7
    <2> QED
      <3>1. UopQueueSize \in Nat \ {0}
        BY Sizes
      <3>2. PICK b \in Buffers(UopQueueSize) : b = q.uq
        BY <2>1
      <3>3. PICK c \in Int : c = q.cur
        BY <2>2
      <3>4. r.uq = Push(b, c)
        BY <2>2, <3>2, <3>3
      <3>5. Pushed(b, r.uq, c, UopQueueSize)
        BY <3>1, <3>4, PushIs
      <3> QED
        BY <3>5 DEF Pushed
  <1>9. Backend(r)
    BY <1>4, <1>7, <1>8 DEF Fit, Backend
  <1>10. Onward(q, r)
    BY <1>6, <1>7 DEF Onward, Still
  <1>11. Window(r) /\ Scheduled(r, s)
    BY <1>4, <1>6, <1>7, StillScheduled DEF Fit
  <1> QED
    BY <1>1, <1>4, <1>6, <1>9, <1>10, <1>11, OnwardChain DEF Fit

\* The widths of issue and register file only hold an operation up.
LEMMA IssueFit ==
    ASSUME NEW s, Taken(s), NEW p0, Fit(p0, s), NEW u, NEW r, r = IssueUop(p0, u)
    PROVE  Fit(r, s) /\ Onward(p0, r)
  <1>0. p0.iss \in Int /\ Window(p0)
    BY DEF Fit, Backend
  <1>1. PICK p : p = IF p0.iss >= IssueWidth THEN advancePos(NewCycle(p0)) ELSE p0
    OBVIOUS
  <1>2. Fit(p, s) /\ Onward(p0, p)
    <2>1. CASE p0.iss >= IssueWidth
      <3>1. PICK e : e = NewCycle(p0)
        OBVIOUS
      <3>2. Fit(e, s) /\ Onward(p0, e)
        BY <3>1, NewCycleFit
      <3>3. p = advancePos(e)
        BY <1>1, <2>1, <3>1
      <3>4. Fit(p, s) /\ Onward(e, p)
        BY <3>2, <3>3, AdvanceFit
      <3> QED
        BY <3>2, <3>4, OnwardChain DEF Fit
    <2>2. CASE ~(p0.iss >= IssueWidth)
      BY <1>0, <1>1, <2>2, OnwardSelf
    <2> QED
      BY <2>1, <2>2
  <1>3. /\ p = [f \in PipeFields |-> p[f]] /\ p.cur \in Nat /\ Window(p) /\ p.reg \in [Registers -> Int]
        /\ p.iss \in Int /\ p.rf \in Int /\ 0 \in Registers
    <2>1. Window(p) /\ Backend(p)
      BY <1>2 DEF Fit
    <2>2. p = [f \in PipeFields |-> p[f]] /\ p.cur \in Nat
      BY <2>1 DEF Window, Moving
    <2>3. p.reg \in [Registers -> Int] /\ p.iss \in Int /\ p.rf \in Int
      BY <2>1 DEF Backend
    <2>4. 0 \in Registers
      BY DEF Registers
    <2> QED
      BY <2>1, <2>2, <2>3, <2>4
  <1>4. PICK q : q = [p EXCEPT !.iss = @ + 1, !.reg[0] = p.cur]
    OBVIOUS
  <1>5. PICK reads : reads = q.rf + Cardinality({k \in {1, 2} : q.reg[u.rs[k]] < q.cur})
    OBVIOUS
  <1>6. PICK e : e = IF reads > RFReads THEN [q EXCEPT !.rf = reads - RFReads, !.iss = 0] ELSE [q EXCEPT !.rf = reads]
    OBVIOUS
  <1>7. r = IF reads > RFReads THEN advancePos(e) ELSE e
    BY <1>1, <1>4, <1>5, <1>6 DEF IssueUop
  <1>8. reads \in Int
    <2>1. q.rf = p.rf
      BY <1>3, <1>4 DEF PipeFields
    <2>2. PICK K : K = {k \in {1, 2} : q.reg[u.rs[k]] < q.cur}
      OBVIOUS
    <2>3. IsFiniteSet({1, 2})
      <3>1. {1, 2} = 1 .. 2 /\ 1 \in Int /\ 2 \in Int
        OBVIOUS
      <3> QED
        BY <3>1, FS_Interval
    <2>4. Cardinality(K) \in Nat
      BY <2>2, <2>3, FS_Subset, FS_CardinalityType
    <2> QED
      BY <1>3, <1>5, <2>1, <2>2, <2>4
  <1>9. q = [f \in PipeFields |-> q[f]]
    BY <1>3, <1>4 DEF PipeFields
  <1>10. /\ Still(p, q) /\ q.dec = p.dec /\ q.rob = p.rob /\ q.lq = p.lq /\ q.sq = p.sq /\ q.uq = p.uq
         /\ q.reg = [p.reg EXCEPT ![0] = p.cur] /\ q.fwd = p.fwd /\ q.st = p.st /\ q.sta = p.sta
    BY <1>3, <1>4 DEF PipeFields, Still
  <1>11. /\ Still(q, e) /\ e.dec = q.dec /\ e.rob = q.rob /\ e.lq = q.lq /\ e.sq = q.sq /\ e.uq = q.uq
         /\ e.reg = q.reg /\ e.fwd = q.fwd /\ e.st = q.st /\ e.sta = q.sta
    BY <1>6, <1>9 DEF PipeFields, Still
  <1>12. e.rf \in Int /\ e.iss \in Int
    <2>1. q.iss = p.iss + 1
      BY <1>3, <1>4 DEF PipeFields
    <2>2. CASE reads > RFReads
      BY <1>6, <1>8, <1>9, <2>2, Sizes DEF PipeFields
    <2>3. CASE ~(reads > RFReads)
      BY <1>3, <1>6, <1>8, <1>9, <2>1, <2>3 DEF PipeFields
    <2> QED
      BY <2>2, <2>3
  <1>13. e.reg \in [Registers -> Int] /\ \A x \in Registers \ {0} : e.reg[x] = p.reg[x]
    BY <1>3, <1>10, <1>11
  <1>14. Backend(e)
    BY <1>2, <1>10, <1>11, <1>12, <1>13 DEF Fit, Backend
  <1>15. Still(p, e)
    BY <1>10, <1>11 DEF Still
  <1>16. Onward(p, e)
    BY <1>3, <1>10, <1>11, <1>13, <1>15 DEF Onward, Still
  <1>17. Fit(e, s)
    BY <1>2, <1>3, <1>14, <1>15, StillScheduled DEF Fit
  <1>18. Fit(r, s) /\ Onward(e, r)
    <2>1. CASE reads > RFReads
      BY <1>7, <1>17, <2>1, AdvanceFit
    <2>2. CASE ~(reads > RFReads)
      BY <1>7, <1>17, <2>2, OnwardSelf DEF Fit
    <2> QED
      BY <2>1, <2>2
  <1>19. Onward(p, r)
    BY <1>3, <1>16, <1>17, <1>18, OnwardChain DEF Fit
  <1> QED
    BY <1>0, <1>2, <1>3, <1>18, <1>19, OnwardChain DEF Fit

\* An operation enters the window when its operands are there, and an entry of the
\* reorder buffer is free.
Enters(p, z, u) ==
    /\ Onward(p, z.p) /\ z = [p |-> z.p, at |-> z.at, port |-> z.port]
    /\ z.at \in Nat /\ z.at >= z.p.cur /\ z.port \in 0 .. 5
    /\ \A r \in {u.rs[1], u.rs[2]} \ {0} : z.at >= p.reg[r]
    /\ z.at >= p.rob.buf[p.rob.idx] + IssueToDispatch

\* What dispatch does to a pipeline that is fit.
LEMMA DispatchFit ==
    ASSUME NEW s, Taken(s), NEW p, Fit(p, s), NEW u \in Uops, NEW z, z = DispatchUop(p, u),
           NEW t, NEW x, AndOne(s, t, x, <<z.at, z.port>>)
    PROVE  Fit(z.p, t) /\ Enters(p, z, u) /\ Taken(t) /\ \A i \in DOMAIN s : t[i] # t[x]
  <1>1. /\ p.reg \in [Registers -> Int] /\ p.rob \in Buffers(RobSize) /\ p.cur \in Nat /\ Window(p)
        /\ Backend(p) /\ Scheduled(p, s)
    BY DEF Fit, Backend, Window, Moving
  <1>2. /\ u.rs[1] \in Registers /\ u.rs[2] \in Registers /\ u.ports \in SUBSET (0 .. 5) /\ u.ports # {}
        /\ u.extra \in Nat
    BY DEF Uops
  <1>3. PICK ops_ \in Int : ops_ = Larger(p.reg[u.rs[1]], p.reg[u.rs[2]])
                            /\ ops_ >= p.reg[u.rs[1]] /\ ops_ >= p.reg[u.rs[2]]
    <2>1. p.reg[u.rs[1]] \in Int /\ p.reg[u.rs[2]] \in Int
      BY <1>1, <1>2
    <2> QED
      BY <2>1, LargerIs
  <1>4. PICK m \in Int : m = minAllocCycle(p.rob) /\ m = p.rob.buf[p.rob.idx]
    BY <1>1, Sizes, MinAllocInt
  <1>5. PICK a \in Int : a = Larger(m, p.cur) + IssueToDispatch /\ a >= m + IssueToDispatch
    <2>0. p.cur \in Int
      BY <1>1
    <2>1. Larger(m, p.cur) \in Int /\ Larger(m, p.cur) >= m
      BY <2>0, LargerIs
    <2> QED
      BY <2>1, Sizes
  <1>6. PICK from \in Int : from = Larger(ops_, a) /\ from >= ops_ /\ from >= a
    BY LargerIs
  <1>7. PICK y : y = schedule(p, from, u.ports, u.extra)
    OBVIOUS
  <1>8. z = IF y.p.cur > p.cur THEN [y EXCEPT !.p = NewCycle(@)] ELSE y
    BY <1>3, <1>4, <1>5, <1>6, <1>7 DEF DispatchUop, Dispatched
  <1>9. z.at = y.at /\ z.port = y.port
    BY <1>8
  <1>10. /\ Window(y.p) /\ Scheduled(y.p, t) /\ Apart(p, y.p) /\ p.cur <= y.p.cur
         /\ y.at \in Nat /\ y.at >= from /\ y.at >= y.p.cur /\ y.port \in u.ports
         /\ y = [p |-> y.p, at |-> y.at, port |-> y.port]
         /\ Taken(t) /\ \A i \in DOMAIN s : t[i] # t[x]
    <2>1. AndOne(s, t, x, <<y.at, y.port>>)
      BY <1>9
    <2> QED
      <3>1. PICK ports \in SUBSET (0 .. 5) : ports = u.ports /\ ports # {}
        BY <1>2
      <3>2. PICK extra \in Nat : extra = u.extra
        BY <1>2
      <3>3. y = schedule(p, from, ports, extra)
        BY <1>7, <3>1, <3>2
      <3>4. Window(p) /\ Scheduled(p, s)
        BY <1>1
      <3>5. Schedules(p, y, from, ports, s, t, x)
        BY <2>1, <3>1, <3>3, <3>4, ScheduleIs
      <3> QED
        BY <3>1, <3>5 DEF Schedules
  <1>11. Backend(y.p) /\ Onward(p, y.p)
    BY <1>1, <1>10, ApartFit
  <1>12. Fit(y.p, t)
    BY <1>10, <1>11 DEF Fit
  <1>13. Fit(z.p, t) /\ Onward(p, z.p) /\ z.p.cur = y.p.cur /\ z = [p |-> z.p, at |-> z.at, port |-> z.port]
    <2>1. CASE y.p.cur > p.cur
      <3>1. PICK e : e = NewCycle(y.p)
        OBVIOUS
      <3>2. z = [p |-> e, at |-> y.at, port |-> y.port]
        BY <1>8, <1>10, <2>1, <3>1
      <3>3. Fit(e, t) /\ Onward(y.p, e) /\ e.cur = y.p.cur
        BY <1>12, <3>1, NewCycleFit
      <3>4. Onward(p, e)
        BY <1>1, <1>10, <1>11, <3>3, OnwardChain DEF Fit
      <3> QED
        BY <3>2, <3>3, <3>4
    <2>2. CASE ~(y.p.cur > p.cur)
      BY <1>8, <1>10, <1>11, <1>12, <2>2
    <2> QED
      BY <2>1, <2>2
  <1>14. z.at \in Nat /\ z.at >= z.p.cur /\ z.port \in 0 .. 5
    BY <1>2, <1>9, <1>10, <1>13
  <1>15. z.at >= p.reg[u.rs[1]] /\ z.at >= p.reg[u.rs[2]] /\ z.at >= m + IssueToDispatch
    <2>1. p.reg[u.rs[1]] \in Int /\ p.reg[u.rs[2]] \in Int
      BY <1>1, <1>2
    <2> QED
      BY <1>3, <1>5, <1>6, <1>9, <1>10, <2>1, Sizes
  <1> QED
    BY <1>4, <1>10, <1>13, <1>14, <1>15 DEF Enters

\* The same from decoding on.
LEMMA FrontFit ==
    ASSUME NEW s, Taken(s), NEW p, Fit(p, s), NEW u \in Uops, NEW prev \in Int,
           NEW z, z = DispatchUop(IssueUop(DecodeUop(p, u, prev), u), u),
           NEW t, NEW x, AndOne(s, t, x, <<z.at, z.port>>)
    PROVE  Fit(z.p, t) /\ Enters(p, z, u) /\ Taken(t) /\ \A i \in DOMAIN s : t[i] # t[x]
  <1>1. PICK d : d = DecodeUop(p, u, prev)
    OBVIOUS
  <1>2. Fit(d, s) /\ Onward(p, d)
    <2>1. u.dec \in Int
      BY DEF Uops
    <2> QED
      BY <1>1, <2>1, DecodeFit
  <1>3. PICK i : i = IssueUop(d, u)
    OBVIOUS
  <1>4. Fit(i, s) /\ Onward(d, i)
    BY <1>2, <1>3, IssueFit
  <1>5. Onward(p, i)
    BY <1>2, <1>4, OnwardChain DEF Fit
  <1>6. z = DispatchUop(i, u)
    BY <1>1, <1>3
  <1>7. Fit(z.p, t) /\ Enters(i, z, u) /\ Taken(t) /\ \A k \in DOMAIN s : t[k] # t[x]
    BY <1>4, <1>6, DispatchFit
  <1>8. Onward(p, z.p)
    BY <1>4, <1>5, <1>7, OnwardChain DEF Fit, Enters
  <1>9. u.rs[1] \in Registers /\ u.rs[2] \in Registers
    BY DEF Uops
  <1>10. Enters(p, z, u)
    BY <1>5, <1>7, <1>8, <1>9 DEF Enters, Onward
  <1> QED
    BY <1>7, <1>10

-----------------------------------------------------------------------------
(* Execution *)

\* An operation retires with the others of the cycle, or in a later one.
Marked(b, e, c, size) ==
    /\ e \in Buffers(size) /\ e.buf = [b.buf EXCEPT ![b.idx] = e.cyc]
    /\ e.idx = IF b.idx + 1 = size THEN 0 ELSE b.idx + 1
    /\ e.cyc = IF c > b.cyc THEN c ELSE IF b.n = RetireWidth THEN b.cyc + 1 ELSE b.cyc
    /\ e.n = IF c > b.cyc THEN 1 ELSE IF b.n = RetireWidth THEN 0 ELSE b.n + 1

\* markRetire(), in its three cases.
LEMMA MarkIs ==
    ASSUME NEW size \in Nat \ {0}, NEW b \in Buffers(size), NEW c \in Int, NEW e, e = markRetire(b, c)
    PROVE  Marked(b, e, c, size)
  <1>1. PICK r : r = IF c > b.cyc THEN [b EXCEPT !.cyc = c, !.n = 1]
                     ELSE IF b.n = RetireWidth THEN [b EXCEPT !.cyc = @ + 1, !.n = 0]
                     ELSE [b EXCEPT !.n = @ + 1]
    OBVIOUS
  <1>2. b.cyc \in Int /\ b.n \in Int
    BY DEF Buffers
  <1>3. /\ r \in Buffers(size) /\ r.buf = b.buf /\ r.idx = b.idx
        /\ r.cyc = IF c > b.cyc THEN c ELSE IF b.n = RetireWidth THEN b.cyc + 1 ELSE b.cyc
        /\ r.n = IF c > b.cyc THEN 1 ELSE IF b.n = RetireWidth THEN 0 ELSE b.n + 1
    <2>1. b = [buf |-> b.buf, idx |-> b.idx, cyc |-> b.cyc, n |-> b.n] /\ b.buf \in [0 .. size - 1 -> Int]
          /\ b.idx \in 0 .. size - 1
      BY DEF Buffers
    <2>2. CASE c > b.cyc
      <3>1. r = [buf |-> b.buf, idx |-> b.idx, cyc |-> c, n |-> 1]
        BY <1>1, <2>1, <2>2
      <3> QED
        BY <2>1, <2>2, <3>1 DEF Buffers
    <2>3. CASE ~(c > b.cyc) /\ b.n = RetireWidth
      <3>1. r = [buf |-> b.buf, idx |-> b.idx, cyc |-> b.cyc + 1, n |-> 0]
        BY <1>1, <2>1, <2>3
      <3> QED
        BY <1>2, <2>1, <2>3, <3>1 DEF Buffers
    <2>4. CASE ~(c > b.cyc) /\ b.n # RetireWidth
      <3>1. r = [buf |-> b.buf, idx |-> b.idx, cyc |-> b.cyc, n |-> b.n + 1]
        BY <1>1, <2>1, <2>4
      <3> QED
        BY <1>2, <2>1, <2>4, <3>1 DEF Buffers
    <2> QED
      BY <2>2, <2>3, <2>4
  <1>4. r.cyc \in Int
    BY <1>3 DEF Buffers
  <1>5. e = Push(r, r.cyc)
    BY <1>1 DEF markRetire
  <1>6. Pushed(r, e, r.cyc, size)
    BY <1>3, <1>4, <1>5, PushIs
  <1> QED
    BY <1>3, <1>6 DEF Pushed, Marked

\* What an operation with the address a, scheduled for the cycle c, does to a pipeline
\* before it retires.
Middle(q, y, u, a, c) ==
    /\ y = [p |-> y.p, at |-> y.at, commit |-> y.commit] /\ y.at \in Int /\ y.commit \in Int /\ y.at >= c
    /\ Still(q, y.p) /\ Backend(y.p) /\ y.p.rob = q.rob /\ y.p.reg = q.reg
    /\ y.p.lq = IF u.type = "LOAD" THEN markRetire(q.lq, y.commit) ELSE q.lq
    /\ y.p.sq = IF u.type = "STORE" THEN markRetire(q.sq, y.commit) ELSE q.sq
    /\ y.p.fwd = IF u.type = "STORE" THEN [q.fwd EXCEPT ![FwdIdx(a)] = [addr |-> a, cyc |-> y.commit]] ELSE q.fwd
    /\ y.p.st >= q.st /\ (u.type = "STORE" => y.p.st >= y.commit)
    /\ y.p.sta >= q.sta /\ (u.type \in {"STORE_ADDR", "FENCE"} => y.p.sta >= y.commit)
    /\ u.type = "FENCE" => y.p.sta >= q.st
    /\ u.type \in {"LOAD", "STORE"} => y.at > q.sta
    /\ u.type = "LOAD" =>
        /\ y.at >= q.lq.buf[q.lq.idx]
        /\ q.fwd[FwdIdx(a)].addr = a => y.commit >= q.fwd[FwdIdx(a)].cyc
    /\ u.type = "STORE" => y.at >= q.sq.buf[q.sq.idx]

\* An address has its place in fwdArray.
LEMMA FwdIdxIs ==
    ASSUME NEW a \in Int
    PROVE  FwdIdx(a) \in 0 .. FwdEntries - 1
  BY Sizes DEF FwdIdx

\* Loads and stores wait for the addresses of the stores before them, and for an entry.
LEMMA MemDispatchIs ==
    ASSUME NEW size \in Nat \ {0}, NEW b \in Buffers(size), NEW q, q.sta \in Int, NEW c \in Int,
           NEW d, d = MemDispatch(q, b, c)
    PROVE  d \in Int /\ d > q.sta /\ d >= b.buf[b.idx] /\ d >= c
  <1>1. PICK m \in Int : m = minAllocCycle(b) /\ m = b.buf[b.idx]
    BY MinAllocInt
  <1>2. PICK n \in Int : n = Larger(m, c) /\ n >= m /\ n >= c
    BY LargerIs
  <1>3. PICK k \in Int : k = q.sta + 1
    OBVIOUS
  <1>4. d = Larger(k, n)
    BY <1>1, <1>2, <1>3 DEF MemDispatch
  <1>5. d \in Int /\ d >= k /\ d >= n
    BY <1>4, LargerIs
  <1> QED
    BY <1>1, <1>2, <1>3, <1>5

\* Loads.
LEMMA LoadMiddle ==
    ASSUME NEW q, Window(q), Backend(q), NEW u, u.type = "LOAD", NEW a \in Int, NEW c \in Int, NEW lat \in Nat,
           NEW y, y = LoadUop(q, a, c, lat)
    PROVE  Middle(q, y, u, a, c)
  <1>1. /\ q.lq \in Buffers(LoadQueueSize) /\ q.sta \in Int /\ q.st \in Int
        /\ q.fwd \in [0 .. FwdEntries - 1 -> [addr : Int, cyc : Int]]
    BY DEF Backend
  <1>2. PICK d : d = MemDispatch(q, q.lq, c)
    OBVIOUS
  <1>3. d \in Int /\ d > q.sta /\ d >= q.lq.buf[q.lq.idx] /\ d >= c
    <2>1. LoadQueueSize \in Nat \ {0}
      BY Sizes
    <2> QED
      BY <1>1, <1>2, <2>1, MemDispatchIs
  <1>4. PICK answer \in Int : answer = IF a = NoAddr THEN d ELSE d + lat + L1DLat + LoadExtra
    BY <1>3, Sizes
  <1>5. PICK f \in [addr : Int, cyc : Int] : f = q.fwd[FwdIdx(a)]
    BY <1>1, FwdIdxIs
  <1>6. f.cyc \in Int
    OBVIOUS
  <1>7. PICK commit \in Int : commit = (IF f.addr = a THEN Larger(answer, f.cyc) ELSE answer)
                              /\ (f.addr = a => commit >= f.cyc)
    BY <1>6, LargerIs
  <1>8. y = [p |-> [q EXCEPT !.lq = markRetire(@, commit)], at |-> d, commit |-> commit]
    BY <1>2, <1>4, <1>5, <1>7 DEF LoadUop
  <1>9. q = [k \in PipeFields |-> q[k]]
    BY DEF Window, Moving
  <1>10. PICK b : b = markRetire(q.lq, commit)
    OBVIOUS
  <1>11. b \in Buffers(LoadQueueSize)
    <2>1. LoadQueueSize \in Nat \ {0}
      BY Sizes
    <2> QED
      BY <1>1, <1>10, <2>1, MarkIs DEF Marked
  <1>12. y.p = [q EXCEPT !.lq = b] /\ y.at = d /\ y.commit = commit
    BY <1>8, <1>10
  <1>13. /\ Still(q, y.p) /\ y.p.lq = b /\ y.p.rob = q.rob /\ y.p.sq = q.sq /\ y.p.uq = q.uq /\ y.p.reg = q.reg
         /\ y.p.fwd = q.fwd /\ y.p.st = q.st /\ y.p.sta = q.sta /\ y.p.dec = q.dec /\ y.p.rf = q.rf
         /\ y.p.iss = q.iss
    BY <1>9, <1>12 DEF PipeFields, Still
  <1>14. Backend(y.p)
    BY <1>11, <1>13 DEF Backend
  <1>15. y = [p |-> y.p, at |-> y.at, commit |-> y.commit]
    BY <1>8
  <1>16. q.fwd[FwdIdx(a)].addr = a => y.commit >= q.fwd[FwdIdx(a)].cyc
    BY <1>5, <1>7, <1>12
  <1> QED
    BY <1>1, <1>3, <1>10, <1>12, <1>13, <1>14, <1>15, <1>16 DEF Middle

\* Stores.
LEMMA StoreMiddle ==
    ASSUME NEW q, Window(q), Backend(q), NEW u, u.type = "STORE", NEW a \in Int, NEW c \in Int, NEW lat \in Nat,
           NEW y, y = StoreUop(q, a, c, lat)
    PROVE  Middle(q, y, u, a, c)
  <1>1. /\ q.sq \in Buffers(StoreQueueSize) /\ q.sta \in Int /\ q.st \in Int
        /\ q.fwd \in [0 .. FwdEntries - 1 -> [addr : Int, cyc : Int]]
    BY DEF Backend
  <1>2. PICK d : d = MemDispatch(q, q.sq, c)
    OBVIOUS
  <1>3. d \in Int /\ d > q.sta /\ d >= q.sq.buf[q.sq.idx] /\ d >= c
    <2>1. StoreQueueSize \in Nat \ {0}
      BY Sizes
    <2> QED
      BY <1>1, <1>2, <2>1, MemDispatchIs
  <1>4. PICK commit \in Int : commit = d + lat + L1DLat
    BY <1>3, Sizes
  <1>5. PICK st_ \in Int : st_ = Larger(q.st, commit) /\ st_ >= q.st /\ st_ >= commit
    BY <1>1, LargerIs
  <1>6. PICK b : b = markRetire(q.sq, commit)
    OBVIOUS
  <1>7. b \in Buffers(StoreQueueSize)
    <2>1. StoreQueueSize \in Nat \ {0}
      BY Sizes
    <2> QED
      BY <1>1, <1>6, <2>1, MarkIs DEF Marked
  <1>8. PICK k \in 0 .. FwdEntries - 1 : k = FwdIdx(a)
    BY FwdIdxIs
  <1>9. q = [f \in PipeFields |-> q[f]]
    BY DEF Window, Moving
  <1>10. y = [p |-> [q EXCEPT !.fwd[k] = [addr |-> a, cyc |-> commit], !.st = st_, !.sq = b], at |-> d, commit |-> commit]
    BY <1>2, <1>4, <1>5, <1>6, <1>8, <1>9 DEF StoreUop, PipeFields
  <1>12. y.p = [q EXCEPT !.fwd[k] = [addr |-> a, cyc |-> commit], !.st = st_, !.sq = b] /\ y.at = d /\ y.commit = commit
    BY <1>10
  <1>13. /\ Still(q, y.p) /\ y.p.sq = b /\ y.p.rob = q.rob /\ y.p.lq = q.lq /\ y.p.uq = q.uq /\ y.p.reg = q.reg
         /\ y.p.fwd = [q.fwd EXCEPT ![k] = [addr |-> a, cyc |-> commit]] /\ y.p.st = st_ /\ y.p.sta = q.sta
         /\ y.p.dec = q.dec /\ y.p.rf = q.rf /\ y.p.iss = q.iss
    BY <1>9, <1>12 DEF PipeFields, Still
  <1>14. y.p.fwd \in [0 .. FwdEntries - 1 -> [addr : Int, cyc : Int]]
    <2>1. [addr |-> a, cyc |-> commit] \in [addr : Int, cyc : Int]
      OBVIOUS
    <2> QED
      BY <1>1, <1>13, <2>1
  <1>15. Backend(y.p)
    BY <1>7, <1>13, <1>14 DEF Backend
  <1>16. y = [p |-> y.p, at |-> y.at, commit |-> y.commit]
    BY <1>10
  <1> QED
    BY <1>1, <1>3, <1>5, <1>6, <1>8, <1>12, <1>13, <1>15, <1>16 DEF Middle

\* Addresses of stores, and fences: only lastStoreAddrCommitCycle changes.
AddressRan(q, c, lat, sta) == [p |-> [q EXCEPT !.sta = sta], at |-> c, commit |-> c + lat]

\* Both are the same but for the cycle.
LEMMA AddressMiddle ==
    ASSUME NEW q, Window(q), Backend(q), NEW u, u.type \in {"STORE_ADDR", "FENCE"}, NEW a, NEW c \in Int,
           NEW lat \in Nat, NEW sta \in Int, sta >= q.sta, sta >= c + lat, u.type = "FENCE" => sta >= q.st,
           NEW y, y = AddressRan(q, c, lat, sta)
    PROVE  Middle(q, y, u, a, c)
  <1>1. q.sta \in Int /\ q.st \in Int
    BY DEF Backend
  <1>9. q = [f \in PipeFields |-> q[f]]
    BY DEF Window, Moving
  <1>12. y.p = [q EXCEPT !.sta = sta] /\ y.at = c /\ y.commit = c + lat
    BY DEF AddressRan
  <1>13. /\ Still(q, y.p) /\ y.p.sq = q.sq /\ y.p.rob = q.rob /\ y.p.lq = q.lq /\ y.p.uq = q.uq /\ y.p.reg = q.reg
         /\ y.p.fwd = q.fwd /\ y.p.st = q.st /\ y.p.sta = sta
         /\ y.p.dec = q.dec /\ y.p.rf = q.rf /\ y.p.iss = q.iss
    BY <1>9, <1>12 DEF PipeFields, Still
  <1>15. Backend(y.p)
    BY <1>13 DEF Backend
  <1>16. y = [p |-> y.p, at |-> y.at, commit |-> y.commit]
    BY DEF AddressRan
  <1>17. y.commit \in Int /\ y.at \in Int /\ u.type # "LOAD" /\ u.type # "STORE"
    BY <1>12
  <1> QED
    BY <1>1, <1>12, <1>13, <1>15, <1>16, <1>17 DEF Middle

\* Other operations change nothing before they retire.
LEMMA GeneralMiddle ==
    ASSUME NEW q, Window(q), Backend(q), NEW u, u.type = "GENERAL", NEW a, NEW c \in Int, NEW lat \in Nat,
           NEW y, y = [p |-> q, at |-> c, commit |-> c + lat]
    PROVE  Middle(q, y, u, a, c)
  <1>1. q.sta \in Int /\ q.st \in Int
    BY DEF Backend
  <1>2. Still(q, q)
    BY DEF Still, Window, Moving
  <1>3. y.p = q /\ y.at = c /\ y.commit = c + lat /\ y.commit \in Int
    OBVIOUS
  <1> QED
    BY <1>1, <1>2, <1>3 DEF Middle

\* What an operation with the address a, run as x, does to the pipeline p.
Ran(p, x, u, a) ==
    /\ x = [p |-> x.p, slot |-> x.slot, at |-> x.at, commit |-> x.commit]
    /\ x.at \in Int /\ x.commit \in Int /\ x.slot \in Nat \X Nat /\ p.cur <= x.p.cur
    /\ \A r \in {u.rs[1], u.rs[2]} \ {0} : x.slot[1] >= p.reg[r]
    /\ x.slot[1] >= p.rob.buf[p.rob.idx] + IssueToDispatch
    /\ Marked(p.rob, x.p.rob, x.commit, RobSize)
    /\ \A r \in Registers \ {0} : x.p.reg[r] = IF r \in {u.rd[1], u.rd[2]} THEN x.commit ELSE p.reg[r]
    /\ IF u.type = "LOAD" THEN Marked(p.lq, x.p.lq, x.commit, LoadQueueSize) ELSE x.p.lq = p.lq
    /\ IF u.type = "STORE" THEN Marked(p.sq, x.p.sq, x.commit, StoreQueueSize) ELSE x.p.sq = p.sq
    /\ x.p.fwd = IF u.type = "STORE" THEN [p.fwd EXCEPT ![FwdIdx(a)] = [addr |-> a, cyc |-> x.commit]] ELSE p.fwd
    /\ x.p.st >= p.st /\ (u.type = "STORE" => x.p.st >= x.commit)
    /\ x.p.sta >= p.sta /\ (u.type \in {"STORE_ADDR", "FENCE"} => x.p.sta >= x.commit)
    /\ u.type = "FENCE" => x.p.sta >= p.st
    /\ u.type \in {"LOAD", "STORE"} => x.at > p.sta
    /\ u.type = "LOAD" =>
        /\ x.at >= p.lq.buf[p.lq.idx]
        /\ p.fwd[FwdIdx(a)].addr = a => x.commit >= p.fwd[FwdIdx(a)].cyc
    /\ u.type = "STORE" => x.at >= p.sq.buf[p.sq.idx]

\* It retires.
LEMMA RetireRan ==
    ASSUME NEW p, Backend(p), NEW u \in Uops, NEW a \in Int, NEW t, NEW z, Fit(z.p, t), Enters(p, z, u),
           NEW y, Middle(z.p, y, u, a, z.at), NEW x, x = RetireUop(u, z, y)
    PROVE  Fit(x.p, t) /\ Ran(p, x, u, a)
  <1>1. PICK c \in Int : c = y.commit
    BY DEF Middle
  <1>2. PICK q : q = y.p
    OBVIOUS
  <1>3. q = [f \in PipeFields |-> q[f]] /\ Backend(q) /\ Window(q) /\ Scheduled(q, t)
    <2>1. Still(z.p, q) /\ Backend(q)
      BY <1>2 DEF Middle
    <2>2. Window(q) /\ Scheduled(q, t)
      BY <2>1, StillScheduled DEF Fit
    <2> QED
      BY <2>1, <2>2 DEF Still
  <1>4. PICK b : b = markRetire(q.rob, c)
    OBVIOUS
  <1>5. Marked(q.rob, b, c, RobSize)
    <2>1. RobSize \in Nat \ {0} /\ q.rob \in Buffers(RobSize)
      BY <1>3, Sizes DEF Backend
    <2> QED
      BY <1>4, <2>1, MarkIs
  <1>6. PICK g : g = [q.reg EXCEPT ![u.rd[1]] = c, ![u.rd[2]] = c]
    OBVIOUS
  <1>7. x = [p |-> [q EXCEPT !.rob = b, !.reg = g], slot |-> <<z.at, z.port>>, at |-> y.at, commit |-> c]
    BY <1>1, <1>2, <1>4, <1>6 DEF RetireUop
  <1>8. /\ x.p = [q EXCEPT !.rob = b, !.reg = g] /\ x.slot = <<z.at, z.port>> /\ x.at = y.at /\ x.commit = c
        /\ x = [p |-> x.p, slot |-> x.slot, at |-> x.at, commit |-> x.commit]
    BY <1>7
  <1>9. /\ Still(q, x.p) /\ x.p.lq = q.lq /\ x.p.sq = q.sq /\ x.p.uq = q.uq /\ x.p.rob = b /\ x.p.reg = g
        /\ x.p.fwd = q.fwd /\ x.p.st = q.st /\ x.p.sta = q.sta /\ x.p.dec = q.dec /\ x.p.rf = q.rf /\ x.p.iss = q.iss
    BY <1>3, <1>8 DEF PipeFields, Still
  <1>10. u.rd[1] \in Registers /\ u.rd[2] \in Registers
    BY DEF Uops
  <1>11. q.reg \in [Registers -> Int] /\ q.reg = z.p.reg
    BY <1>2, <1>3 DEF Backend, Middle
  <1>12. /\ g \in [Registers -> Int]
         /\ \A r \in Registers : g[r] = IF r \in {u.rd[1], u.rd[2]} THEN c ELSE q.reg[r]
    BY <1>6, <1>10, <1>11
  <1>13. Backend(x.p)
    BY <1>3, <1>5, <1>9, <1>12 DEF Backend, Marked
  <1>14. Fit(x.p, t)
    BY <1>3, <1>9, <1>13, StillScheduled DEF Fit
  <1>15. /\ z.p.rob = p.rob /\ z.p.lq = p.lq /\ z.p.sq = p.sq /\ z.p.fwd = p.fwd /\ z.p.st = p.st /\ z.p.sta = p.sta
         /\ \A r \in Registers \ {0} : z.p.reg[r] = p.reg[r]
         /\ p.cur <= z.p.cur
    BY DEF Enters, Onward
  <1>16. q.rob = p.rob /\ q.cur = z.p.cur
    BY <1>2, <1>15 DEF Middle, Still
  <1>17. \A r \in Registers \ {0} : x.p.reg[r] = IF r \in {u.rd[1], u.rd[2]} THEN c ELSE p.reg[r]
    BY <1>9, <1>11, <1>12, <1>15
  <1>18. IF u.type = "LOAD" THEN Marked(p.lq, x.p.lq, c, LoadQueueSize) ELSE x.p.lq = p.lq
    <2>1. CASE u.type = "LOAD"
      <3>1. LoadQueueSize \in Nat \ {0} /\ p.lq \in Buffers(LoadQueueSize)
        BY Sizes DEF Backend
      <3>2. x.p.lq = markRetire(p.lq, c)
        BY <1>1, <1>2, <1>9, <1>15, <2>1 DEF Middle
      <3>3. Marked(p.lq, x.p.lq, c, LoadQueueSize)
        BY <3>1, <3>2, MarkIs
      <3> QED
        BY <2>1, <3>3
    <2>2. CASE u.type # "LOAD"
      BY <1>2, <1>9, <1>15, <2>2 DEF Middle
    <2> QED
      BY <2>1, <2>2
  <1>19. IF u.type = "STORE" THEN Marked(p.sq, x.p.sq, c, StoreQueueSize) ELSE x.p.sq = p.sq
    <2>1. CASE u.type = "STORE"
      <3>1. StoreQueueSize \in Nat \ {0} /\ p.sq \in Buffers(StoreQueueSize)
        BY Sizes DEF Backend
      <3>2. x.p.sq = markRetire(p.sq, c)
        BY <1>1, <1>2, <1>9, <1>15, <2>1 DEF Middle
      <3>3. Marked(p.sq, x.p.sq, c, StoreQueueSize)
        BY <3>1, <3>2, MarkIs
      <3> QED
        BY <2>1, <3>3
    <2>2. CASE u.type # "STORE"
      BY <1>2, <1>9, <1>15, <2>2 DEF Middle
    <2> QED
      BY <2>1, <2>2
  <1>20. /\ x.p.fwd = IF u.type = "STORE" THEN [p.fwd EXCEPT ![FwdIdx(a)] = [addr |-> a, cyc |-> c]] ELSE p.fwd
         /\ x.p.st >= p.st /\ (u.type = "STORE" => x.p.st >= c)
         /\ x.p.sta >= p.sta /\ (u.type \in {"STORE_ADDR", "FENCE"} => x.p.sta >= c)
         /\ u.type = "FENCE" => x.p.sta >= p.st
         /\ u.type \in {"LOAD", "STORE"} => x.at > p.sta
         /\ u.type = "LOAD" =>
             /\ x.at >= p.lq.buf[p.lq.idx]
             /\ p.fwd[FwdIdx(a)].addr = a => c >= p.fwd[FwdIdx(a)].cyc
         /\ u.type = "STORE" => x.at >= p.sq.buf[p.sq.idx]
    BY <1>1, <1>2, <1>8, <1>9, <1>15 DEF Middle
  <1>21. x.at \in Int /\ x.slot \in Nat \X Nat /\ x.slot[1] = z.at /\ p.cur <= x.p.cur
    <2>1. z.at \in Nat /\ z.port \in Nat
      BY DEF Enters
    <2> QED
      BY <1>8, <1>9, <1>15, <1>16, <2>1 DEF Middle, Still
  <1> QED
    BY <1>5, <1>8, <1>9, <1>14, <1>16, <1>17, <1>18, <1>19, <1>20, <1>21 DEF Ran, Enters

\* All of it: an operation runs.
LEMMA RunUopRan ==
    ASSUME NEW s, Taken(s), NEW p, Fit(p, s), NEW u \in Uops, NEW prev \in Int, NEW a \in Int, NEW lat \in Nat,
           NEW x, x = RunUop(p, u, prev, a, lat), NEW t, NEW n, AndOne(s, t, n, x.slot)
    PROVE  Fit(x.p, t) /\ Ran(p, x, u, a) /\ \A i \in DOMAIN s : t[i] # t[n]
  <1>1. PICK z : z = DispatchUop(IssueUop(DecodeUop(p, u, prev), u), u)
    OBVIOUS
  <1>2. PICK y : y = CASE u.type = "GENERAL" -> [p |-> z.p, at |-> z.at, commit |-> z.at + u.lat]
                      [] u.type = "LOAD" -> LoadUop(z.p, a, z.at, lat)
                      [] u.type = "STORE" -> StoreUop(z.p, a, z.at, lat)
                      [] u.type = "STORE_ADDR" -> StoreAddrUop(z.p, z.at, u.lat)
                      [] u.type = "FENCE" -> FenceUop(z.p, z.at, u.lat)
    OBVIOUS
  <1>3. x = RetireUop(u, z, y)
    BY <1>1, <1>2 DEF RunUop, ExecuteUop
  <1>4. x.slot = <<z.at, z.port>>
    BY <1>3 DEF RetireUop
  <1>5. Fit(z.p, t) /\ Enters(p, z, u) /\ Taken(t) /\ \A i \in DOMAIN s : t[i] # t[n]
    BY <1>1, <1>4, FrontFit
  <1>6. PICK q : q = z.p
    OBVIOUS
  <1>7. PICK c \in Int : c = z.at
    BY <1>5 DEF Enters
  <1>8. Window(q) /\ Backend(q) /\ q.sta \in Int /\ q.st \in Int
    BY <1>5, <1>6 DEF Fit, Backend
  <1>9. PICK l \in Nat : l = u.lat
    BY DEF Uops
  <1>10. u.type \in {"GENERAL", "LOAD", "STORE", "STORE_ADDR", "FENCE"}
    BY DEF Uops
  <1>11. Middle(q, y, u, a, c)
    <2>1. CASE u.type = "GENERAL"
      <3>1. y = [p |-> q, at |-> c, commit |-> c + l]
        BY <1>2, <1>6, <1>7, <1>9, <2>1
      <3> QED
        BY <1>8, <2>1, <3>1, GeneralMiddle
    <2>2. CASE u.type = "LOAD"
      <3>1. y = LoadUop(q, a, c, lat)
        BY <1>2, <1>6, <1>7, <2>2
      <3> QED
        BY <1>8, <2>2, <3>1, LoadMiddle
    <2>3. CASE u.type = "STORE"
      <3>1. y = StoreUop(q, a, c, lat)
        BY <1>2, <1>6, <1>7, <2>3
      <3> QED
        BY <1>8, <2>3, <3>1, StoreMiddle
    <2>4. CASE u.type = "STORE_ADDR"
      <3>1. y = StoreAddrUop(q, c, l)
        BY <1>2, <1>6, <1>7, <1>9, <2>4
      <3>2. PICK d \in Int : d = c + l
        OBVIOUS
      <3>3. PICK sta \in Int : sta = Larger(q.sta, d) /\ sta >= q.sta /\ sta >= d
        BY <1>8, LargerIs
      <3>4. y = AddressRan(q, c, l, sta)
        BY <3>1, <3>2, <3>3 DEF StoreAddrUop, AddressRan
      <3>5. sta >= c + l /\ u.type \in {"STORE_ADDR", "FENCE"} /\ (u.type = "FENCE" => sta >= q.st)
        BY <2>4, <3>2, <3>3
      <3> QED
        BY <1>8, <3>3, <3>4, <3>5, AddressMiddle
    <2>5. CASE u.type = "FENCE"
      <3>1. y = FenceUop(q, c, l)
        BY <1>2, <1>6, <1>7, <1>9, <2>5
      <3>2. PICK d \in Int : d = c + l
        OBVIOUS
      <3>3. PICK e \in Int : e = q.st + l
        BY <1>8
      <3>4. PICK m \in Int : m = Larger(q.sta, e) /\ m >= q.sta /\ m >= e
        BY <1>8, LargerIs
      <3>5. PICK sta \in Int : sta = Larger(d, m) /\ sta >= d /\ sta >= m
        BY LargerIs
      <3>6. y = AddressRan(q, c, l, sta)
        BY <3>1, <3>2, <3>3, <3>4, <3>5 DEF FenceUop, AddressRan
      <3>7. sta >= q.sta /\ sta >= c + l /\ u.type \in {"STORE_ADDR", "FENCE"} /\ (u.type = "FENCE" => sta >= q.st)
        BY <1>8, <2>5, <3>2, <3>3, <3>4, <3>5
      <3> QED
        BY <1>8, <3>6, <3>7, AddressMiddle
    <2> QED
      BY <1>10, <2>1, <2>2, <2>3, <2>4, <2>5
  <1>12. Backend(p) /\ Middle(z.p, y, u, a, z.at)
    BY <1>6, <1>7, <1>11 DEF Fit
  <1> QED
    BY <1>3, <1>5, <1>12, RetireRan

-----------------------------------------------------------------------------
(* The operations so far *)

\* w is the history o and then e.
Extended(o, w, e) ==
    /\ o \in Seq(Events) /\ w \in Seq(Events) /\ e \in Events /\ Len(o) \in Nat /\ Len(w) = Len(o) + 1
    /\ w[Len(o) + 1] = e /\ \A i \in 1 .. Len(o) : w[i] = o[i]

\* That is what Append does.
LEMMA AppendIs ==
    ASSUME NEW o \in Seq(Events), NEW e \in Events, NEW w, w = Append(o, e)
    PROVE  Extended(o, w, e)
  <1>1. w \in Seq(Events) /\ Len(o) \in Nat /\ Len(w) = Len(o) + 1
    OBVIOUS
  <1>2. w[Len(o) + 1] = e
    OBVIOUS
  <1>3. \A i \in 1 .. Len(o) : w[i] = o[i]
    OBVIOUS
  <1> QED
    BY <1>1, <1>2, <1>3 DEF Extended

\* The record of an operation u that ran as x.
Entry(e, u, a, x) ==
    /\ e \in Events /\ e.u = u /\ e.addr = a /\ e.slot = x.slot /\ e.at = x.at /\ e.commit = x.commit
    /\ e.ret = x.p.rob.cyc

\* The types of the records.
LEMMA EventsTyped ==
    ASSUME NEW o \in Seq(Events)
    PROVE  \A i \in 1 .. Len(o) : /\ o[i] \in Events /\ o[i].u \in Uops /\ o[i].addr \in Int /\ o[i].commit \in Int
                                  /\ o[i].ret \in Int /\ o[i].at \in Int
  <1>1. \A i \in 1 .. Len(o) : o[i] \in Events
    OBVIOUS
  <1> QED
    BY <1>1 DEF Events

\* Registers and store state are kept for the longer history.
LEMMA OrderedStep ==
    ASSUME NEW o, NEW w, NEW e, Extended(o, w, e), NEW p, Backend(p), Ordered(p, o), NEW x, Backend(x.p),
           NEW u \in Uops, NEW a \in Int, Ran(p, x, u, a), Entry(e, u, a, x)
    PROVE  Ordered(x.p, w)
  <1>1. PICK n \in Nat : n = Len(o) /\ Len(w) = n + 1 /\ w[n + 1] = e /\ \A i \in 1 .. n : w[i] = o[i]
    BY DEF Extended
  <1>2. \A i \in 1 .. n : o[i].u \in Uops /\ o[i].addr \in Int /\ o[i].commit \in Int
    BY <1>1, EventsTyped DEF Extended
  <1>3. e.u = u /\ e.addr = a /\ e.commit = x.commit /\ x.commit \in Int
    BY DEF Entry, Ran
  <1>4. p.st \in Int /\ p.sta \in Int /\ x.p.st \in Int /\ x.p.sta \in Int
    BY DEF Backend
  <1>5. ASSUME NEW r \in Registers \ {0}, NEW i \in 1 .. n + 1, Writes(w[i], r),
               \A k \in i + 1 .. n + 1 : ~Writes(w[k], r)
        PROVE  x.p.reg[r] = w[i].commit
    <2>1. x.p.reg[r] = IF r \in {u.rd[1], u.rd[2]} THEN x.commit ELSE p.reg[r]
      BY DEF Ran
    <2>2. CASE i = n + 1
      <3>1. r \in {u.rd[1], u.rd[2]}
        BY <1>1, <1>3, <1>5, <2>2 DEF Writes
      <3> QED
        BY <1>1, <1>3, <2>1, <2>2, <3>1
    <2>3. CASE i \in 1 .. n
      <3>1. n + 1 \in i + 1 .. n + 1
        BY <2>3
      <3>2. ~Writes(w[n + 1], r)
        BY <1>5, <3>1
      <3>3. r \notin {u.rd[1], u.rd[2]}
        BY <1>1, <1>3, <3>2 DEF Writes
      <3>4. Writes(o[i], r) /\ \A k \in i + 1 .. n : ~Writes(o[k], r)
        <4>1. \A k \in i + 1 .. n : k \in 1 .. n /\ k \in i + 1 .. n + 1
          BY <2>3
        <4> QED
          BY <1>1, <1>5, <2>3, <4>1
      <3>5. p.reg[r] = o[i].commit
        BY <1>1, <2>3, <3>4 DEF Ordered
      <3> QED
        BY <1>1, <2>1, <2>3, <3>3, <3>5
    <2> QED
      BY <2>2, <2>3
  <1>6. ASSUME NEW i \in 1 .. n + 1, w[i].u.type \in {"STORE_ADDR", "FENCE"} PROVE x.p.sta >= w[i].commit
    <2>1. CASE i = n + 1
      BY <1>1, <1>3, <1>6, <2>1 DEF Ran
    <2>2. CASE i \in 1 .. n
      <3>1. p.sta >= o[i].commit /\ o[i].commit \in Int
        BY <1>1, <1>2, <1>6, <2>2 DEF Ordered
      <3>2. x.p.sta >= p.sta
        BY DEF Ran
      <3> QED
        BY <1>1, <1>4, <2>2, <3>1, <3>2
    <2> QED
      BY <2>1, <2>2
  <1>7. ASSUME NEW i \in 1 .. n + 1, w[i].u.type = "STORE"
        PROVE  /\ x.p.st >= w[i].commit
               /\ (\E f \in i .. n + 1 : w[f].u.type = "FENCE") => x.p.sta >= w[i].commit
               /\ \/ x.p.fwd[FwdIdx(w[i].addr)] = [addr |-> w[i].addr, cyc |-> w[i].commit]
                  \/ \E k \in i + 1 .. n + 1 : w[k].u.type = "STORE" /\ FwdIdx(w[k].addr) = FwdIdx(w[i].addr)
    <2>0. p.fwd \in [0 .. FwdEntries - 1 -> [addr : Int, cyc : Int]]
      BY DEF Backend
    <2>1. CASE i = n + 1
      <3>1. u.type = "STORE" /\ w[i].addr = a /\ w[i].commit = x.commit /\ w[i] = e
        BY <1>1, <1>3, <1>7, <2>1
      <3>2. x.p.st >= x.commit
        BY <3>1 DEF Ran
      <3>3. ~\E f \in i .. n + 1 : w[f].u.type = "FENCE"
        <4>1. \A f \in i .. n + 1 : f = i
          BY <2>1
        <4> QED
          BY <1>7, <4>1
      <3>4. x.p.fwd[FwdIdx(a)] = [addr |-> a, cyc |-> x.commit]
        <4>1. x.p.fwd = [p.fwd EXCEPT ![FwdIdx(a)] = [addr |-> a, cyc |-> x.commit]]
          BY <3>1 DEF Ran
        <4>2. FwdIdx(a) \in 0 .. FwdEntries - 1
          BY FwdIdxIs
        <4> QED
          BY <2>0, <4>1, <4>2
      <3> QED
        BY <3>1, <3>2, <3>3, <3>4
    <2>2. CASE i \in 1 .. n
      <3>1. o[i].u.type = "STORE" /\ w[i] = o[i] /\ o[i].commit \in Int /\ o[i].addr \in Int
        BY <1>1, <1>2, <1>7, <2>2
      <3>2. /\ p.st >= o[i].commit
            /\ (\E f \in i .. n : o[f].u.type = "FENCE") => p.sta >= o[i].commit
            /\ \/ p.fwd[FwdIdx(o[i].addr)] = [addr |-> o[i].addr, cyc |-> o[i].commit]
               \/ \E k \in i + 1 .. n : o[k].u.type = "STORE" /\ FwdIdx(o[k].addr) = FwdIdx(o[i].addr)
        BY <1>1, <2>2, <3>1 DEF Ordered
      <3>3. x.p.st >= p.st /\ x.p.sta >= p.sta /\ (u.type = "FENCE" => x.p.sta >= p.st)
        BY DEF Ran
      <3>4. x.p.st >= o[i].commit
        BY <1>4, <3>1, <3>2, <3>3
      <3>5. ASSUME NEW f \in i .. n + 1, w[f].u.type = "FENCE" PROVE x.p.sta >= o[i].commit
        <4>1. CASE f = n + 1
          <5>1. u.type = "FENCE"
            BY <1>1, <1>3, <3>5, <4>1
          <5> QED
            BY <1>4, <3>1, <3>2, <3>3, <5>1
        <4>2. CASE f \in i .. n
          <5>1. f \in 1 .. n
            BY <2>2, <4>2
          <5>2. o[f].u.type = "FENCE"
            BY <1>1, <3>5, <5>1
          <5>3. p.sta >= o[i].commit
            BY <3>2, <4>2, <5>2
          <5> QED
            BY <1>4, <3>1, <3>3, <5>3
        <4> QED
          BY <4>1, <4>2
      <3>6. \/ x.p.fwd[FwdIdx(o[i].addr)] = [addr |-> o[i].addr, cyc |-> o[i].commit]
            \/ \E k \in i + 1 .. n + 1 : w[k].u.type = "STORE" /\ FwdIdx(w[k].addr) = FwdIdx(o[i].addr)
        <4>1. CASE \E k \in i + 1 .. n : o[k].u.type = "STORE" /\ FwdIdx(o[k].addr) = FwdIdx(o[i].addr)
          <5>1. PICK k \in i + 1 .. n : o[k].u.type = "STORE" /\ FwdIdx(o[k].addr) = FwdIdx(o[i].addr)
            BY <4>1
          <5>2. k \in 1 .. n /\ k \in i + 1 .. n + 1
            BY <2>2
          <5>3. w[k] = o[k]
            BY <1>1, <5>2
          <5> QED
            BY <5>1, <5>2, <5>3
        <4>2. CASE p.fwd[FwdIdx(o[i].addr)] = [addr |-> o[i].addr, cyc |-> o[i].commit]
          <5>1. CASE u.type = "STORE" /\ FwdIdx(a) = FwdIdx(o[i].addr)
            <6>1. n + 1 \in i + 1 .. n + 1
              BY <2>2
            <6>2. w[n + 1].u.type = "STORE" /\ FwdIdx(w[n + 1].addr) = FwdIdx(o[i].addr)
              BY <1>1, <1>3, <5>1
            <6> QED
              BY <6>1, <6>2
          <5>2. CASE u.type = "STORE" /\ FwdIdx(a) # FwdIdx(o[i].addr)
            <6>1. x.p.fwd = [p.fwd EXCEPT ![FwdIdx(a)] = [addr |-> a, cyc |-> x.commit]]
              BY <5>2 DEF Ran
            <6>2. FwdIdx(o[i].addr) \in 0 .. FwdEntries - 1
              BY <3>1, FwdIdxIs
            <6> QED
              BY <2>0, <4>2, <5>2, <6>1, <6>2
          <5>3. CASE u.type # "STORE"
            <6>1. x.p.fwd = p.fwd
              BY <5>3 DEF Ran
            <6> QED
              BY <4>2, <6>1
          <5> QED
            BY <5>1, <5>2, <5>3
        <4> QED
          BY <3>2, <4>1, <4>2
      <3> QED
        BY <3>1, <3>4, <3>5, <3>6
    <2> QED
      BY <2>1, <2>2
  <1> QED
    BY <1>1, <1>5, <1>6, <1>7 DEF Ordered

\* OrderKept, of a history.
LastOrdered(o) ==
    Len(o) > 1 =>
    /\ \A r \in {o[Len(o)].u.rs[1], o[Len(o)].u.rs[2]} \ {0} :
        LET writers == {i \in 1 .. Len(o) - 1 : r \in {o[i].u.rd[1], o[i].u.rd[2]}}
        IN  writers # {} => o[Len(o)].slot[1] >= o[Max(writers)].commit
    /\ o[Len(o)].u.type \in {"LOAD", "STORE"} =>
        \A i \in 1 .. Len(o) - 1 :
            /\ o[i].u.type \in {"STORE_ADDR", "FENCE"} => o[Len(o)].at > o[i].commit
            /\ o[i].u.type = "STORE" /\ (\E f \in i .. Len(o) : o[f].u.type = "FENCE")
                => o[Len(o)].at > o[i].commit
            /\ /\ o[Len(o)].u.type = "LOAD" /\ o[i].u.type = "STORE" /\ o[i].addr = o[Len(o)].addr
               /\ ~\E k \in i + 1 .. Len(o) - 1 : o[k].u.type = "STORE" /\ FwdIdx(o[k].addr) = FwdIdx(o[i].addr)
               => o[Len(o)].commit >= o[i].commit

\* The last operation waits for the ones that it depends on.
LEMMA LastOrderedStep ==
    ASSUME NEW o, NEW w, NEW e, Extended(o, w, e), NEW p, Backend(p), Ordered(p, o), NEW x,
           NEW u \in Uops, NEW a \in Int, Ran(p, x, u, a), Entry(e, u, a, x)
    PROVE  LastOrdered(w)
  <1>1. PICK n \in Nat : n = Len(o) /\ Len(w) = n + 1 /\ w[n + 1] = e /\ \A i \in 1 .. n : w[i] = o[i]
    BY DEF Extended
  <1>2. \A i \in 1 .. n : o[i].u \in Uops /\ o[i].addr \in Int /\ o[i].commit \in Int
    BY <1>1, EventsTyped DEF Extended
  <1>3. e.u = u /\ e.addr = a /\ e.commit = x.commit /\ x.commit \in Int /\ e.at = x.at /\ x.at \in Int /\ e.slot = x.slot
    BY DEF Entry, Ran
  <1>4. p.sta \in Int
    BY DEF Backend
  <1>5. ASSUME NEW r \in {u.rs[1], u.rs[2]} \ {0}, NEW W, W = {i \in 1 .. n : r \in {w[i].u.rd[1], w[i].u.rd[2]}}, W # {}
        PROVE  x.slot[1] >= w[Max(W)].commit
    <2>1. W \in SUBSET Nat /\ W \subseteq 1 .. n /\ IsFiniteSet(W)
      <3>1. W \subseteq 1 .. n /\ IsFiniteSet(1 .. n)
        BY <1>5, FS_Interval
      <3>2. IsFiniteSet(W)
        BY <3>1, FS_Subset
      <3>3. W \in SUBSET Nat
        BY <3>1
      <3> QED
        BY <3>1, <3>2, <3>3
    <2>2. PICK m : m = Max(W)
      OBVIOUS
    <2>3. m \in W /\ \A y \in W : y <= m
      BY <1>5, <2>1, <2>2, MaxOf
    <2>4. m \in 1 .. n
      BY <2>1, <2>3
    <2>5. r \in Registers \ {0}
      BY DEF Uops
    <2>6. Writes(o[m], r)
      BY <1>1, <1>5, <2>3, <2>4 DEF Writes
    <2>7. ASSUME NEW k \in m + 1 .. n PROVE ~Writes(o[k], r)
      <3>1. k \in 1 .. n /\ ~(k <= m)
        BY <2>4
      <3>2. k \notin W
        BY <2>3, <3>1
      <3> QED
        BY <1>1, <1>5, <3>1, <3>2 DEF Writes
    <2>8. p.reg[r] = o[m].commit
      BY <1>1, <2>4, <2>5, <2>6, <2>7 DEF Ordered
    <2>9. x.slot[1] >= p.reg[r]
      BY <1>5 DEF Ran
    <2> QED
      BY <1>1, <2>2, <2>4, <2>8, <2>9
  <1>6. ASSUME u.type \in {"LOAD", "STORE"}, NEW i \in 1 .. n
        PROVE  /\ w[i].u.type \in {"STORE_ADDR", "FENCE"} => x.at > w[i].commit
               /\ w[i].u.type = "STORE" /\ (\E f \in i .. n + 1 : w[f].u.type = "FENCE") => x.at > w[i].commit
               /\ /\ u.type = "LOAD" /\ w[i].u.type = "STORE" /\ w[i].addr = a
                  /\ ~\E k \in i + 1 .. n : w[k].u.type = "STORE" /\ FwdIdx(w[k].addr) = FwdIdx(w[i].addr)
                  => x.commit >= w[i].commit
    <2>1. w[i] = o[i] /\ o[i].commit \in Int
      BY <1>1, <1>2
    <2>2. x.at > p.sta
      BY <1>6 DEF Ran
    <2>3. o[i].u.type \in {"STORE_ADDR", "FENCE"} => p.sta >= o[i].commit
      BY <1>1 DEF Ordered
    <2>4. ASSUME o[i].u.type = "STORE", NEW f \in i .. n + 1, w[f].u.type = "FENCE" PROVE p.sta >= o[i].commit
      <3>1. f # n + 1
        BY <1>1, <1>3, <1>6, <2>4
      <3>2. f \in i .. n /\ f \in 1 .. n
        BY <3>1
      <3>3. o[f].u.type = "FENCE"
        BY <1>1, <2>4, <3>2
      <3> QED
        BY <1>1, <2>4, <3>2, <3>3 DEF Ordered
    <2>5. ASSUME u.type = "LOAD", o[i].u.type = "STORE", o[i].addr = a,
                 ~\E k \in i + 1 .. n : w[k].u.type = "STORE" /\ FwdIdx(w[k].addr) = FwdIdx(o[i].addr)
          PROVE  x.commit >= o[i].commit
      <3>1. ~\E k \in i + 1 .. n : o[k].u.type = "STORE" /\ FwdIdx(o[k].addr) = FwdIdx(o[i].addr)
        <4>1. \A k \in i + 1 .. n : k \in 1 .. n
          OBVIOUS
        <4> QED
          BY <1>1, <2>5, <4>1
      <3>2. p.fwd[FwdIdx(a)] = [addr |-> a, cyc |-> o[i].commit]
        BY <1>1, <2>5, <3>1 DEF Ordered
      <3>3. p.fwd[FwdIdx(a)].addr = a /\ p.fwd[FwdIdx(a)].cyc = o[i].commit
        BY <3>2
      <3> QED
        BY <2>5, <3>3 DEF Ran
    <2> QED
      BY <1>3, <1>4, <2>1, <2>2, <2>3, <2>4, <2>5
  <1>7. Len(w) - 1 = n /\ w[Len(w)].u = u /\ w[Len(w)].slot = x.slot /\ w[Len(w)].at = x.at
        /\ w[Len(w)].commit = x.commit /\ w[Len(w)].addr = a /\ Len(w) = n + 1
    BY <1>1, <1>3
  <1> QED
    BY <1>5, <1>6, <1>7 DEF LastOrdered

\* The places in a ring move back by one when an entry is taken.
LEMMA PlaceIs ==
    ASSUME NEW size \in Nat \ {0}, NEW b, b.idx \in 0 .. size - 1, NEW d \in 1 .. size
    PROVE  /\ Place(b, size, d) \in 0 .. size - 1
           /\ d < size => Place(b, size, d) # b.idx
           /\ d = size => Place(b, size, d) = b.idx
  <1>1. PICK i \in 0 .. size - 1 : i = b.idx
    OBVIOUS
  <1>2. Place(b, size, d) = IF d <= i THEN i - d ELSE i - d + size
    BY <1>1 DEF Place
  <1> QED
    BY <1>1, <1>2

\* The d-th last entry was the one before.
LEMMA PlaceStep ==
    ASSUME NEW size \in Nat \ {0}, NEW b, b.idx \in 0 .. size - 1, NEW e,
           e.idx = IF b.idx + 1 = size THEN 0 ELSE b.idx + 1, NEW d \in 1 .. size
    PROVE  Place(e, size, d) = IF d = 1 THEN b.idx ELSE Place(b, size, d - 1)
  <1>1. PICK i \in 0 .. size - 1 : i = b.idx
    OBVIOUS
  <1>2. PICK j \in Int : j = e.idx /\ j = IF i + 1 = size THEN 0 ELSE i + 1
    BY <1>1
  <1>3. Place(e, size, d) = IF d <= j THEN j - d ELSE j - d + size
    BY <1>2 DEF Place
  <1>4. Place(b, size, d - 1) = IF d - 1 <= i THEN i - (d - 1) ELSE i - (d - 1) + size
    BY <1>1 DEF Place
  <1> QED
    BY <1>1, <1>2, <1>3, <1>4

\* Retirement is not before the cycle c, and in order.
LEMMA MarkedLater ==
    ASSUME NEW size \in Nat \ {0}, NEW b \in Buffers(size), NEW e, NEW c \in Int, Marked(b, e, c, size)
    PROVE  e.cyc \in Int /\ e.cyc >= c /\ e.cyc >= b.cyc
  <1>1. b.cyc \in Int
    BY DEF Buffers
  <1>2. e.cyc = IF c > b.cyc THEN c ELSE IF b.n = RetireWidth THEN b.cyc + 1 ELSE b.cyc
    BY DEF Marked
  <1> QED
    BY <1>1, <1>2

\* The entries that are left are the ones of the operations before.
LEMMA EntriesKept ==
    ASSUME NEW size \in Nat \ {0}, NEW b \in Buffers(size), NEW e, NEW c \in Int, Marked(b, e, c, size), NEW d \in 1 .. size
    PROVE  e.buf[Place(e, size, d)] = IF d = 1 THEN e.cyc ELSE b.buf[Place(b, size, d - 1)]
  <1>1. /\ b.idx \in 0 .. size - 1 /\ b.buf \in [0 .. size - 1 -> Int]
        /\ e.idx = IF b.idx + 1 = size THEN 0 ELSE b.idx + 1
        /\ e.buf = [b.buf EXCEPT ![b.idx] = e.cyc]
    BY DEF Marked, Buffers
  <1>2. Place(e, size, d) = IF d = 1 THEN b.idx ELSE Place(b, size, d - 1)
    BY <1>1, PlaceStep
  <1>3. CASE d = 1
    BY <1>1, <1>2, <1>3
  <1>4. CASE d # 1
    <2>1. PICK k \in 1 .. size : k = d - 1 /\ k < size
      BY <1>4
    <2>2. Place(b, size, k) \in 0 .. size - 1 /\ Place(b, size, k) # b.idx
      BY <1>1, <2>1, PlaceIs
    <2> QED
      BY <1>1, <1>2, <1>4, <2>1, <2>2
  <1> QED
    BY <1>3, <1>4

\* The reorder buffer has the retirements of the longer history.
LEMMA RetiredStep ==
    ASSUME NEW o, NEW w, NEW v, Extended(o, w, v), NEW b \in Buffers(RobSize), Retired(b, o), NEW e, NEW c \in Int,
           Marked(b, e, c, RobSize), v.ret = e.cyc
    PROVE  Retired(e, w)
  <1>1. PICK n \in Nat : n = Len(o) /\ Len(w) = n + 1 /\ w[n + 1] = v /\ \A i \in 1 .. n : w[i] = o[i]
    BY DEF Extended
  <1>2. \A i \in 1 .. n : o[i].ret \in Int
    BY <1>1, EventsTyped DEF Extended
  <1>3. RetireWidth \in Nat \ {0} /\ RobSize \in Nat \ {0}
    BY Sizes
  <1>4. b.cyc \in Int /\ b.n \in 0 .. RetireWidth
    BY DEF Buffers, Retired
  <1>5. /\ e.cyc = IF c > b.cyc THEN c ELSE IF b.n = RetireWidth THEN b.cyc + 1 ELSE b.cyc
        /\ e.n = IF c > b.cyc THEN 1 ELSE IF b.n = RetireWidth THEN 0 ELSE b.n + 1
    BY DEF Marked
  <1>6. e.n \in 0 .. RetireWidth /\ e.cyc \in Int
    BY <1>3, <1>4, <1>5
  <1>7. \A i \in 1 .. n : o[i].ret <= b.cyc /\ (i < n - b.n => o[i].ret < b.cyc)
    BY <1>1 DEF Retired
  <1>8. ASSUME NEW i \in 1 .. n + 1 PROVE w[i].ret <= e.cyc /\ (i < (n + 1) - e.n => w[i].ret < e.cyc)
    <2>1. CASE i = n + 1
      <3>1. w[i].ret = e.cyc /\ ~(i < (n + 1) - e.n)
        BY <1>1, <1>6, <2>1
      <3> QED
        BY <1>6, <3>1
    <2>2. CASE i \in 1 .. n
      <3>1. PICK k \in Int : k = o[i].ret /\ w[i].ret = k /\ k <= b.cyc /\ (i < n - b.n => k < b.cyc)
        BY <1>1, <1>2, <1>7, <2>2
      <3> QED
        BY <1>4, <1>5, <2>2, <3>1
    <2> QED
      BY <2>1, <2>2
  <1>9. ASSUME NEW d \in 1 .. RobSize, d <= n + 1 PROVE e.buf[Place(e, RobSize, d)] = w[(n + 1) - d + 1].ret
    <2>1. e.buf[Place(e, RobSize, d)] = IF d = 1 THEN e.cyc ELSE b.buf[Place(b, RobSize, d - 1)]
      BY <1>3, EntriesKept
    <2>2. CASE d = 1
      <3>1. (n + 1) - d + 1 = n + 1
        BY <2>2
      <3> QED
        BY <1>1, <2>1, <2>2, <3>1
    <2>3. CASE d # 1
      <3>1. PICK k \in 1 .. RobSize : k = d - 1 /\ k <= n
        BY <1>3, <1>9, <2>3
      <3>2. b.buf[Place(b, RobSize, k)] = o[n - k + 1].ret
        BY <1>1, <3>1 DEF Retired
      <3>3. (n + 1) - d + 1 = n - k + 1 /\ n - k + 1 \in 1 .. n
        BY <3>1
      <3> QED
        BY <1>1, <2>1, <2>3, <3>1, <3>2, <3>3
    <2> QED
      BY <2>2, <2>3
  <1>10. w[Len(w)].ret = e.cyc /\ Len(w) = n + 1
    BY <1>1
  <1> QED
    BY <1>6, <1>8, <1>9, <1>10 DEF Retired

\* How many operations of a type there are.
LEMMA OfTypeIs ==
    ASSUME NEW o \in Seq(Events), NEW type, NEW i \in 1 .. Len(o)
    PROVE  /\ IsFiniteSet(OfType(o, type, i)) /\ Cardinality(OfType(o, type, i)) \in Nat
           /\ o[i].u.type = type => Cardinality(OfType(o, type, i)) > 0
  <1>1. Len(o) \in Nat
    OBVIOUS
  <1>2. OfType(o, type, i) \subseteq i .. Len(o) /\ IsFiniteSet(i .. Len(o))
    BY <1>1, FS_Interval DEF OfType
  <1>3. IsFiniteSet(OfType(o, type, i))
    BY <1>2, FS_Subset
  <1>4. Cardinality(OfType(o, type, i)) \in Nat
    BY <1>3, FS_CardinalityType
  <1>5. ASSUME o[i].u.type = type PROVE Cardinality(OfType(o, type, i)) > 0
    <2>1. i \in OfType(o, type, i)
      BY <1>1, <1>5 DEF OfType
    <2>2. Cardinality(OfType(o, type, i)) # 0
      BY <1>3, <2>1, FS_EmptySet
    <2> QED
      BY <1>4, <2>2
  <1> QED
    BY <1>3, <1>4, <1>5

\* The load and the store queue have the commits of the longer history.
LEMMA QueuedStep ==
    ASSUME NEW o, NEW w, NEW v, Extended(o, w, v), NEW size \in Nat \ {0}, NEW b \in Buffers(size), NEW type,
           Queued(b, size, o, type), NEW e, v.commit \in Int,
           IF v.u.type = type THEN Marked(b, e, v.commit, size) ELSE e = b
    PROVE  Queued(e, size, w, type)
  <1>1. PICK n \in Nat : n = Len(o) /\ Len(w) = n + 1 /\ w[n + 1] = v /\ \A i \in 1 .. n : w[i] = o[i]
    BY DEF Extended
  <1>2. o \in Seq(Events)
    BY DEF Extended
  <1>3. ASSUME NEW i \in 1 .. n PROVE OfType(w, type, i) = IF v.u.type = type THEN OfType(o, type, i) \cup {n + 1}
                                                          ELSE OfType(o, type, i)
    <2>1. i .. n + 1 = (i .. n) \cup {n + 1} /\ (\A k \in i .. n : k \in 1 .. n)
      OBVIOUS
    <2>2. OfType(w, type, i) = {k \in i .. n + 1 : w[k].u.type = type} /\ OfType(o, type, i) = {k \in i .. n : o[k].u.type = type}
      BY <1>1 DEF OfType
    <2> QED
      BY <1>1, <2>1, <2>2
  <1>4. ASSUME NEW i \in 1 .. n + 1, w[i].u.type = type, Cardinality(OfType(w, type, i)) <= size
        PROVE  e.buf[Place(e, size, Cardinality(OfType(w, type, i)))] >= w[i].commit
    <2>1. CASE i = n + 1
      <3>1. v.u.type = type /\ w[i] = v
        BY <1>1, <1>4, <2>1
      <3>2. OfType(w, type, i) = {n + 1}
        <4>1. i .. n + 1 = {n + 1}
          BY <2>1
        <4> QED
          BY <1>1, <1>4, <2>1, <4>1 DEF OfType
      <3>3. Cardinality(OfType(w, type, i)) = 1
        BY <3>2, FS_Singleton
      <3>4. 1 \in 1 .. size
        OBVIOUS
      <3>5. Marked(b, e, v.commit, size)
        BY <3>1
      <3>6. e.buf[Place(e, size, 1)] = e.cyc
        BY <3>4, <3>5, EntriesKept
      <3>7. e.cyc >= v.commit
        BY <3>5, MarkedLater
      <3> QED
        BY <3>1, <3>3, <3>6, <3>7
    <2>2. CASE i \in 1 .. n
      <3>0. w[i] = o[i] /\ o[i].u.type = type
        BY <1>1, <1>4, <2>2
      <3>1. PICK m \in Nat : m = Cardinality(OfType(o, type, i)) /\ m > 0
        BY <1>1, <1>2, <2>2, <3>0, OfTypeIs
      <3>2. m <= size => b.buf[Place(b, size, m)] >= o[i].commit
        BY <1>1, <2>2, <3>0, <3>1 DEF Queued
      <3>3. CASE v.u.type = type
        <4>1. Cardinality(OfType(w, type, i)) = m + 1
          <5>1. n + 1 \notin OfType(o, type, i)
            BY <1>1 DEF OfType
          <5>2. IsFiniteSet(OfType(o, type, i))
            BY <1>1, <1>2, <2>2, OfTypeIs
          <5>3. OfType(w, type, i) = OfType(o, type, i) \cup {n + 1}
            BY <1>3, <2>2, <3>3
          <5> QED
            BY <3>1, <5>1, <5>2, <5>3, FS_AddElement
        <4>2. m + 1 \in 1 .. size /\ m + 1 # 1 /\ (m + 1) - 1 = m /\ m <= size
          BY <1>4, <3>1, <4>1
        <4>3. Marked(b, e, v.commit, size)
          BY <3>3
        <4>4. e.buf[Place(e, size, m + 1)] = b.buf[Place(b, size, m)]
          BY <4>2, <4>3, EntriesKept
        <4> QED
          BY <3>0, <3>2, <4>1, <4>2, <4>4
      <3>4. CASE v.u.type # type
        <4>1. OfType(w, type, i) = OfType(o, type, i) /\ e = b
          BY <1>3, <2>2, <3>4
        <4> QED
          BY <1>4, <3>0, <3>1, <3>2, <4>1
      <3> QED
        BY <3>3, <3>4
    <2> QED
      BY <2>1, <2>2
  <1>5. Len(w) = n + 1
    BY <1>1
  <1> QED
    BY <1>4, <1>5 DEF Queued

\* All the buffers.
LEMMA BufferedStep ==
    ASSUME NEW o, NEW w, NEW e, Extended(o, w, e), NEW p, Backend(p), Buffered(p, o), NEW x,
           NEW u, NEW a, Ran(p, x, u, a), Entry(e, u, a, x)
    PROVE  Buffered(x.p, w)
  <1>1. x.commit \in Int /\ e.commit = x.commit /\ e.u = u /\ e.ret = x.p.rob.cyc
    BY DEF Entry, Ran
  <1>2. PICK c \in Int : c = x.commit
    BY <1>1
  <1>3. Retired(x.p.rob, w)
    <2>1. p.rob \in Buffers(RobSize) /\ Retired(p.rob, o) /\ Marked(p.rob, x.p.rob, c, RobSize) /\ e.ret = x.p.rob.cyc
      BY <1>1, <1>2 DEF Backend, Buffered, Ran
    <2> QED
      BY <2>1, RetiredStep
  <1>4. Queued(x.p.lq, LoadQueueSize, w, "LOAD")
    <2>1. LoadQueueSize \in Nat \ {0} /\ p.lq \in Buffers(LoadQueueSize) /\ Queued(p.lq, LoadQueueSize, o, "LOAD")
      BY Sizes DEF Backend, Buffered
    <2>2. e.commit \in Int /\ IF e.u.type = "LOAD" THEN Marked(p.lq, x.p.lq, e.commit, LoadQueueSize) ELSE x.p.lq = p.lq
      BY <1>1 DEF Ran
    <2> QED
      BY <2>1, <2>2, QueuedStep
  <1>5. Queued(x.p.sq, StoreQueueSize, w, "STORE")
    <2>1. StoreQueueSize \in Nat \ {0} /\ p.sq \in Buffers(StoreQueueSize) /\ Queued(p.sq, StoreQueueSize, o, "STORE")
      BY Sizes DEF Backend, Buffered
    <2>2. e.commit \in Int /\ IF e.u.type = "STORE" THEN Marked(p.sq, x.p.sq, e.commit, StoreQueueSize) ELSE x.p.sq = p.sq
      BY <1>1 DEF Ran
    <2> QED
      BY <2>1, <2>2, QueuedStep
  <1> QED
    BY <1>3, <1>4, <1>5 DEF Buffered

\* BuffersBounded, of a history.
LastWaits(o, type, size) ==
    o[Len(o)].u.type = type =>
        \A i \in 1 .. Len(o) - 1 :
            o[i].u.type = type /\ Cardinality({k \in i .. Len(o) - 1 : o[k].u.type = type}) = size
                => o[Len(o)].at >= o[i].commit

LastBounded(o) ==
    Len(o) > 1 =>
    /\ o[Len(o)].ret >= o[Len(o)].commit
    /\ o[Len(o)].ret >= o[Len(o) - 1].ret
    /\ Len(o) > RetireWidth + 1 => o[Len(o)].ret > o[Len(o) - RetireWidth - 1].ret
    /\ Len(o) > RobSize => o[Len(o)].slot[1] >= o[Len(o) - RobSize].ret + IssueToDispatch
    /\ LastWaits(o, "LOAD", LoadQueueSize) /\ LastWaits(o, "STORE", StoreQueueSize)

\* The last operation waits for the entry that it takes in a queue.
LEMMA LastWaitsStep ==
    ASSUME NEW o, NEW w, NEW v, Extended(o, w, v), NEW size \in Nat \ {0}, NEW b \in Buffers(size), NEW type,
           Queued(b, size, o, type), v.at \in Int, v.u.type = type => v.at >= b.buf[b.idx]
    PROVE  LastWaits(w, type, size)
  <1>1. PICK n \in Nat : n = Len(o) /\ Len(w) = n + 1 /\ w[n + 1] = v /\ \A i \in 1 .. n : w[i] = o[i]
    BY DEF Extended
  <1>2. \A i \in 1 .. n : o[i].commit \in Int
    BY <1>1, EventsTyped DEF Extended
  <1>3. ASSUME v.u.type = type, NEW i \in 1 .. n, w[i].u.type = type, Cardinality({k \in i .. n : w[k].u.type = type}) = size
        PROVE  v.at >= w[i].commit
    <2>1. {k \in i .. n : w[k].u.type = type} = OfType(o, type, i)
      <3>1. \A k \in i .. n : k \in 1 .. n
        OBVIOUS
      <3> QED
        BY <1>1, <3>1 DEF OfType
    <2>2. Cardinality(OfType(o, type, i)) = size /\ o[i].u.type = type /\ w[i] = o[i]
      BY <1>1, <1>3, <2>1
    <2>3. size <= size /\ size \in 1 .. size
      OBVIOUS
    <2>4. b.buf[Place(b, size, size)] >= o[i].commit
      BY <1>1, <2>2, <2>3 DEF Queued
    <2>5. b.idx \in 0 .. size - 1 /\ b.buf \in [0 .. size - 1 -> Int]
      BY DEF Buffers
    <2>6. Place(b, size, size) = b.idx
      BY <2>3, <2>5, PlaceIs
    <2>7. PICK m \in Int : m = b.buf[b.idx]
      BY <2>5
    <2> QED
      BY <1>2, <1>3, <2>2, <2>4, <2>6, <2>7
  <1>4. Len(w) - 1 = n /\ w[Len(w)] = v
    BY <1>1
  <1> QED
    BY <1>3, <1>4 DEF LastWaits

\* The last operation keeps to the buffers.
LEMMA LastBoundedStep ==
    ASSUME NEW o, NEW w, NEW e, Extended(o, w, e), NEW p, Backend(p), Buffered(p, o), NEW x,
           NEW u, NEW a, Ran(p, x, u, a), Entry(e, u, a, x), Buffered(x.p, w)
    PROVE  LastBounded(w)
  <1>1. PICK n \in Nat : n = Len(o) /\ Len(w) = n + 1 /\ w[n + 1] = e /\ \A i \in 1 .. n : w[i] = o[i]
    BY DEF Extended
  <1>2. \A i \in 1 .. n : o[i].ret \in Int
    BY <1>1, EventsTyped DEF Extended
  <1>3. /\ e.at = x.at /\ x.at \in Int /\ e.slot = x.slot /\ e.commit = x.commit /\ x.commit \in Int
        /\ e.u = u /\ e.ret = x.p.rob.cyc /\ x.slot[1] \in Int
    BY DEF Entry, Ran
  <1>4. RetireWidth \in Nat \ {0} /\ RobSize \in Nat \ {0} /\ IssueToDispatch \in Nat
    BY Sizes
  <1>5. p.rob \in Buffers(RobSize)
    BY DEF Backend
  <1>6. e.ret \in Int /\ e.ret >= e.commit
    <2>1. Marked(p.rob, x.p.rob, x.commit, RobSize)
      BY DEF Ran
    <2> QED
      BY <1>3, <1>4, <1>5, <2>1, MarkedLater
  <1>7. /\ x.p.rob.n \in 0 .. RetireWidth
        /\ \A i \in 1 .. n + 1 : w[i].ret <= e.ret /\ (i < (n + 1) - x.p.rob.n => w[i].ret < e.ret)
    <2>1. Retired(x.p.rob, w)
      BY DEF Buffered
    <2> QED
      BY <1>1, <1>3, <2>1 DEF Retired
  <1>8. n > 0 => e.ret >= w[n].ret
    <2>1. n > 0 => n \in 1 .. n + 1 /\ n \in 1 .. n
      OBVIOUS
    <2> QED
      BY <1>1, <1>2, <1>6, <1>7, <2>1
  <1>9. n + 1 > RetireWidth + 1 => e.ret > w[(n + 1) - RetireWidth - 1].ret
    <2>1. ASSUME n + 1 > RetireWidth + 1 PROVE e.ret > w[(n + 1) - RetireWidth - 1].ret
      <3>1. PICK k \in 1 .. n : k = (n + 1) - RetireWidth - 1 /\ k < (n + 1) - x.p.rob.n /\ k \in 1 .. n + 1
        BY <1>4, <1>7, <2>1
      <3>2. w[k].ret < e.ret /\ w[k].ret \in Int
        BY <1>1, <1>2, <1>7, <3>1
      <3> QED
        BY <1>6, <3>1, <3>2
    <2> QED
      BY <2>1
  <1>10. n + 1 > RobSize => e.slot[1] >= w[(n + 1) - RobSize].ret + IssueToDispatch
    <2>1. ASSUME n + 1 > RobSize PROVE e.slot[1] >= w[(n + 1) - RobSize].ret + IssueToDispatch
      <3>1. PICK k \in 1 .. n : k = (n + 1) - RobSize /\ k = n - RobSize + 1 /\ RobSize \in 1 .. RobSize /\ RobSize <= n
        BY <1>4, <2>1
      <3>2. p.rob.buf[Place(p.rob, RobSize, RobSize)] = o[k].ret
        BY <1>1, <3>1 DEF Buffered, Retired
      <3>3. p.rob.idx \in 0 .. RobSize - 1
        BY <1>5 DEF Buffers
      <3>4. Place(p.rob, RobSize, RobSize) = p.rob.idx
        BY <1>4, <3>1, <3>3, PlaceIs
      <3>5. x.slot[1] >= p.rob.buf[p.rob.idx] + IssueToDispatch
        BY DEF Ran
      <3> QED
        BY <1>1, <1>3, <3>1, <3>2, <3>4, <3>5
    <2> QED
      BY <2>1
  <1>11. LastWaits(w, "LOAD", LoadQueueSize)
    <2>1. LoadQueueSize \in Nat \ {0} /\ p.lq \in Buffers(LoadQueueSize) /\ Queued(p.lq, LoadQueueSize, o, "LOAD")
      BY Sizes DEF Backend, Buffered
    <2>2. e.at \in Int /\ (e.u.type = "LOAD" => e.at >= p.lq.buf[p.lq.idx])
      BY <1>3 DEF Ran
    <2> QED
      BY <2>1, <2>2, LastWaitsStep
  <1>12. LastWaits(w, "STORE", StoreQueueSize)
    <2>1. StoreQueueSize \in Nat \ {0} /\ p.sq \in Buffers(StoreQueueSize) /\ Queued(p.sq, StoreQueueSize, o, "STORE")
      BY Sizes DEF Backend, Buffered
    <2>2. e.at \in Int /\ (e.u.type = "STORE" => e.at >= p.sq.buf[p.sq.idx])
      BY <1>3 DEF Ran
    <2> QED
      BY <2>1, <2>2, LastWaitsStep
  <1>13. Len(w) = n + 1 /\ w[Len(w)] = e /\ Len(w) - 1 = n /\ (Len(w) > 1 => n > 0)
    BY <1>1
  <1> QED
    BY <1>6, <1>8, <1>9, <1>10, <1>11, <1>12, <1>13 DEF LastBounded

-----------------------------------------------------------------------------
(* Steps of a core *)

\* The slots of a history.
LEMMA SlotsTaken ==
    ASSUME NEW o \in Seq(Events)
    PROVE  Taken(SlotsOf(o))
  <1>1. DOMAIN SlotsOf(o) = 1 .. Len(o) /\ Len(o) \in Nat
    BY DEF SlotsOf
  <1>2. IsFiniteSet(DOMAIN SlotsOf(o))
    BY <1>1, FS_Interval
  <1>3. ASSUME NEW i \in 1 .. Len(o) PROVE SlotsOf(o)[i][1] \in Nat
    <2>1. o[i] \in Events
      OBVIOUS
    <2>2. o[i].slot \in Nat \X Nat
      BY <2>1 DEF Events
    <2>3. SlotsOf(o)[i] = o[i].slot
      BY DEF SlotsOf
    <2> QED
      BY <2>2, <2>3
  <1> QED
    BY <1>1, <1>2, <1>3 DEF Taken

\* One more operation has one more slot.
LEMMA SlotsAppend ==
    ASSUME NEW o, NEW w, NEW e, Extended(o, w, e)
    PROVE  AndOne(SlotsOf(o), SlotsOf(w), Len(o) + 1, e.slot)
  <1>1. PICK n \in Nat : n = Len(o) /\ Len(w) = n + 1 /\ w[n + 1] = e /\ \A i \in 1 .. n : w[i] = o[i]
    BY DEF Extended
  <1>2. DOMAIN o = 1 .. n /\ DOMAIN w = 1 .. n + 1
    BY <1>1 DEF Extended
  <1>3. n + 1 \notin 1 .. n /\ 1 .. n + 1 = (1 .. n) \cup {n + 1} /\ n + 1 \in 1 .. n + 1
    OBVIOUS
  <1> QED
    BY <1>1, <1>2, <1>3 DEF AndOne, SlotsOf

\* What the history says of a pipeline.
Kept(p, q) ==
    /\ q.rob = p.rob /\ q.lq = p.lq /\ q.sq = p.sq /\ q.fwd = p.fwd /\ q.st = p.st /\ q.sta = p.sta
    /\ \A r \in Registers \ {0} : q.reg[r] = p.reg[r]

\* That is enough for the order of operations and for the buffers.
LEMMA KeptHolds ==
    ASSUME NEW p, NEW q, Kept(p, q), NEW o
    PROVE  (Ordered(p, o) => Ordered(q, o)) /\ (Buffered(p, o) => Buffered(q, o))
  <1>1. Ordered(p, o) => Ordered(q, o)
    BY DEF Ordered, Kept
  <1>2. Buffered(p, o) => Buffered(q, o)
    BY DEF Buffered, Kept
  <1> QED
    BY <1>1, <1>2

\* A pipeline q after p, with the history that has the slots s.
Follows(p, q, s) == Fit(q, s) /\ Kept(p, q) /\ (setup.kind # "OOO" /\ Unused(p) => Unused(q))

\* One that differs in the rest only.
LEMMA StillFollows ==
    ASSUME NEW p, NEW s, Fit(p, s), NEW q, Still(p, q), Backend(q), Kept(p, q)
    PROVE  Follows(p, q, s)
  <1>1. Fit(q, s)
    BY StillScheduled DEF Fit
  <1>2. Unused(p) => Unused(q)
    BY DEF Unused, Still
  <1> QED
    BY <1>1, <1>2 DEF Follows

\* A pipeline follows itself, ...
LEMMA FollowsSelf ==
    ASSUME NEW p, NEW s, Fit(p, s)
    PROVE  Follows(p, p, s)
  BY DEF Follows, Kept

\* ... and the ones that follow it.
LEMMA FollowsChain ==
    ASSUME NEW p, NEW q, NEW r, NEW s, Follows(p, q, s), Follows(q, r, s)
    PROVE  Follows(p, r, s)
  BY DEF Follows, Kept

\* The core d has the fields of c except its pipeline.
SameCore(c, d) ==
    /\ d = [f \in CoreFields |-> d[f]]
    /\ d.phaseEnd = c.phaseEnd /\ d.prev = c.prev /\ d.loads = c.loads /\ d.stores = c.stores /\ d.branch = c.branch
    /\ d.rec = c.rec

\* What an assertion says is only written down.
LEMMA ExpectIs ==
    ASSUME NEW c, c = [f \in CoreFields |-> c[f]], NEW s, Fit(c.p, s), NEW b, NEW d, d = Expect(c, b)
    PROVE  SameCore(c, d) /\ Follows(c.p, d.p, s) /\ d.p.cur = c.p.cur
  <1>1. PICK p : p = c.p
    OBVIOUS
  <1>2. p = [f \in PipeFields |-> p[f]] /\ Backend(p)
    BY <1>1 DEF Fit, Window, Moving
  <1>3. d = [c EXCEPT !.p = [p EXCEPT !.ok = @ /\ b]]
    BY <1>1, <1>2 DEF Expect, CoreFields, PipeFields
  <1>4. SameCore(c, d) /\ d.p = [p EXCEPT !.ok = @ /\ b]
    BY <1>3 DEF SameCore, CoreFields
  <1>5. PICK q : q = d.p
    OBVIOUS
  <1>6. /\ Still(p, q) /\ q.dec = p.dec /\ q.rob = p.rob /\ q.lq = p.lq /\ q.sq = p.sq /\ q.uq = p.uq /\ q.reg = p.reg
        /\ q.fwd = p.fwd /\ q.st = p.st /\ q.sta = p.sta /\ q.rf = p.rf /\ q.iss = p.iss
    BY <1>2, <1>4, <1>5 DEF Still, PipeFields
  <1>7. Backend(q) /\ Kept(p, q)
    BY <1>2, <1>6 DEF Backend, Kept
  <1> QED
    BY <1>1, <1>4, <1>5, <1>6, <1>7, StillFollows DEF Still

\* The clock of an unused pipeline may be set to anything.
LEMMA ClockFollows ==
    ASSUME NEW p, NEW s, Fit(p, s), Unused(p), s = <<>>, NEW c \in Nat, NEW q, q = [p EXCEPT !.cur = c]
    PROVE  Follows(p, q, s) /\ q.cur = c
  <1>1. p = [f \in PipeFields |-> p[f]] /\ Window(p) /\ Backend(p)
    BY DEF Fit, Window, Moving
  <1>2. /\ q = [f \in PipeFields |-> q[f]] /\ q.cur = c
        /\ q.pos = p.pos /\ q.occ = p.occ /\ q.cw = p.cw /\ q.nw = p.nw /\ q.ub = p.ub
        /\ q.dec = p.dec /\ q.rob = p.rob /\ q.lq = p.lq /\ q.sq = p.sq /\ q.uq = p.uq /\ q.reg = p.reg
        /\ q.fwd = p.fwd /\ q.st = p.st /\ q.sta = p.sta /\ q.rf = p.rf /\ q.iss = p.iss
    BY <1>1 DEF PipeFields
  <1>3. Unused(q) /\ Kept(p, q) /\ Backend(q)
    BY <1>1, <1>2 DEF Unused, Kept, Backend
  <1>4. Window(q)
    BY <1>1, <1>2 DEF Window, Moving
  <1>5. ASSUME NEW d \in Nat, d >= q.cur PROVE SlotAt(q, d) = Idle
    <2>1. PICK k \in Nat : k = d - q.cur + q.pos
      BY <1>2, <1>3, <1>5 DEF Unused
    <2>2. k < H => k \in 0 .. H - 1
      BY HAssumption
    <2>3. ~(k < H) /\ k < 2 * H => k - H \in 0 .. H - 1
      BY HAssumption
    <2>4. d \notin DOMAIN q.ub
      BY <1>3 DEF Unused
    <2>5. \A i \in 0 .. H - 1 : q.cw[i] = Idle /\ q.nw[i] = Idle
      BY <1>3 DEF Unused
    <2> QED
      BY <2>1, <2>2, <2>3, <2>4, <2>5 DEF SlotAt
  <1>6. \A d \in Nat : At(s, d) = {} /\ From(s, d) = {}
    BY DEF At, From
  <1>7. Cardinality({}) = 0
    BY FS_EmptySet
  <1>8. Scheduled(q, s)
    BY <1>2, <1>3, <1>5, <1>6, <1>7, IdleSlot DEF Scheduled, Unused
  <1> QED
    BY <1>2, <1>3, <1>4, <1>8 DEF Follows, Fit

\* Fetching lines takes time.
LEMMA FetchesNatural ==
    ASSUME setup \in Setups, NEW b, Bytes(b) \in Nat
    PROVE  Fetches(b) \subseteq Nat
  <1>1. PICK L \in Nat \ {0} : L = LineSize
    BY CoreAssumption
  <1>2. PICK n \in Nat : n = Bytes(b)
    OBVIOUS
  <1>3. PICK k \in Int : k = (Bytes(b) + LineSize - 1) \div LineSize
    <2>1. n + L - 1 \in Nat
      BY <1>1
    <2>2. (n + L - 1) \div L \in Int
      BY <1>1, <2>1
    <2> QED
      BY <1>1, <1>2, <2>2
  <1>4. setup.fetches \subseteq Nat
    BY SetupsSupported
  <1>5. IsFiniteSet(1 .. k)
    BY FS_Interval
  <1>6. ASSUME NEW f \in [1 .. k -> setup.fetches] PROVE SumFunction(f) \in Nat
    <2>1. f \in [1 .. k -> Nat]
      BY <1>4
    <2> QED
      BY <1>5, <2>1, SumOfNaturals
  <1> QED
    BY <1>3, <1>6 DEF Fetches

\* An empty window may jump.
LEMMA JumpScheduled ==
    ASSUME NEW q, Window(q), NEW s, Taken(s), Scheduled(q, s), q.occ = 0, NEW c \in Nat, c >= q.cur,
           NEW r, r.cur = c, r.pos = q.pos, r.occ = q.occ, r.cw = q.cw, r.nw = q.nw, r.ub = q.ub
    PROVE  Scheduled(r, s)
  <1>1. q.cur \in Nat /\ q.pos \in 0 .. H /\ q.occ = Cardinality(From(s, q.cur))
    BY DEF Window, Moving, Scheduled
  <1>2. From(s, q.cur) = {}
    <2>1. IsFiniteSet(From(s, q.cur))
      <3>1. From(s, q.cur) \subseteq DOMAIN s /\ IsFiniteSet(DOMAIN s)
        BY DEF From, Taken
      <3> QED
        BY <3>1, FS_Subset
    <2> QED
      BY <1>1, <2>1, FS_EmptySet
  <1>3. \A i \in DOMAIN s : s[i][1] \in Nat /\ ~(s[i][1] >= q.cur)
    BY <1>2 DEF From, Taken
  <1>4. \A d \in Nat : d >= q.cur => At(s, d) = {} /\ From(s, d) = {}
    BY <1>1, <1>3 DEF At, From
  <1>5. \A d \in Nat : d >= q.cur => SlotAt(q, d).n = 0
    BY <1>4, FS_EmptySet DEF Scheduled
  <1>6. ASSUME NEW d \in Nat, d >= c PROVE SlotAt(r, d).n = 0
    <2>0. PICK h \in Nat : h = H /\ h # 0
      BY HAssumption
    <2>1. PICK o \in Nat : o = d - c + q.pos /\ d - r.cur + r.pos = o
      BY <1>1, <1>6
    <2>2. PICK e \in Nat : e = d - c + q.cur /\ e >= q.cur /\ e - q.cur + q.pos = o
      BY <1>1, <1>6, <2>1
    <2>3. CASE o < 2 * H
      <3>1. SlotAt(r, d) = SlotAt(q, e)
        BY <2>1, <2>2, <2>3 DEF SlotAt
      <3> QED
        BY <1>5, <2>2, <3>1
    <2>4. CASE ~(o < 2 * H)
      <3>1. PICK k \in Nat : k = d - q.cur + q.pos /\ k >= o
        BY <1>1, <1>6, <2>1
      <3>2. ~(k < 2 * H) /\ ~(k < H) /\ ~(o < H)
        BY <2>0, <2>4, <3>1
      <3>3. SlotAt(r, d) = SlotAt(q, d)
        BY <2>1, <2>4, <3>1, <3>2 DEF SlotAt
      <3>4. d >= q.cur
        BY <1>1, <1>6
      <3> QED
        BY <1>5, <3>3, <3>4
    <2> QED
      BY <2>3, <2>4
  <1>7. \A d \in Nat : d >= c => d >= q.cur
    BY <1>1
  <1> QED
    BY <1>4, <1>6, <1>7, FS_EmptySet DEF Scheduled

\* longAdvance() leaves a window that is exact.
LEMMA LongAdvanceIs ==
    ASSUME NEW p, NEW s, Taken(s), Fit(p, s), NEW target \in Nat, target >= p.cur, NEW r, r = LongAdvance(p, target)
    PROVE  Fit(r, s) /\ Kept(p, r) /\ r.cur = target
  <1>1. Window(p) /\ Backend(p) /\ Scheduled(p, s) /\ p.cur \in Nat
    BY DEF Fit, Window, Moving
  <1>2. PICK n \in Nat : n = target - p.cur
    BY <1>1
  <1>3. PICK occs : occs = Int \ {0}
    OBVIOUS
  <1>4. PICK q : q = AdvanceWhile(p, n, occs)
    OBVIOUS
  <1>5. /\ Window(q) /\ Scheduled(q, s) /\ Apart(p, q) /\ p.cur <= q.cur /\ q.cur <= p.cur + n
        /\ q.occ \notin occs \/ q.cur = p.cur + n
    BY <1>1, <1>4, WhileScheduled
  <1>6. q.cur \in Nat /\ q.occ \in Int /\ q = [f \in PipeFields |-> q[f]]
    BY <1>5 DEF Window, Moving
  <1>7. r = [q EXCEPT !.cur = target, !.ok = @ /\ (q.occ > 0 => q.cur = target)]
    BY <1>2, <1>3, <1>4 DEF LongAdvance
  <1>8. /\ r = [f \in PipeFields |-> r[f]] /\ r.cur = target
        /\ r.pos = q.pos /\ r.occ = q.occ /\ r.cw = q.cw /\ r.nw = q.nw /\ r.ub = q.ub /\ Apart(q, r)
    BY <1>6, <1>7, ZenonT(60) DEF PipeFields, Apart
  <1>9. Window(r)
    BY <1>5, <1>8 DEF Window, Moving
  <1>10. q.cur <= target /\ (q.occ = 0 \/ q.cur = target)
    BY <1>1, <1>2, <1>3, <1>5, <1>6
  <1>11. Scheduled(r, s)
    <2>1. CASE q.occ = 0
      <3>1. target >= q.cur
        BY <1>6, <1>10
      <3> QED
        BY <1>5, <1>8, <2>1, <3>1, JumpScheduled
    <2>2. CASE q.cur = target
      <3>1. Still(q, r)
        BY <1>8, <2>2 DEF Still
      <3> QED
        BY <1>5, <3>1, StillScheduled
    <2> QED
      BY <1>10, <2>1, <2>2
  <1>12. Apart(p, r)
    BY <1>5, <1>8 DEF Apart
  <1>13. Backend(r) /\ Kept(p, r)
    BY <1>1, <1>12 DEF Backend, Apart, Kept
  <1> QED
    BY <1>8, <1>9, <1>11, <1>13 DEF Fit

\* An unused pipeline has no history.
Plain(p, s) == setup.kind # "OOO" => Unused(p) /\ s = <<>>

\* advance() of any core, to a cycle.
LEMMA AdvanceFollows ==
    ASSUME NEW p, NEW s, Taken(s), Fit(p, s), Plain(p, s), NEW target \in Nat, NEW r, r = Advance(p, target)
    PROVE  Follows(p, r, s) /\ r.cur \in Nat /\ r.cur >= target /\ (target >= p.cur => r.cur = target)
  <1>0. p.cur \in Nat /\ p.dec \in Int /\ p = [f \in PipeFields |-> p[f]]
    BY DEF Fit, Window, Moving, Backend
  <1>1. CASE setup.kind # "OOO"
    <2>1. r = [p EXCEPT !.cur = target]
      BY <1>1 DEF Advance
    <2>2. Follows(p, r, s) /\ r.cur = target
      BY <1>1, <2>1, ClockFollows DEF Plain
    <2> QED
      BY <2>2
  <1>2. CASE setup.kind = "OOO" /\ target <= p.cur
    <2>1. r = p
      BY <1>2 DEF Advance
    <2> QED
      BY <1>0, <1>2, <2>1, FollowsSelf
  <1>3. CASE setup.kind = "OOO" /\ ~(target <= p.cur)
    <2>1. PICK q : q = NewCycle(p)
      OBVIOUS
    <2>2. Fit(q, s) /\ Onward(p, q) /\ q.cur = p.cur /\ q.uq = p.uq /\ q.dec = p.dec
      BY <2>1, NewCycleFit
    <2>3. PICK d \in Int : d = q.dec + target - p.cur
      BY <1>0, <2>2
    <2>4. PICK e : e = [q EXCEPT !.dec = d]
      OBVIOUS
    <2>5. r = LongAdvance(e, target)
      <3>1. q = [f \in PipeFields |-> q[f]]
        BY <2>2 DEF Fit, Window, Moving
      <3>2. [NewCycle(p) EXCEPT !.dec = @ + target - p.cur] = e
        BY <2>1, <2>3, <2>4, <3>1 DEF PipeFields
      <3> QED
        BY <1>3, <3>2 DEF Advance
    <2>6. Fit(e, s) /\ Kept(p, e) /\ e.cur = p.cur
      <3>1. q = [f \in PipeFields |-> q[f]] /\ Window(q) /\ Backend(q) /\ Scheduled(q, s)
        BY <2>2 DEF Fit, Window, Moving
      <3>2. /\ Still(q, e) /\ e.dec = d /\ e.rob = q.rob /\ e.lq = q.lq /\ e.sq = q.sq /\ e.uq = q.uq /\ e.reg = q.reg
            /\ e.fwd = q.fwd /\ e.st = q.st /\ e.sta = q.sta /\ e.rf = q.rf /\ e.iss = q.iss
        BY <2>4, <3>1 DEF Still, PipeFields
      <3>3. Backend(e)
        BY <3>1, <3>2 DEF Backend
      <3>4. Kept(p, e) /\ e.cur = p.cur
        BY <2>2, <3>2 DEF Kept, Onward, Still
      <3> QED
        BY <3>1, <3>2, <3>3, <3>4, StillScheduled DEF Fit
    <2>7. target >= e.cur
      BY <1>0, <1>3, <2>6
    <2>8. Fit(r, s) /\ Kept(e, r) /\ r.cur = target
      BY <2>5, <2>6, <2>7, LongAdvanceIs
    <2>9. Follows(p, r, s)
      BY <1>3, <2>6, <2>8 DEF Follows, Kept
    <2> QED
      BY <2>8, <2>9
  <1> QED
    BY <1>1, <1>2, <1>3

\* What the invariant gives the steps.
LEMMA InvFacts ==
    ASSUME IInv
    PROVE  /\ Fit(core.p, SlotsOf(ops)) /\ Taken(SlotsOf(ops)) /\ Plain(core.p, SlotsOf(ops))
           /\ core.p.cur \in Nat /\ glob \in Nat /\ setup \in Setups /\ setup.length \in Nat \ {0}
           /\ CoreOf(core, setup.bbls) /\ WorkOf(work) /\ Recording /\ CoreInPhase
  <1>1. Fit(core.p, SlotsOf(ops)) /\ CoreTypes /\ Recording /\ CoreInPhase
    BY DEF IInv, Fit
  <1>2. ops \in Seq(Events) /\ glob \in Nat /\ setup \in Setups /\ CoreOf(core, setup.bbls) /\ WorkOf(work)
    BY <1>1 DEF CoreTypes
  <1>3. Taken(SlotsOf(ops))
    BY <1>2, SlotsTaken
  <1>4. Plain(core.p, SlotsOf(ops))
    <2>1. ASSUME ops = <<>> PROVE SlotsOf(ops) = <<>>
      BY <2>1 DEF SlotsOf
    <2> QED
      BY <2>1 DEF IInv, Plain
  <1>5. core.p.cur \in Nat
    BY <1>1 DEF Fit, Window, Moving
  <1>6. setup.length \in Nat \ {0}
    BY <1>2, CoreAssumption
  <1> QED
    BY <1>1, <1>2, <1>3, <1>4, <1>5, <1>6

\* A step that runs no operation keeps the invariant if it keeps these.
LEMMA QuietStep ==
    ASSUME IInv, setup' = setup, ops' = ops, CoreOf(core', setup.bbls), WorkOf(work'),
           st' = "uops" => work'.next \in setup.bbls /\ setup.kind = "OOO", glob' \in Nat,
           Follows(core.p, core'.p, SlotsOf(ops)), Recording', CoreInPhase'
    PROVE  IInv'
  <1>1. CoreTypes'
    BY DEF IInv, CoreTypes
  <1>2. Window(core'.p) /\ Backend(core'.p) /\ Scheduled(core'.p, SlotsOf(ops'))
    BY DEF Follows, Fit
  <1>3. Ordered(core'.p, ops') /\ Buffered(core'.p, ops')
    BY KeptHolds DEF IInv, Follows
  <1>4. LastOnly'
    BY DEF IInv, LastOnly
  <1>5. OrderKept'
    <2>1. OrderKept
      BY DEF IInv
    <2> QED
      BY <2>1, ZenonT(60) DEF OrderKept, Is
  <1>6. BuffersBounded'
    <2>1. BuffersBounded
      BY DEF IInv
    <2> QED
      BY <2>1 DEF BuffersBounded, Waits, Is
  <1>7. setup'.kind # "OOO" => ops' = <<>> /\ Unused(core'.p)
    BY DEF IInv, Follows
  <1> QED
    BY <1>1, <1>2, <1>3, <1>4, <1>5, <1>6, <1>7 DEF IInv

\* A core keeps its place in the phase as long as its clock does not go back and its
\* thread does not leave or wait for the end.
LEMMA PhaseKept ==
    ASSUME IInv, setup' = setup, glob' = glob, st # "out", st # "sync", st' # "out", st' # "sync",
           core'.phaseEnd = core.phaseEnd, core'.rec = core.rec, core'.p.cur \in Nat, core'.p.cur >= core.p.cur
    PROVE  Recording' /\ CoreInPhase'
  <1>1. Recording /\ CoreInPhase /\ core.p.cur \in Nat /\ glob \in Nat
    BY InvFacts
  <1>2. core.p.cur >= glob
    BY <1>1 DEF CoreInPhase
  <1>3. core'.p.cur >= glob
    BY <1>1, <1>2
  <1>4. CoreInPhase'
    BY <1>1, <1>3 DEF CoreInPhase, PhaseLength
  <1> QED
    BY <1>1, <1>3, <1>4 DEF Recording, Recorded

\* The clock of a core that is not out of order.
LEMMA SetClock ==
    ASSUME IInv, setup.kind # "OOO", NEW n \in Nat, NEW d, d = [core EXCEPT !.p.cur = @ + n]
    PROVE  /\ CoreOf(d, setup.bbls) /\ SameCore(core, d) /\ Follows(core.p, d.p, SlotsOf(ops))
           /\ d.p.cur \in Nat /\ d.p.cur >= core.p.cur
  <1>1. Fit(core.p, SlotsOf(ops)) /\ Plain(core.p, SlotsOf(ops)) /\ core.p.cur \in Nat /\ CoreOf(core, setup.bbls)
    BY InvFacts
  <1>2. PICK c \in Nat : c = core.p.cur + n /\ c >= core.p.cur
    <2>1. core.p.cur + n \in Nat /\ core.p.cur + n >= core.p.cur
      BY <1>1
    <2> QED
      BY <2>1
  <1>3. PICK p : p = core.p
    OBVIOUS
  <1>4. p = [f \in PipeFields |-> p[f]] /\ core = [f \in CoreFields |-> core[f]]
    BY <1>1, <1>3 DEF Fit, Window, Moving, CoreOf
  <1>5. PICK q : q = [p EXCEPT !.cur = c]
    OBVIOUS
  <1>6. d = [core EXCEPT !.p = q]
    BY <1>2, <1>3, <1>4, <1>5 DEF CoreFields, PipeFields
  <1>7. SameCore(core, d) /\ d.p = q
    BY <1>4, <1>6 DEF SameCore, CoreFields
  <1>8. Follows(core.p, q, SlotsOf(ops)) /\ q.cur = c
    BY <1>1, <1>3, <1>5, ClockFollows DEF Plain
  <1>9. CoreOf(d, setup.bbls)
    BY <1>1, <1>7 DEF CoreOf, SameCore
  <1> QED
    BY <1>2, <1>7, <1>8, <1>9

\* InOrderBbl
LEMMA InOrderBblStep ==
    ASSUME IInv, NEW b \in setup.bbls, InOrderBbl(b)
    PROVE  IInv'
  <1>1. setup.kind # "OOO" /\ st = "run" /\ st' = "check" /\ setup' = setup /\ work' = work /\ glob' = glob /\ ops' = ops
    BY DEF InOrderBbl, Begin
  <1>2. PICK f \in (IF setup.kind = "Null" THEN {0} ELSE Fetches(b)) : core' = [core EXCEPT !.p.cur = @ + Len(b.ins) + f]
    BY DEF InOrderBbl
  <1>3. glob \in Nat /\ WorkOf(work) /\ setup \in Setups /\ core.p.cur \in Nat
    BY InvFacts
  <1>4. PICK k \in Nat : k = Len(b.ins)
    BY <1>3, SetupsSupported
  <1>5. f \in Nat
    <2>1. Bytes(b) \in Nat
      BY <1>3, SetupsSupported
    <2>2. Fetches(b) \subseteq Nat
      BY <1>3, <2>1, FetchesNatural
    <2> QED
      BY <2>2
  <1>6. PICK n \in Nat : n = k + f /\ core.p.cur + k + f = core.p.cur + n
    BY <1>3, <1>5
  <1>7. core' = [core EXCEPT !.p.cur = @ + n]
    <2>1. core = [g \in CoreFields |-> core[g]] /\ core.p = [g \in PipeFields |-> core.p[g]]
      BY InvFacts DEF CoreOf, Fit, Window, Moving
    <2> QED
      BY <1>2, <1>4, <1>6, <2>1 DEF CoreFields, PipeFields
  <1>8. /\ CoreOf(core', setup.bbls) /\ SameCore(core, core') /\ Follows(core.p, core'.p, SlotsOf(ops))
        /\ core'.p.cur \in Nat /\ core'.p.cur >= core.p.cur
    BY <1>1, <1>7, SetClock
  <1>9. Recording' /\ CoreInPhase'
    BY <1>1, <1>8, PhaseKept DEF SameCore
  <1> QED
    BY <1>1, <1>3, <1>8, <1>9, QuietStep

\* A step that leaves the pipeline alone.
LEMMA SamePipeline ==
    ASSUME IInv, setup' = setup, ops' = ops, glob' = glob, CoreOf(core', setup.bbls), WorkOf(work'),
           st' = "uops" => work'.next \in setup.bbls /\ setup.kind = "OOO",
           st # "out", st # "sync", st' # "out", st' # "sync",
           core'.p = core.p, core'.phaseEnd = core.phaseEnd, core'.rec = core.rec
    PROVE  IInv'
  <1>1. Fit(core.p, SlotsOf(ops)) /\ core.p.cur \in Nat /\ glob \in Nat
    BY InvFacts
  <1>2. Follows(core.p, core'.p, SlotsOf(ops))
    BY <1>1, FollowsSelf
  <1>3. core'.p.cur \in Nat /\ core'.p.cur >= core.p.cur
    BY <1>1
  <1>4. Recording' /\ CoreInPhase'
    BY <1>3, PhaseKept
  <1> QED
    BY <1>1, <1>2, <1>4, QuietStep

\* Empty sequences have any type.
LEMMA EmptySeq == <<>> \in Seq(Int) /\ <<>> \in Seq(Uops)
  OBVIOUS

\* FirstBbl only notes the block.
LEMMA FirstBblStep ==
    ASSUME IInv, NEW b \in setup.bbls, FirstBbl(b)
    PROVE  IInv'
  <1>1. /\ st = "run" /\ st' = "check" /\ setup' = setup /\ work' = work /\ glob' = glob /\ ops' = ops
        /\ core' = [core EXCEPT !.prev = b, !.loads = <<>>, !.stores = <<>>]
    BY DEF FirstBbl, Begin
  <1>2. CoreOf(core, setup.bbls) /\ WorkOf(work)
    BY InvFacts
  <1>3. core = [f \in CoreFields |-> core[f]] /\ core.phaseEnd \in Int
    BY <1>2 DEF CoreOf
  <1>4. /\ core' = [f \in CoreFields |-> core'[f]] /\ core'.p = core.p /\ core'.phaseEnd = core.phaseEnd
        /\ core'.rec = core.rec /\ core'.prev = b /\ core'.loads = <<>> /\ core'.stores = <<>>
    BY <1>1, <1>3 DEF CoreFields
  <1>5. CoreOf(core', setup.bbls)
    BY <1>3, <1>4, EmptySeq DEF CoreOf
  <1> QED
    BY <1>1, <1>2, <1>4, <1>5, SamePipeline

\* OOOBbl takes the operations of the block before, which the decoder gives.
LEMMA OOOBblStep ==
    ASSUME IInv, NEW b \in setup.bbls, OOOBbl(b)
    PROVE  IInv'
  <1>1. /\ st = "run" /\ st' = "uops" /\ setup' = setup /\ glob' = glob /\ ops' = ops /\ setup.kind = "OOO"
        /\ core' = [core EXCEPT !.prev = b] /\ core.prev # None
        /\ work' = [Idling EXCEPT !.block = core.prev, !.uops = decodeBbl(core.prev), !.next = b]
    BY DEF OOOBbl, Begin
  <1>2. CoreOf(core, setup.bbls) /\ setup \in Setups
    BY InvFacts
  <1>3. core = [f \in CoreFields |-> core[f]] /\ core.prev \in setup.bbls
    BY <1>1, <1>2 DEF CoreOf
  <1>4. /\ core' = [f \in CoreFields |-> core'[f]] /\ core'.p = core.p /\ core'.phaseEnd = core.phaseEnd
        /\ core'.rec = core.rec /\ core'.prev = b /\ core'.loads = core.loads /\ core'.stores = core.stores
    BY <1>1, <1>3 DEF CoreFields
  <1>5. CoreOf(core', setup.bbls)
    BY <1>2, <1>4 DEF CoreOf
  <1>6. decodeBbl(core.prev) \in Seq(Uops)
    BY <1>2, <1>3, SetupsSupported
  <1>7. WorkOf(work') /\ work'.next = b
    <2>1. work' = [block |-> core.prev, uops |-> decodeBbl(core.prev), loads |-> 0, stores |-> 0, dec |-> 0,
                   last |-> 0, next |-> b]
      BY <1>1 DEF Idling
    <2> QED
      BY <1>6, <2>1 DEF WorkOf, WorkFields
  <1> QED
    BY <1>1, <1>4, <1>5, <1>7, SamePipeline

\* Branch only notes the branch.
LEMMA BranchStep ==
    ASSUME IInv, NEW taken, Branch(taken)
    PROVE  IInv'
  <1>1. /\ st = "run" /\ st' = st /\ setup' = setup /\ work' = work /\ glob' = glob /\ ops' = ops
        /\ core' = IF setup.kind = "OOO" THEN [core EXCEPT !.branch = [pc |-> Head(todo[on]).pc, taken |-> taken]]
                   ELSE core
    BY DEF Branch, Running
  <1>2. CoreOf(core, setup.bbls) /\ WorkOf(work)
    BY InvFacts
  <1>3. core = [f \in CoreFields |-> core[f]]
    BY <1>2 DEF CoreOf
  <1>4. /\ core' = [f \in CoreFields |-> core'[f]] /\ core'.p = core.p /\ core'.phaseEnd = core.phaseEnd
        /\ core'.rec = core.rec /\ core'.prev = core.prev /\ core'.loads = core.loads /\ core'.stores = core.stores
    BY <1>1, <1>3 DEF CoreFields
  <1>5. CoreOf(core', setup.bbls)
    BY <1>2, <1>4 DEF CoreOf
  <1> QED
    BY <1>1, <1>2, <1>4, <1>5, SamePipeline

\* Access notes an address, or moves the clock of a core that is in order.
LEMMA AccessStep ==
    ASSUME IInv, NEW call, NEW executes \in BOOLEAN, Access(call, executes)
    PROVE  IInv'
  <1>1. st = "run" /\ st' = st /\ setup' = setup /\ work' = work /\ glob' = glob /\ ops' = ops
    BY DEF Access, Running
  <1>2. CoreOf(core, setup.bbls) /\ WorkOf(work) /\ setup \in Setups /\ glob \in Nat
    BY InvFacts
  <1>3. core = [f \in CoreFields |-> core[f]] /\ core.loads \in Seq(Int) /\ core.stores \in Seq(Int)
    BY <1>2 DEF CoreOf
  <1>4. setup.addrs \subseteq Nat /\ setup.lats \subseteq Nat
    BY <1>2, SetupsSupported
  <1>5. CASE core' = core
    BY <1>1, <1>2, <1>5, SamePipeline
  <1>6. CASE \E a \in Int : core' = [core EXCEPT !.stores = Append(@, a)]
    <2>1. PICK a \in Int : core' = [core EXCEPT !.stores = Append(@, a)]
      BY <1>6
    <2>2. Append(core.stores, a) \in Seq(Int)
      BY <1>3
    <2>3. /\ core' = [f \in CoreFields |-> core'[f]] /\ core'.p = core.p /\ core'.phaseEnd = core.phaseEnd
          /\ core'.rec = core.rec /\ core'.prev = core.prev /\ core'.loads = core.loads
          /\ core'.stores = Append(core.stores, a)
      BY <1>3, <2>1 DEF CoreFields
    <2>4. CoreOf(core', setup.bbls)
      BY <1>2, <2>2, <2>3 DEF CoreOf
    <2> QED
      BY <1>1, <1>2, <2>3, <2>4, SamePipeline
  <1>7. CASE \E a \in Int : core' = [core EXCEPT !.loads = Append(@, a)]
    <2>1. PICK a \in Int : core' = [core EXCEPT !.loads = Append(@, a)]
      BY <1>7
    <2>2. Append(core.loads, a) \in Seq(Int)
      BY <1>3
    <2>3. /\ core' = [f \in CoreFields |-> core'[f]] /\ core'.p = core.p /\ core'.phaseEnd = core.phaseEnd
          /\ core'.rec = core.rec /\ core'.prev = core.prev /\ core'.stores = core.stores
          /\ core'.loads = Append(core.loads, a)
      BY <1>3, <2>1 DEF CoreFields
    <2>4. CoreOf(core', setup.bbls)
      BY <1>2, <2>2, <2>3 DEF CoreOf
    <2> QED
      BY <1>1, <1>2, <2>3, <2>4, SamePipeline
  <1>8. CASE setup.kind # "OOO" /\ \E n \in Nat : core' = [core EXCEPT !.p.cur = @ + n]
    <2>1. PICK n \in Nat : core' = [core EXCEPT !.p.cur = @ + n]
      BY <1>8
    <2>2. /\ CoreOf(core', setup.bbls) /\ SameCore(core, core') /\ Follows(core.p, core'.p, SlotsOf(ops))
          /\ core'.p.cur \in Nat /\ core'.p.cur >= core.p.cur
      BY <1>8, <2>1, SetClock
    <2>3. Recording' /\ CoreInPhase'
      BY <1>1, <2>2, PhaseKept DEF SameCore
    <2> QED
      BY <1>1, <1>2, <2>2, <2>3, QuietStep
  <1>9. \/ core' = core
        \/ \E a \in Int : core' = [core EXCEPT !.stores = Append(@, a)]
        \/ \E a \in Int : core' = [core EXCEPT !.loads = Append(@, a)]
        \/ setup.kind # "OOO" /\ \E n \in Nat : core' = [core EXCEPT !.p.cur = @ + n]
    <2>0. PICK store : store = (call \in {"store", "predStore"})
      OBVIOUS
    <2>1. CASE setup.kind = "Null"
      BY <2>1 DEF Access
    <2>2. CASE setup.kind = "OOO" /\ executes
      <3>1. \E a \in setup.addrs : core' = IF store THEN [core EXCEPT !.stores = Append(@, a)]
                                           ELSE [core EXCEPT !.loads = Append(@, a)]
        BY <2>0, <2>2 DEF Access
      <3>2. PICK a \in setup.addrs : core' = IF store THEN [core EXCEPT !.stores = Append(@, a)]
                                             ELSE [core EXCEPT !.loads = Append(@, a)]
        BY <3>1
      <3>3. a \in Int
        BY <1>4
      <3>4. \/ core' = [core EXCEPT !.stores = Append(@, a)]
            \/ core' = [core EXCEPT !.loads = Append(@, a)]
        BY <3>2
      <3> QED
        BY <3>3, <3>4
    <2>3. CASE setup.kind = "OOO" /\ ~executes
      <3>1. core' = [core EXCEPT !.loads = Append(@, NoAddr)]
        BY <2>3 DEF Access
      <3>2. NoAddr \in Int
        BY DEF NoAddr
      <3> QED
        BY <3>1, <3>2
    <2>4. CASE setup.kind # "OOO" /\ setup.kind # "Null"
      <3>1. \E lat \in setup.lats : core' = IF executes THEN [core EXCEPT !.p.cur = @ + lat] ELSE core
        BY <2>4 DEF Access
      <3> QED
        BY <1>4, <2>4, <3>1
    <2> QED
      BY <2>1, <2>2, <2>3, <2>4
  <1> QED
    BY <1>5, <1>6, <1>7, <1>8, <1>9

\* PhaseLoop: a clock beyond the end of the phase waits for the next one.
LEMMA PhaseLoopStep ==
    ASSUME IInv, PhaseLoop
    PROVE  IInv'
  <1>1. /\ st = "check" /\ setup' = setup /\ work' = work /\ glob' = glob /\ ops' = ops
        /\ IF core.p.cur > core.phaseEnd
           THEN /\ st' = "sync"
                /\ core' = Expect([core EXCEPT !.phaseEnd = @ + PhaseLength],
                                  Recorded \/ core.phaseEnd = glob + PhaseLength)
           ELSE st' = "run" /\ core' = core
    BY DEF PhaseLoop
  <1>2. /\ CoreOf(core, setup.bbls) /\ WorkOf(work) /\ glob \in Nat /\ core.p.cur \in Nat /\ Fit(core.p, SlotsOf(ops))
        /\ Recording /\ CoreInPhase
    BY InvFacts
  <1>3. CASE ~(core.p.cur > core.phaseEnd)
    <2>1. st' = "run" /\ core' = core
      BY <1>1, <1>3
    <2> QED
      BY <1>1, <1>2, <2>1, SamePipeline
  <1>4. CASE core.p.cur > core.phaseEnd
    <2>0. PICK L \in Nat \ {0} : L = PhaseLength /\ L = setup.length
      BY InvFacts DEF PhaseLength
    <2>1. PICK e \in Int : e = core.phaseEnd + L /\ core.phaseEnd \in Int
      <3>1. core.phaseEnd \in Int
        BY <1>2 DEF CoreOf
      <3> QED
        BY <3>1
    <2>2. PICK c : c = [core EXCEPT !.phaseEnd = e]
      OBVIOUS
    <2>3. PICK a : a = (Recorded \/ core.phaseEnd = glob + PhaseLength)
      OBVIOUS
    <2>4. st' = "sync" /\ core' = Expect(c, a)
      <3>1. [core EXCEPT !.phaseEnd = @ + PhaseLength] = c
        BY <2>0, <2>1, <2>2
      <3> QED
        BY <1>1, <1>4, <2>3, <3>1
    <2>5. core = [f \in CoreFields |-> core[f]]
      BY <1>2 DEF CoreOf
    <2>6. /\ c = [f \in CoreFields |-> c[f]] /\ c.p = core.p /\ c.phaseEnd = e /\ c.prev = core.prev
          /\ c.loads = core.loads /\ c.stores = core.stores /\ c.rec = core.rec
      BY <2>2, <2>5 DEF CoreFields
    <2>7. Fit(c.p, SlotsOf(ops))
      BY <1>2, <2>6
    <2>8. SameCore(c, core') /\ Follows(c.p, core'.p, SlotsOf(ops)) /\ core'.p.cur = c.p.cur
      BY <2>4, <2>6, <2>7, ExpectIs
    <2>9. CoreOf(core', setup.bbls)
      BY <1>2, <2>6, <2>8 DEF CoreOf, SameCore
    <2>10. core.phaseEnd = glob + L /\ core.p.cur >= glob /\ core.p.cur > glob + L
      BY <1>1, <1>2, <1>4, <2>0 DEF CoreInPhase
    <2>11. core'.phaseEnd = glob + 2 * L /\ core'.p.cur = core.p.cur
      <3>1. e = glob + 2 * L
        BY <1>2, <2>1, <2>10
      <3> QED
        BY <2>6, <2>8, <3>1 DEF SameCore
    <2>12. CoreInPhase'
      <3>1. PhaseLength' = L
        BY <1>1, <2>0 DEF PhaseLength
      <3> QED
        BY <1>1, <2>4, <2>10, <2>11, <3>1 DEF CoreInPhase
    <2>13. Recording'
      <3>1. core'.rec = core.rec
        BY <2>6, <2>8 DEF SameCore
      <3> QED
        BY <1>1, <1>2, <2>4, <2>10, <2>11, <3>1 DEF Recording, Recorded
    <2>14. Follows(core.p, core'.p, SlotsOf(ops))
      BY <2>6, <2>8
    <2> QED
      BY <1>1, <1>2, <2>4, <2>9, <2>12, <2>13, <2>14, QuietStep
  <1> QED
    BY <1>3, <1>4

\* Resume goes back to the loop in the new phase.
LEMMA ResumeStep ==
    ASSUME IInv, Resume
    PROVE  IInv'
  <1>1. st = "synced" /\ st' = "check" /\ setup' = setup /\ core' = core /\ work' = work /\ glob' = glob /\ ops' = ops
    BY DEF Resume
  <1>2. CoreOf(core, setup.bbls) /\ WorkOf(work)
    BY InvFacts
  <1> QED
    BY <1>1, <1>2, SamePipeline

\* contextSwitch() forgets the block.
LEMMA SwitchIs ==
    ASSUME NEW c, NEW bbls, CoreOf(c, bbls), NEW d, d = contextSwitch(c)
    PROVE  CoreOf(d, bbls) /\ d.p = c.p /\ d.phaseEnd = c.phaseEnd /\ d.rec = c.rec
  <1>1. c = [f \in CoreFields |-> c[f]] /\ d = [c EXCEPT !.prev = None]
    BY DEF CoreOf, contextSwitch
  <1>2. /\ d = [f \in CoreFields |-> d[f]] /\ d.p = c.p /\ d.phaseEnd = c.phaseEnd /\ d.rec = c.rec /\ d.prev = None
        /\ d.loads = c.loads /\ d.stores = c.stores
    BY <1>1 DEF CoreFields
  <1> QED
    BY <1>2 DEF CoreOf

\* Handoff gives the core to a thread that goes on in the same phase.
LEMMA HandoffStep ==
    ASSUME IInv, NEW t, Handoff(t)
    PROVE  IInv'
  <1>1. /\ st = "synced" /\ st' \in {"run", "check"} /\ setup' = setup /\ core' = contextSwitch(core)
        /\ work' = work /\ glob' = glob /\ ops' = ops
    BY DEF Handoff
  <1>2. CoreOf(core, setup.bbls) /\ WorkOf(work)
    BY InvFacts
  <1>3. CoreOf(core', setup.bbls) /\ core'.p = core.p /\ core'.phaseEnd = core.phaseEnd /\ core'.rec = core.rec
    BY <1>1, <1>2, SwitchIs
  <1> QED
    BY <1>1, <1>2, <1>3, SamePipeline

\* leave() of a core that is in the phase.
LEMMA LeaveIs ==
    ASSUME IInv, NEW d, d = leave(core)
    PROVE  /\ CoreOf(d, setup.bbls) /\ Follows(core.p, d.p, SlotsOf(ops)) /\ d.p.cur = core.p.cur
           /\ d.rec = IF Recorded THEN "DRAINING" ELSE core.rec
  <1>1. CoreOf(core, setup.bbls) /\ Fit(core.p, SlotsOf(ops))
    BY InvFacts
  <1>2. CASE ~Recorded
    <2>1. d = core
      BY <1>2 DEF leave
    <2> QED
      BY <1>1, <1>2, <2>1, FollowsSelf
  <1>3. CASE Recorded
    <2>1. PICK c : c = [core EXCEPT !.rec = "DRAINING"]
      OBVIOUS
    <2>2. PICK a : a = (core.rec = "RUNNING")
      OBVIOUS
    <2>3. d = Expect(c, a)
      BY <1>3, <2>1, <2>2 DEF leave
    <2>4. core = [f \in CoreFields |-> core[f]]
      BY <1>1 DEF CoreOf
    <2>5. /\ c = [f \in CoreFields |-> c[f]] /\ c.p = core.p /\ c.phaseEnd = core.phaseEnd /\ c.prev = core.prev
          /\ c.loads = core.loads /\ c.stores = core.stores /\ c.rec = "DRAINING"
      BY <2>1, <2>4 DEF CoreFields
    <2>6. Fit(c.p, SlotsOf(ops))
      BY <1>1, <2>5
    <2>7. SameCore(c, d) /\ Follows(c.p, d.p, SlotsOf(ops)) /\ d.p.cur = c.p.cur
      BY <2>3, <2>5, <2>6, ExpectIs
    <2>8. CoreOf(d, setup.bbls)
      BY <1>1, <2>5, <2>7 DEF CoreOf, SameCore
    <2> QED
      BY <1>3, <2>5, <2>7, <2>8 DEF SameCore
  <1> QED
    BY <1>2, <1>3

\* Leave: the recorder drains, from a cycle of the current phase.
LEMMA LeaveStep ==
    ASSUME IInv, Leave
    PROVE  IInv'
  <1>1. st = "run" /\ st' = "out" /\ setup' = setup /\ core' = leave(core) /\ work' = work /\ glob' = glob /\ ops' = ops
    BY DEF Leave
  <1>2. WorkOf(work) /\ glob \in Nat /\ Recording /\ CoreInPhase
    BY InvFacts
  <1>3. /\ CoreOf(core', setup.bbls) /\ Follows(core.p, core'.p, SlotsOf(ops)) /\ core'.p.cur = core.p.cur
        /\ core'.rec = IF Recorded THEN "DRAINING" ELSE core.rec
    BY <1>1, LeaveIs
  <1>4. core.p.cur >= glob
    BY <1>1, <1>2 DEF CoreInPhase
  <1>5. CoreInPhase'
    BY <1>1 DEF CoreInPhase
  <1>6. Recording'
    BY <1>1, <1>3, <1>4 DEF Recording, Recorded
  <1> QED
    BY <1>1, <1>2, <1>3, <1>5, <1>6, QuietStep

\* A core that a thread may join, and one that it has joined.
Joinable(c, s) ==
    /\ CoreOf(c, setup.bbls) /\ Fit(c.p, s) /\ Plain(c.p, s)
    /\ Recorded => c.rec \in {"DRAINING", "HALTED"} /\ (c.rec = "DRAINING" => c.p.cur >= glob)

Joined(c, d, s) ==
    /\ CoreOf(d, setup.bbls) /\ Follows(c.p, d.p, s) /\ d.p.cur >= glob
    /\ d.phaseEnd = glob + PhaseLength /\ (Recorded => d.rec = "RUNNING")

\* join() brings the core to the current phase, in each of its cases.
LEMMA JoinIs ==
    ASSUME glob \in Nat, setup.length \in Nat \ {0}, NEW c, NEW s, Taken(s), Joinable(c, s), NEW d, d = join(c)
    PROVE  Joined(c, d, s)
  <1>1. CoreOf(c, setup.bbls) /\ Fit(c.p, s) /\ Plain(c.p, s) /\ c = [f \in CoreFields |-> c[f]] /\ c.p.cur \in Nat
    BY DEF Joinable, CoreOf, Fit, Window, Moving
  <1>2. PICK rec : rec = IF Recorded THEN "RUNNING" ELSE c.rec
    OBVIOUS
  <1>3. PICK end \in Int : end = glob + PhaseLength
    BY DEF PhaseLength
  <1>4. PICK i : i = [c EXCEPT !.rec = rec, !.phaseEnd = end]
    OBVIOUS
  <1>5. i = [c EXCEPT !.rec = IF Recorded THEN "RUNNING" ELSE @, !.phaseEnd = glob + PhaseLength]
    BY <1>1, <1>2, <1>3, <1>4 DEF CoreFields
  <1>6. /\ i = [f \in CoreFields |-> i[f]] /\ i.p = c.p /\ i.phaseEnd = end /\ i.rec = rec /\ i.prev = c.prev
        /\ i.loads = c.loads /\ i.stores = c.stores
    BY <1>1, <1>4 DEF CoreFields
  <1>7. ASSUME NEW target \in Nat, target >= glob, d = [i EXCEPT !.p = Advance(@, target)] PROVE Joined(c, d, s)
    <2>1. PICK q : q = Advance(c.p, target)
      OBVIOUS
    <2>2. Follows(c.p, q, s) /\ q.cur \in Nat /\ q.cur >= target
      BY <1>1, <2>1, AdvanceFollows
    <2>3. /\ d = [f \in CoreFields |-> d[f]] /\ d.p = q /\ d.phaseEnd = end /\ d.rec = rec /\ d.prev = c.prev
          /\ d.loads = c.loads /\ d.stores = c.stores
      BY <1>6, <1>7, <2>1 DEF CoreFields
    <2>4. CoreOf(d, setup.bbls)
      BY <1>1, <2>3 DEF CoreOf
    <2>5. d.p.cur >= glob
      BY <1>7, <2>2, <2>3
    <2> QED
      BY <1>2, <1>3, <2>2, <2>3, <2>4, <2>5 DEF Joined
  <1>8. CASE ~Recorded
    <2>1. PICK target \in Nat : target = Larger(c.p.cur, glob) /\ target >= glob
      BY <1>1 DEF Larger
    <2>2. d = [i EXCEPT !.p = Advance(@, Larger(c.p.cur, glob))]
      BY <1>5, <1>8 DEF join
    <2> QED
      BY <1>7, <2>1, <2>2
  <1>9. CASE Recorded /\ c.rec = "HALTED"
    <2>1. d = [i EXCEPT !.p = Advance(@, glob)]
      BY <1>5, <1>9 DEF join
    <2>2. glob >= glob
      OBVIOUS
    <2> QED
      BY <1>7, <2>1, <2>2
  <1>10. CASE Recorded /\ c.rec # "HALTED"
    <2>1. PICK a : a = (c.rec = "DRAINING" /\ c.p.cur >= glob)
      OBVIOUS
    <2>2. d = Expect(i, a)
      BY <1>5, <1>10, <2>1 DEF join
    <2>3. Fit(i.p, s)
      BY <1>1, <1>6
    <2>4. SameCore(i, d) /\ Follows(i.p, d.p, s) /\ d.p.cur = i.p.cur
      BY <1>6, <2>2, <2>3, ExpectIs
    <2>5. CoreOf(d, setup.bbls)
      BY <1>1, <1>6, <2>4 DEF CoreOf, SameCore
    <2>6. c.p.cur >= glob
      BY <1>10 DEF Joinable
    <2> QED
      BY <1>2, <1>3, <1>6, <1>10, <2>4, <2>5, <2>6 DEF Joined, SameCore
  <1> QED
    BY <1>8, <1>9, <1>10

\* A thread runs again.
LEMMA JoinedStep ==
    ASSUME IInv, setup' = setup, work' = work, glob' = glob, ops' = ops, st' = "run",
           NEW c, Joinable(c, SlotsOf(ops)), Follows(core.p, c.p, SlotsOf(ops)), core' = join(c)
    PROVE  IInv'
  <1>1. WorkOf(work) /\ glob \in Nat /\ setup.length \in Nat \ {0} /\ Taken(SlotsOf(ops))
    BY InvFacts
  <1>2. Joined(c, core', SlotsOf(ops))
    BY <1>1, JoinIs
  <1>3. /\ CoreOf(core', setup.bbls) /\ Follows(c.p, core'.p, SlotsOf(ops)) /\ core'.p.cur >= glob
        /\ core'.phaseEnd = glob + PhaseLength /\ (Recorded => core'.rec = "RUNNING")
    BY <1>2 DEF Joined
  <1>4. Follows(core.p, core'.p, SlotsOf(ops))
    BY <1>3, FollowsChain
  <1>5. CoreInPhase'
    BY <1>1, <1>3 DEF CoreInPhase, PhaseLength
  <1>6. Recording'
    BY <1>3 DEF Recording, Recorded
  <1> QED
    BY <1>1, <1>3, <1>4, <1>5, <1>6, QuietStep

\* Join: the same thread returns.
LEMMA JoinStep ==
    ASSUME IInv, Join
    PROVE  IInv'
  <1>1. st = "out" /\ st' = "run" /\ setup' = setup /\ core' = join(core) /\ work' = work /\ glob' = glob /\ ops' = ops
    BY DEF Join
  <1>2. CoreOf(core, setup.bbls) /\ Fit(core.p, SlotsOf(ops)) /\ Plain(core.p, SlotsOf(ops)) /\ Recording
    BY InvFacts
  <1>3. Joinable(core, SlotsOf(ops))
    BY <1>1, <1>2 DEF Joinable, Recording
  <1>4. Follows(core.p, core.p, SlotsOf(ops))
    BY <1>2, FollowsSelf
  <1> QED
    BY <1>1, <1>3, <1>4, JoinedStep

\* Steal: another thread takes a core that is out.
LEMMA StealStep ==
    ASSUME IInv, NEW t, Steal(t)
    PROVE  IInv'
  <1>1. /\ st = "out" /\ st' = "run" /\ setup' = setup /\ core' = join(contextSwitch(core)) /\ work' = work
        /\ glob' = glob /\ ops' = ops
    BY DEF Steal
  <1>2. CoreOf(core, setup.bbls) /\ Fit(core.p, SlotsOf(ops)) /\ Plain(core.p, SlotsOf(ops)) /\ Recording
    BY InvFacts
  <1>3. PICK c : c = contextSwitch(core)
    OBVIOUS
  <1>4. CoreOf(c, setup.bbls) /\ c.p = core.p /\ c.rec = core.rec
    BY <1>2, <1>3, SwitchIs
  <1>5. Joinable(c, SlotsOf(ops))
    BY <1>1, <1>2, <1>4 DEF Joinable, Recording
  <1>6. Follows(core.p, c.p, SlotsOf(ops))
    BY <1>2, <1>4, FollowsSelf
  <1>7. core' = join(c)
    BY <1>1, <1>3
  <1> QED
    BY <1>1, <1>5, <1>6, <1>7, JoinedStep

\* LeaveTo: another thread takes the core while its recorder drains.
LEMMA LeaveToStep ==
    ASSUME IInv, NEW t, LeaveTo(t)
    PROVE  IInv'
  <1>1. /\ st = "run" /\ st' = "run" /\ setup' = setup /\ core' = join(contextSwitch(leave(core))) /\ work' = work
        /\ glob' = glob /\ ops' = ops
    BY DEF LeaveTo
  <1>2. CoreOf(core, setup.bbls) /\ Fit(core.p, SlotsOf(ops)) /\ Plain(core.p, SlotsOf(ops)) /\ CoreInPhase
    BY InvFacts
  <1>3. PICK d : d = leave(core)
    OBVIOUS
  <1>4. /\ CoreOf(d, setup.bbls) /\ Follows(core.p, d.p, SlotsOf(ops)) /\ d.p.cur = core.p.cur
        /\ d.rec = IF Recorded THEN "DRAINING" ELSE core.rec
    BY <1>3, LeaveIs
  <1>5. PICK c : c = contextSwitch(d)
    OBVIOUS
  <1>6. CoreOf(c, setup.bbls) /\ c.p = d.p /\ c.rec = d.rec
    BY <1>4, <1>5, SwitchIs
  <1>7. Fit(c.p, SlotsOf(ops)) /\ Plain(c.p, SlotsOf(ops)) /\ Follows(core.p, c.p, SlotsOf(ops))
    BY <1>2, <1>4, <1>6 DEF Follows, Plain
  <1>8. core.p.cur >= glob
    BY <1>1, <1>2 DEF CoreInPhase
  <1>9. Joinable(c, SlotsOf(ops))
    BY <1>4, <1>6, <1>7, <1>8 DEF Joinable
  <1>10. core' = join(c)
    BY <1>1, <1>3, <1>5
  <1> QED
    BY <1>1, <1>7, <1>9, <1>10, JoinedStep

\* EndPhase: a core that drains is brought to the new phase, one that waits was beyond it,
\* and the gap of the weave phase moves the window and the clock together.
LEMMA EndPhaseStep ==
    ASSUME IInv, EndPhase
    PROVE  IInv'
  <1>0. /\ CoreOf(core, setup.bbls) /\ WorkOf(work) /\ glob \in Nat /\ core.p.cur \in Nat /\ Fit(core.p, SlotsOf(ops))
        /\ Recording /\ CoreInPhase /\ Taken(SlotsOf(ops)) /\ Plain(core.p, SlotsOf(ops)) /\ setup \in Setups
    BY InvFacts
  <1>1. PICK L \in Nat \ {0} : L = PhaseLength /\ L = setup.length
    BY InvFacts DEF PhaseLength
  <1>2. PICK next \in Nat : next = glob + L
    BY <1>0
  <1>3. PICK target \in Nat : target = Larger(core.p.cur, next) /\ target >= next /\ target >= core.p.cur
    BY <1>0 DEF Larger
  <1>4. PICK started : started = IF core.rec = "DRAINING" THEN Advance(core.p, target) ELSE core.p
    OBVIOUS
  <1>5. PICK due : due = (core.rec = "RUNNING" =>
                            IF setup.kind = "OOO" THEN core.p.cur > next ELSE core.p.cur >= next)
    OBVIOUS
  <1>6. /\ st \in {"sync", "out"} /\ glob' = next /\ st' = (IF st = "sync" THEN "synced" ELSE st)
        /\ setup' = setup /\ work' = work /\ ops' = ops
        /\ \/ /\ Recorded /\ core.rec # "HALTED"
              /\ \E gap \in setup.gaps, drained \in BOOLEAN :
                    /\ drained => core.rec = "DRAINING"
                    /\ core' = Expect([core EXCEPT !.p = Advance(started, started.cur + gap),
                                                   !.rec = IF drained THEN "HALTED" ELSE @], due)
           \/ ~(Recorded /\ core.rec # "HALTED") /\ core' = core
    BY <1>1, <1>2, <1>3, <1>4, <1>5 DEF EndPhase
  <1>7. st = "sync" => core.phaseEnd = glob + 2 * L /\ core.p.cur > glob + L
    BY <1>1, <1>6, <1>0 DEF CoreInPhase
  <1>8. CASE core' = core /\ ~(Recorded /\ core.rec # "HALTED")
    <2>1. Follows(core.p, core'.p, SlotsOf(ops))
      BY <1>0, <1>8, FollowsSelf
    <2>2. CoreInPhase'
      <3>1. PhaseLength' = L
        BY <1>1, <1>6 DEF PhaseLength
      <3>2. st = "sync" => core.phaseEnd = next + L /\ core.p.cur >= next
        BY <1>0, <1>2, <1>7
      <3>3. CASE st = "out"
        <4>1. st' = "out"
          BY <1>6, <3>3
        <4> QED
          BY <4>1 DEF CoreInPhase
      <3>4. CASE st = "sync"
        <4>1. st' = "synced" /\ glob' = next
          BY <1>6, <3>4
        <4>2. core'.phaseEnd = next + L /\ core'.p.cur >= next
          BY <1>8, <3>2, <3>4
        <4>3. (IF st' = "sync" THEN 2 ELSE 1) * L = L
          BY <4>1
        <4> QED
          BY <3>1, <4>1, <4>2, <4>3 DEF CoreInPhase
      <3> QED
        BY <1>6, <3>3, <3>4
    <2>3. Recording'
      BY <1>0, <1>6, <1>8 DEF Recording, Recorded
    <2>4. st' # "uops"
      BY <1>6
    <2> QED
      BY <1>0, <1>6, <1>8, <2>1, <2>2, <2>3, <2>4, QuietStep
  <1>9. CASE Recorded /\ core.rec # "HALTED" /\ \E gap \in setup.gaps, drained \in BOOLEAN :
                    /\ drained => core.rec = "DRAINING"
                    /\ core' = Expect([core EXCEPT !.p = Advance(started, started.cur + gap),
                                                   !.rec = IF drained THEN "HALTED" ELSE @], due)
    <2>1. PICK gap \in setup.gaps, drained \in BOOLEAN :
                    /\ drained => core.rec = "DRAINING"
                    /\ core' = Expect([core EXCEPT !.p = Advance(started, started.cur + gap),
                                                   !.rec = IF drained THEN "HALTED" ELSE @], due)
      BY <1>9
    <2>2. gap \in Nat
      BY <1>0, SetupsSupported
    <2>3. /\ Follows(core.p, started, SlotsOf(ops)) /\ started.cur \in Nat /\ started.cur >= core.p.cur
          /\ core.rec = "DRAINING" => started.cur >= next
      <3>1. CASE core.rec = "DRAINING"
        <4>1. started = Advance(core.p, target)
          BY <1>4, <3>1
        <4>2. Follows(core.p, started, SlotsOf(ops)) /\ started.cur \in Nat /\ started.cur >= target
          BY <1>0, <4>1, AdvanceFollows
        <4> QED
          BY <1>0, <1>3, <4>2
      <3>2. CASE core.rec # "DRAINING"
        BY <1>0, <1>4, <3>2, FollowsSelf
      <3> QED
        BY <3>1, <3>2
    <2>4. Fit(started, SlotsOf(ops)) /\ Plain(started, SlotsOf(ops))
      BY <1>0, <2>3 DEF Follows, Plain
    <2>5. PICK g \in Nat : g = started.cur + gap /\ g >= started.cur
      <3>1. started.cur + gap \in Nat /\ started.cur + gap >= started.cur
        BY <2>2, <2>3
      <3> QED
        BY <3>1
    <2>6. PICK q : q = Advance(started, g)
      OBVIOUS
    <2>7. Follows(started, q, SlotsOf(ops)) /\ q.cur \in Nat /\ q.cur >= g
      BY <1>0, <2>4, <2>6, AdvanceFollows
    <2>8. Follows(core.p, q, SlotsOf(ops))
      BY <2>3, <2>7, FollowsChain
    <2>9. PICK rec : rec = IF drained THEN "HALTED" ELSE core.rec
      OBVIOUS
    <2>10. PICK c : c = [core EXCEPT !.p = q, !.rec = rec]
      OBVIOUS
    <2>11. core = [f \in CoreFields |-> core[f]]
      BY <1>0 DEF CoreOf
    <2>12. core' = Expect(c, due)
      <3>1. [core EXCEPT !.p = Advance(started, started.cur + gap), !.rec = IF drained THEN "HALTED" ELSE @] = c
        BY <2>5, <2>6, <2>9, <2>10, <2>11 DEF CoreFields
      <3> QED
        BY <2>1, <3>1
    <2>13. /\ c = [f \in CoreFields |-> c[f]] /\ c.p = q /\ c.phaseEnd = core.phaseEnd /\ c.prev = core.prev
           /\ c.loads = core.loads /\ c.stores = core.stores /\ c.rec = rec
      BY <2>10, <2>11 DEF CoreFields
    <2>14. Fit(c.p, SlotsOf(ops))
      BY <2>8, <2>13 DEF Follows
    <2>15. SameCore(c, core') /\ Follows(c.p, core'.p, SlotsOf(ops)) /\ core'.p.cur = c.p.cur
      BY <2>12, <2>13, <2>14, ExpectIs
    <2>16. CoreOf(core', setup.bbls)
      BY <1>0, <2>13, <2>15 DEF CoreOf, SameCore
    <2>17. Follows(core.p, core'.p, SlotsOf(ops))
      BY <2>8, <2>13, <2>15, FollowsChain
    <2>18. /\ core'.p.cur = q.cur /\ q.cur >= core.p.cur /\ core'.phaseEnd = core.phaseEnd /\ core'.rec = rec
           /\ core.rec = "DRAINING" => q.cur >= next
      BY <1>0, <2>3, <2>5, <2>7, <2>13, <2>15 DEF SameCore
    <2>19. CoreInPhase'
      <3>1. PhaseLength' = L
        BY <1>1, <1>6 DEF PhaseLength
      <3>2. st = "sync" => core.phaseEnd = next + L /\ core'.p.cur >= next
        BY <1>0, <1>2, <1>7, <2>7, <2>18
      <3>3. CASE st = "out"
        <4>1. st' = "out"
          BY <1>6, <3>3
        <4> QED
          BY <4>1 DEF CoreInPhase
      <3>4. CASE st = "sync"
        <4>1. st' = "synced" /\ glob' = next
          BY <1>6, <3>4
        <4>2. core'.phaseEnd = next + L /\ core'.p.cur >= next
          BY <2>18, <3>2, <3>4
        <4>3. (IF st' = "sync" THEN 2 ELSE 1) * L = L
          BY <4>1
        <4> QED
          BY <3>1, <4>1, <4>2, <4>3 DEF CoreInPhase
      <3> QED
        BY <1>6, <3>3, <3>4
    <2>20. Recording'
      <3>1. CASE st = "sync"
        <4>1. core.rec = "RUNNING"
          BY <1>0, <1>9, <3>1 DEF Recording
        <4>2. ~drained
          BY <1>9, <3>1, <4>1, <2>1
        <4> QED
          BY <1>6, <2>9, <2>18, <3>1, <4>1, <4>2 DEF Recording, Recorded
      <3>2. CASE st = "out"
        <4>1. core.rec = "DRAINING"
          BY <1>0, <1>9, <3>2 DEF Recording
        <4> QED
          BY <1>6, <2>9, <2>18, <3>2, <4>1 DEF Recording, Recorded
      <3> QED
        BY <1>6, <3>1, <3>2
    <2>21. st' # "uops"
      BY <1>6
    <2> QED
      BY <1>0, <1>6, <2>16, <2>17, <2>19, <2>20, <2>21, QuietStep
  <1> QED
    BY <1>6, <1>8, <1>9

\* Frontend trains the predictor and moves the decoder.
LEMMA FrontendStep ==
    ASSUME IInv, Frontend
    PROVE  IInv'
  <1>0. /\ CoreOf(core, setup.bbls) /\ WorkOf(work) /\ glob \in Nat /\ core.p.cur \in Nat /\ Fit(core.p, SlotsOf(ops))
        /\ setup \in Setups
    BY InvFacts
  <1>1. PICK br : br = core.branch
    OBVIOUS
  <1>2. PICK p : p = IF br = NoBranch THEN core.p ELSE Predict(core.p, br.pc, br.taken)
    OBVIOUS
  <1>3. PICK miss : miss = (br # NoBranch /\ predicts(core.p, br.pc) # br.taken)
    OBVIOUS
  <1>4. PICK fetch : fetch = IF miss THEN work.last ELSE p.dec - FetchToDecode
    OBVIOUS
  <1>5. PICK a : a = (work.loads = Len(core.loads) /\ work.stores = Len(core.stores))
    OBVIOUS
  <1>6. /\ st = "uops" /\ st' = "check" /\ setup' = setup /\ work' = Idling /\ glob' = glob /\ ops' = ops
        /\ \E f \in Fetches(work.next) :
              core' = Expect([core EXCEPT !.p = [p EXCEPT !.dec = Larger(@ + 1, fetch + f + FetchToDecode)],
                                          !.loads = <<>>, !.stores = <<>>, !.branch = NoBranch], a)
    BY <1>1, <1>2, <1>3, <1>4, <1>5 DEF Frontend
  <1>7. PICK f \in Fetches(work.next) :
              core' = Expect([core EXCEPT !.p = [p EXCEPT !.dec = Larger(@ + 1, fetch + f + FetchToDecode)],
                                          !.loads = <<>>, !.stores = <<>>, !.branch = NoBranch], a)
    BY <1>6
  <1>8. f \in Nat
    <2>1. work.next \in setup.bbls
      BY <1>6 DEF IInv, CoreTypes
    <2>2. Bytes(work.next) \in Nat
      BY <1>0, <2>1, SetupsSupported
    <2>3. Fetches(work.next) \subseteq Nat
      BY <1>0, <2>2, FetchesNatural
    <2> QED
      BY <2>3
  <1>9. PICK q : q = core.p
    OBVIOUS
  <1>10. q = [k \in PipeFields |-> q[k]] /\ Backend(q) /\ q.dec \in Int
    BY <1>0, <1>9 DEF Fit, Window, Moving, Backend
  <1>11. /\ Still(q, p) /\ p.dec = q.dec /\ p.rob = q.rob /\ p.lq = q.lq /\ p.sq = q.sq /\ p.uq = q.uq
         /\ p.reg = q.reg /\ p.fwd = q.fwd /\ p.st = q.st /\ p.sta = q.sta /\ p.rf = q.rf /\ p.iss = q.iss
    <2>1. CASE br = NoBranch
      <3>1. p = q
        BY <1>2, <1>9, <2>1
      <3> QED
        BY <1>10, <3>1 DEF Still
    <2>2. CASE br # NoBranch
      <3>1. p = Predict(q, br.pc, br.taken)
        BY <1>2, <1>9, <2>2
      <3> QED
        BY <1>10, <3>1 DEF Still, PipeFields, Predict
    <2> QED
      BY <2>1, <2>2
  <1>12. PICK d \in Int : d = Larger(p.dec + 1, fetch + f + FetchToDecode)
    <2>1. FetchToDecode \in Int /\ work.last \in Int /\ p.dec \in Int
      BY <1>0, <1>10, <1>11, Sizes DEF WorkOf
    <2>2. fetch \in Int
      BY <1>4, <2>1
    <2>3. p.dec + 1 \in Int /\ fetch + f + FetchToDecode \in Int
      BY <1>8, <2>1, <2>2
    <2> QED
      BY <2>3, LargerIs
  <1>13. PICK e : e = [p EXCEPT !.dec = d]
    OBVIOUS
  <1>14. /\ Still(q, e) /\ e.dec = d /\ e.rob = q.rob /\ e.lq = q.lq /\ e.sq = q.sq /\ e.uq = q.uq
         /\ e.reg = q.reg /\ e.fwd = q.fwd /\ e.st = q.st /\ e.sta = q.sta /\ e.rf = q.rf /\ e.iss = q.iss
    BY <1>11, <1>13 DEF Still, PipeFields
  <1>15. Backend(e) /\ Kept(q, e)
    BY <1>10, <1>14 DEF Backend, Kept
  <1>16. Follows(core.p, e, SlotsOf(ops)) /\ e.cur = core.p.cur
    BY <1>0, <1>9, <1>14, <1>15, StillFollows DEF Still
  <1>17. PICK c : c = [core EXCEPT !.p = e, !.loads = <<>>, !.stores = <<>>, !.branch = NoBranch]
    OBVIOUS
  <1>18. core' = Expect(c, a)
    <2>1. [p EXCEPT !.dec = Larger(@ + 1, fetch + f + FetchToDecode)] = e
      BY <1>11, <1>12, <1>13 DEF Still, PipeFields
    <2> QED
      BY <1>7, <1>17, <2>1
  <1>19. core = [k \in CoreFields |-> core[k]]
    BY <1>0 DEF CoreOf
  <1>20. /\ c = [k \in CoreFields |-> c[k]] /\ c.p = e /\ c.phaseEnd = core.phaseEnd /\ c.prev = core.prev
         /\ c.loads = <<>> /\ c.stores = <<>> /\ c.rec = core.rec
    BY <1>17, <1>19 DEF CoreFields
  <1>21. Fit(c.p, SlotsOf(ops))
    BY <1>16, <1>20 DEF Follows
  <1>22. SameCore(c, core') /\ Follows(c.p, core'.p, SlotsOf(ops)) /\ core'.p.cur = c.p.cur
    BY <1>18, <1>20, <1>21, ExpectIs
  <1>23. CoreOf(core', setup.bbls)
    BY <1>0, <1>20, <1>22, EmptySeq DEF CoreOf, SameCore
  <1>24. Follows(core.p, core'.p, SlotsOf(ops))
    BY <1>16, <1>20, <1>22, FollowsChain
  <1>25. core'.p.cur \in Nat /\ core'.p.cur >= core.p.cur
    BY <1>0, <1>16, <1>20, <1>22
  <1>26. Recording' /\ CoreInPhase'
    BY <1>6, <1>20, <1>22, <1>25, PhaseKept DEF SameCore
  <1>27. WorkOf(work')
    BY <1>6, EmptySeq DEF WorkOf, WorkFields, Idling
  <1> QED
    BY <1>0, <1>6, <1>23, <1>24, <1>26, <1>27, QuietStep

\* The address of an operation.
LEMMA AddressInt ==
    ASSUME IInv, NEW u
    PROVE  Address(u) \in Int
  <1>1. core.loads \in Seq(Int) /\ core.stores \in Seq(Int) /\ work.loads \in Nat /\ work.stores \in Nat
    BY InvFacts DEF CoreOf, WorkOf
  <1>2. work.loads < Len(core.loads) => core.loads[work.loads + 1] \in Int
    <2>1. work.loads < Len(core.loads) => work.loads + 1 \in 1 .. Len(core.loads)
      BY <1>1
    <2> QED
      BY <1>1, <2>1
  <1>3. work.stores < Len(core.stores) => core.stores[work.stores + 1] \in Int
    <2>1. work.stores < Len(core.stores) => work.stores + 1 \in 1 .. Len(core.stores)
      BY <1>1
    <2> QED
      BY <1>1, <2>1
  <1>4. NoAddr \in Int
    BY DEF NoAddr
  <1>5. CASE u.type = "LOAD" /\ work.loads < Len(core.loads)
    BY <1>2, <1>5 DEF Address
  <1>6. CASE u.type = "STORE" /\ work.stores < Len(core.stores)
    BY <1>3, <1>6 DEF Address
  <1>7. CASE ~(u.type = "LOAD" /\ work.loads < Len(core.loads)) /\ ~(u.type = "STORE" /\ work.stores < Len(core.stores))
    BY <1>4, <1>7 DEF Address
  <1> QED
    BY <1>5, <1>6, <1>7

\* SimulateUop: one more operation, in the window and in the history.
LEMMA SimulateUopStep ==
    ASSUME IInv, SimulateUop
    PROVE  IInv'
  <1>0. /\ CoreOf(core, setup.bbls) /\ WorkOf(work) /\ glob \in Nat /\ core.p.cur \in Nat /\ Fit(core.p, SlotsOf(ops))
        /\ setup \in Setups /\ Taken(SlotsOf(ops))
    BY InvFacts
  <1>1. PICK u : u = Head(work.uops)
    OBVIOUS
  <1>2. PICK a : a = Address(u)
    OBVIOUS
  <1>3. /\ st = "uops" /\ st' = st /\ work.uops # <<>> /\ setup' = setup /\ glob' = glob
        /\ \E lat \in (IF a = NoAddr THEN {0} ELSE setup.lats) : \E x \in {RunUop(core.p, u, work.dec, a, lat)} :
              /\ core' = Expect([core EXCEPT !.p = x.p], x.p.cur <= x.at)
              /\ work' = [work EXCEPT !.uops = Tail(@), !.dec = u.dec, !.last = x.commit,
                                      !.loads = @ + (IF u.type = "LOAD" THEN 1 ELSE 0),
                                      !.stores = @ + (IF u.type = "STORE" THEN 1 ELSE 0)]
              /\ ops' = Append(ops, [u |-> u, addr |-> a, slot |-> x.slot, at |-> x.at,
                                     commit |-> x.commit, ret |-> x.p.rob.cyc])
    BY <1>1, <1>2, ZenonT(60) DEF SimulateUop
  <1>3a. PICK lat \in (IF a = NoAddr THEN {0} ELSE setup.lats) : \E x \in {RunUop(core.p, u, work.dec, a, lat)} :
              /\ core' = Expect([core EXCEPT !.p = x.p], x.p.cur <= x.at)
              /\ work' = [work EXCEPT !.uops = Tail(@), !.dec = u.dec, !.last = x.commit,
                                      !.loads = @ + (IF u.type = "LOAD" THEN 1 ELSE 0),
                                      !.stores = @ + (IF u.type = "STORE" THEN 1 ELSE 0)]
              /\ ops' = Append(ops, [u |-> u, addr |-> a, slot |-> x.slot, at |-> x.at,
                                     commit |-> x.commit, ret |-> x.p.rob.cyc])
    BY <1>3
  <1>4. PICK x \in {RunUop(core.p, u, work.dec, a, lat)} :
              /\ core' = Expect([core EXCEPT !.p = x.p], x.p.cur <= x.at)
              /\ work' = [work EXCEPT !.uops = Tail(@), !.dec = u.dec, !.last = x.commit,
                                      !.loads = @ + (IF u.type = "LOAD" THEN 1 ELSE 0),
                                      !.stores = @ + (IF u.type = "STORE" THEN 1 ELSE 0)]
              /\ ops' = Append(ops, [u |-> u, addr |-> a, slot |-> x.slot, at |-> x.at,
                                     commit |-> x.commit, ret |-> x.p.rob.cyc])
    BY <1>3a
  <1>5. /\ u \in Uops /\ a \in Int /\ lat \in Nat /\ work.dec \in Int
        /\ work = [f \in WorkFields |-> work[f]] /\ work.uops \in Seq(Uops) /\ work.loads \in Nat /\ work.stores \in Nat
    <2>1. /\ work.uops \in Seq(Uops) /\ work.dec \in Int /\ work.loads \in Nat /\ work.stores \in Nat
          /\ work = [f \in WorkFields |-> work[f]]
      BY <1>0 DEF WorkOf
    <2>2. u \in Uops
      <3>1. work.uops # <<>>
        BY <1>3
      <3> QED
        BY <1>1, <2>1, <3>1
    <2>3. a \in Int
      BY <1>2, AddressInt
    <2>4. lat \in Nat
      <3>1. setup.lats \subseteq Nat
        BY <1>0, SetupsSupported
      <3> QED
        BY <3>1
    <2> QED
      BY <2>1, <2>2, <2>3, <2>4
  <1>6. PICK e : e = [u |-> u, addr |-> a, slot |-> x.slot, at |-> x.at, commit |-> x.commit, ret |-> x.p.rob.cyc]
    OBVIOUS
  <1>7. ops \in Seq(Events) /\ Len(ops) \in Nat /\ Ordered(core.p, ops) /\ Buffered(core.p, ops) /\ Backend(core.p)
    <2>1. ops \in Seq(Events)
      BY DEF IInv, CoreTypes
    <2> QED
      BY <2>1 DEF IInv
  <1>8. PICK s : s = SlotsOf(ops)
    OBVIOUS
  <1>9. PICK n \in Nat : n = Len(ops) + 1
    BY <1>7
  <1>10. PICK t : t = [i \in DOMAIN s \cup {n} |-> IF i = n THEN x.slot ELSE s[i]]
    OBVIOUS
  <1>11. AndOne(s, t, n, x.slot)
    <2>1. n \notin DOMAIN s
      BY <1>7, <1>8, <1>9 DEF SlotsOf
    <2> QED
      BY <1>10, <2>1 DEF AndOne
  <1>12. Fit(x.p, t) /\ Ran(core.p, x, u, a) /\ \A i \in DOMAIN s : t[i] # t[n]
    <2>1. PICK dec \in Int : dec = work.dec
      BY <1>5
    <2>2. x = RunUop(core.p, u, dec, a, lat)
      BY <1>4, <2>1
    <2>3. Taken(s) /\ Fit(core.p, s)
      BY <1>0, <1>8
    <2> QED
      BY <1>5, <1>11, <2>2, <2>3, RunUopRan
  <1>13. e \in Events /\ Entry(e, u, a, x)
    <2>1. x.slot \in Nat \X Nat /\ x.at \in Int /\ x.commit \in Int
      BY <1>12 DEF Ran
    <2>2. x.p.rob.cyc \in Int
      BY <1>12 DEF Fit, Backend, Buffers
    <2>3. e \in Events
      BY <1>5, <1>6, <2>1, <2>2 DEF Events
    <2> QED
      BY <1>6, <2>3 DEF Entry
  <1>14. Extended(ops, ops', e)
    <2>1. ops' = Append(ops, e)
      BY <1>4, <1>6
    <2> QED
      BY <1>7, <1>13, <2>1, AppendIs
  <1>15. SlotsOf(ops') = t
    <2>1. AndOne(SlotsOf(ops), SlotsOf(ops'), Len(ops) + 1, e.slot)
      BY <1>14, SlotsAppend
    <2>2. AndOne(s, SlotsOf(ops'), n, x.slot)
      BY <1>6, <1>8, <1>9, <2>1
    <2>3. DOMAIN SlotsOf(ops') = DOMAIN s \cup {n} /\ \A i \in DOMAIN s \cup {n} : SlotsOf(ops')[i] = t[i]
      BY <1>11, <2>2 DEF AndOne
    <2>4. SlotsOf(ops') = [i \in DOMAIN SlotsOf(ops') |-> SlotsOf(ops')[i]]
      BY DEF SlotsOf
    <2> QED
      BY <1>10, <2>3, <2>4
  <1>16. PICK c : c = [core EXCEPT !.p = x.p]
    OBVIOUS
  <1>17. /\ c = [f \in CoreFields |-> c[f]] /\ c.p = x.p /\ c.phaseEnd = core.phaseEnd /\ c.prev = core.prev
         /\ c.loads = core.loads /\ c.stores = core.stores /\ c.rec = core.rec
    BY <1>0, <1>16 DEF CoreFields, CoreOf
  <1>18. PICK ok : ok = (x.p.cur <= x.at)
    OBVIOUS
  <1>19. core' = Expect(c, ok)
    BY <1>4, <1>16, <1>18
  <1>20. Fit(c.p, t)
    BY <1>12, <1>17
  <1>21. SameCore(c, core') /\ Follows(c.p, core'.p, t) /\ core'.p.cur = c.p.cur
    BY <1>17, <1>19, <1>20, ExpectIs
  <1>22. CoreOf(core', setup.bbls)
    BY <1>0, <1>17, <1>21 DEF CoreOf, SameCore
  <1>23. WorkOf(work') /\ work'.next = work.next
    <2>1. Tail(work.uops) \in Seq(Uops) /\ u.dec \in Int /\ x.commit \in Int
      <3>1. work.uops # <<>>
        BY <1>3
      <3>2. Tail(work.uops) \in Seq(Uops)
        BY <1>5, <3>1
      <3>3. u.dec \in Int
        BY <1>5 DEF Uops
      <3>4. x.commit \in Int
        BY <1>12 DEF Ran
      <3> QED
        BY <3>2, <3>3, <3>4
    <2>2. PICK l \in Nat, k \in Nat : /\ l = work.loads + (IF u.type = "LOAD" THEN 1 ELSE 0)
                                      /\ k = work.stores + (IF u.type = "STORE" THEN 1 ELSE 0)
      <3>1. /\ work.loads + (IF u.type = "LOAD" THEN 1 ELSE 0) \in Nat
            /\ work.stores + (IF u.type = "STORE" THEN 1 ELSE 0) \in Nat
        BY <1>5
      <3> QED
        BY <3>1
    <2>3. /\ work' = [f \in WorkFields |-> work'[f]] /\ work'.uops = Tail(work.uops) /\ work'.dec = u.dec
          /\ work'.last = x.commit /\ work'.loads = l /\ work'.stores = k /\ work'.next = work.next
      BY <1>4, <1>5, <2>2 DEF WorkFields
    <2> QED
      BY <2>1, <2>2, <2>3 DEF WorkOf
  <1>24. CoreTypes'
    <2>1. ops' \in Seq(Events)
      BY <1>14 DEF Extended
    <2>2. work.next \in setup.bbls /\ setup.kind = "OOO"
      BY <1>3 DEF IInv, CoreTypes
    <2> QED
      BY <1>0, <1>3, <1>22, <1>23, <2>1, <2>2 DEF CoreTypes
  <1>25. Window(core'.p) /\ Backend(core'.p) /\ Scheduled(core'.p, SlotsOf(ops'))
    BY <1>15, <1>21 DEF Follows, Fit
  <1>26. Backend(x.p)
    BY <1>12 DEF Fit
  <1>27. Ordered(x.p, ops')
    BY <1>5, <1>7, <1>12, <1>13, <1>14, <1>26, OrderedStep
  <1>28. Buffered(x.p, ops')
    BY <1>7, <1>12, <1>13, <1>14, BufferedStep
  <1>29. Ordered(core'.p, ops') /\ Buffered(core'.p, ops')
    BY <1>17, <1>21, <1>27, <1>28, KeptHolds DEF Follows
  <1>30. OrderKept'
    <2>1. LastOrdered(ops')
      BY <1>5, <1>7, <1>12, <1>13, <1>14, LastOrderedStep
    <2> QED
      BY <2>1 DEF OrderKept, LastOrdered, Is
  <1>31. BuffersBounded'
    <2>1. LastBounded(ops')
      BY <1>7, <1>12, <1>13, <1>14, <1>28, LastBoundedStep
    <2> QED
      BY <2>1 DEF BuffersBounded, LastBounded, LastWaits, Waits, Is
  <1>32. LastOnly'
    <2>1. Len(ops') = n /\ Len(ops') - 1 = Len(ops) /\ DOMAIN ops' = 1 .. n
      BY <1>7, <1>9, <1>14 DEF Extended
    <2>2. \A i \in 1 .. n : t[i] = ops'[i].slot
      BY <1>15, <2>1 DEF SlotsOf
    <2>3. DOMAIN s = 1 .. Len(ops) /\ n \in 1 .. n /\ \A i \in 1 .. Len(ops) : i \in 1 .. n
      BY <1>7, <1>8, <1>9 DEF SlotsOf
    <2> QED
      BY <1>12, <2>1, <2>2, <2>3 DEF LastOnly
  <1>33. core'.p.cur \in Nat /\ core'.p.cur >= core.p.cur
    <2>1. core.p.cur <= x.p.cur
      BY <1>12 DEF Ran
    <2>2. x.p.cur \in Nat
      BY <1>12 DEF Fit, Window, Moving
    <2> QED
      BY <1>0, <1>17, <1>21, <2>1, <2>2
  <1>34. Recording' /\ CoreInPhase'
    BY <1>3, <1>17, <1>21, <1>33, PhaseKept DEF SameCore
  <1>35. setup'.kind = "OOO"
    BY <1>3 DEF IInv, CoreTypes
  <1> QED
    BY <1>24, <1>25, <1>29, <1>30, <1>31, <1>32, <1>34, <1>35 DEF IInv

-----------------------------------------------------------------------------
(* The theorems *)

\* A new buffer.
LEMMA NewBufferIs ==
    ASSUME NEW size \in Nat \ {0}
    PROVE  NewBuffer(size) \in Buffers(size) /\ NewBuffer(size).n = 1
  BY DEF NewBuffer, Buffers

\* A new core has an empty window and no history.
LEMMA InitInv ==
    ASSUME Init
    PROVE  IInv
  <1>1. PICK p : p = NewPipeline({b.addr : b \in setup.bbls})
    OBVIOUS
  <1>2. /\ setup \in Setups /\ work = Idling /\ st = "out" /\ glob = 0 /\ ops = <<>>
        /\ core = [p |-> p, phaseEnd |-> 0, prev |-> None, loads |-> <<>>, stores |-> <<>>, branch |-> NoBranch,
                   rec |-> "HALTED"]
    BY <1>1 DEF Init
  <1>3. /\ p = [f \in PipeFields |-> p[f]]
        /\ p.cur = 0 /\ p.dec = FetchToDecode + 1 /\ p.cw = [k \in 0 .. H - 1 |-> Idle] /\ p.nw = p.cw /\ p.ub = <<>>
        /\ p.pos = 0 /\ p.occ = 0 /\ p.rob = NewBuffer(RobSize) /\ p.lq = NewBuffer(LoadQueueSize)
        /\ p.sq = NewBuffer(StoreQueueSize) /\ p.uq = NewBuffer(UopQueueSize) /\ p.reg = [r \in Registers |-> 0]
        /\ p.fwd = [k \in 0 .. FwdEntries - 1 |-> [addr |-> NoAddr, cyc |-> 0]]
        /\ p.st = 0 /\ p.sta = 0 /\ p.rf = 0 /\ p.iss = 0
    BY <1>1 DEF NewPipeline, PipeFields
  <1>4. CoreTypes
    <2>1. CoreOf(core, setup.bbls) /\ WorkOf(work)
      BY <1>2, EmptySeq DEF CoreOf, CoreFields, WorkOf, WorkFields, Idling
    <2>2. <<>> \in Seq(Events)
      OBVIOUS
    <2> QED
      BY <1>2, <2>1, <2>2 DEF CoreTypes
  <1>5. Window(p)
    <2>1. p.cw \in [0 .. H - 1 -> Slots] /\ p.nw \in [0 .. H - 1 -> Slots]
      BY <1>3, IdleSlot
    <2>2. p.ub \in [DOMAIN p.ub -> Slots] /\ DOMAIN p.ub \in SUBSET Nat /\ IsFiniteSet(DOMAIN p.ub)
      <3>1. DOMAIN p.ub = {}
        BY <1>3
      <3>2. IsFiniteSet(DOMAIN p.ub)
        BY <3>1, FS_EmptySet
      <3>3. p.ub = [k \in {} |-> 0]
        BY <1>3
      <3> QED
        BY <3>1, <3>2, <3>3
    <2>3. p.cur \in Nat /\ p.pos \in 0 .. H /\ p.occ \in Int /\ p.pos # H /\ \A k \in 0 .. p.pos - 1 : p.cw[k] = Idle
      BY <1>3, HAssumption
    <2> QED
      BY <1>3, <2>1, <2>2, <2>3 DEF Window, Moving
  <1>6. Backend(p)
    <2>1. /\ p.rob \in Buffers(RobSize) /\ p.lq \in Buffers(LoadQueueSize) /\ p.sq \in Buffers(StoreQueueSize)
          /\ p.uq \in Buffers(UopQueueSize)
      BY <1>3, Sizes, NewBufferIs
    <2>2. p.fwd \in [0 .. FwdEntries - 1 -> [addr : Int, cyc : Int]]
      <3>1. [addr |-> NoAddr, cyc |-> 0] \in [addr : Int, cyc : Int]
        BY DEF NoAddr
      <3> QED
        BY <1>3, <3>1
    <2>3. p.reg \in [Registers -> Int] /\ p.dec \in Int
      BY <1>3, Sizes, SMTT(30)
    <2> QED
      BY <1>3, <2>1, <2>2, <2>3 DEF Backend
  <1>7. Unused(p)
    BY <1>3 DEF Unused
  <1>8. Scheduled(p, SlotsOf(ops))
    <2>1. SlotsOf(ops) = <<>>
      BY <1>2 DEF SlotsOf
    <2>2. \A d \in Nat : At(SlotsOf(ops), d) = {} /\ From(SlotsOf(ops), d) = {}
      BY <2>1 DEF At, From
    <2>3. ASSUME NEW d \in Nat, d >= p.cur PROVE SlotAt(p, d) = Idle
      <3>1. d - p.cur + p.pos = d
        BY <1>3
      <3>2. d < H => d \in 0 .. H - 1
        BY HAssumption
      <3>3. ~(d < H) /\ d < 2 * H => d - H \in 0 .. H - 1
        BY HAssumption
      <3>4. d \notin DOMAIN p.ub
        BY <1>3
      <3>5. \A i \in 0 .. H - 1 : p.cw[i] = Idle /\ p.nw[i] = Idle
        BY <1>3, ZenonT(60)
      <3> QED
        BY <3>1, <3>2, <3>3, <3>4, <3>5 DEF SlotAt
    <2>4. Cardinality({}) = 0
      BY FS_EmptySet
    <2> QED
      BY <1>3, <2>2, <2>3, <2>4, IdleSlot DEF Scheduled
  <1>9. Len(ops) = 0 /\ 1 .. Len(ops) = {}
    BY <1>2
  <1>10. Ordered(p, ops)
    BY <1>9 DEF Ordered
  <1>11. Buffered(p, ops)
    <2>1. p.rob.n \in 0 .. RetireWidth
      <3>1. p.rob.n = 1
        BY <1>3, Sizes, NewBufferIs
      <3> QED
        BY <3>1, Sizes
    <2>2. Retired(p.rob, ops)
      BY <1>9, <2>1 DEF Retired
    <2> QED
      BY <1>9, <2>2 DEF Buffered, Queued
  <1>12. LastOnly /\ OrderKept /\ BuffersBounded
    <2>1. ~(Len(ops) > 1) /\ 1 .. Len(ops) - 1 = {}
      BY <1>9
    <2> QED
      BY <2>1 DEF LastOnly, OrderKept, BuffersBounded
  <1>13. Recording /\ CoreInPhase
    BY <1>2 DEF Recording, CoreInPhase
  <1>14. core.p = p
    BY <1>2
  <1> QED
    BY <1>2, <1>4, <1>5, <1>6, <1>7, <1>8, <1>10, <1>11, <1>12, <1>13, <1>14 DEF IInv

\* Nothing changes.
LEMMA StutterStep ==
    ASSUME IInv, UNCHANGED vars
    PROVE  IInv'
  <1>1. setup' = setup /\ core' = core /\ work' = work /\ st' = st /\ glob' = glob /\ ops' = ops
    BY DEF vars
  <1>2. CoreOf(core, setup.bbls) /\ WorkOf(work) /\ Fit(core.p, SlotsOf(ops)) /\ glob \in Nat /\ Recording /\ CoreInPhase
    BY InvFacts
  <1>3. Recording' /\ CoreInPhase'
    BY <1>1, <1>2 DEF Recording, Recorded, CoreInPhase, PhaseLength
  <1>4. Follows(core.p, core'.p, SlotsOf(ops))
    BY <1>1, <1>2, FollowsSelf
  <1>5. st' = "uops" => work'.next \in setup.bbls /\ setup.kind = "OOO"
    BY <1>1 DEF IInv, CoreTypes
  <1> QED
    BY <1>1, <1>2, <1>3, <1>4, <1>5, QuietStep

\* The invariant: the window, the buffers and the scoreboard of a pipeline are the ones
\* that its history of operations leaves, whatever ran, advanced, jumped or switched.
THEOREM PipelineIsExact == Spec => []IInv
  <1>1. Init => IInv
    BY InitInv
  <1>2. IInv /\ [Next]_vars => IInv'
    <2> SUFFICES ASSUME IInv, [Next]_vars PROVE IInv'
      OBVIOUS
    <2>1. ASSUME NEW b \in setup.bbls, InOrderBbl(b) PROVE IInv'
      BY <2>1, InOrderBblStep
    <2>2. ASSUME NEW b \in setup.bbls, FirstBbl(b) PROVE IInv'
      BY <2>2, FirstBblStep
    <2>3. ASSUME NEW b \in setup.bbls, OOOBbl(b) PROVE IInv'
      BY <2>3, OOOBblStep
    <2>4. CASE SimulateUop
      BY <2>4, SimulateUopStep
    <2>5. CASE Frontend
      BY <2>5, FrontendStep
    <2>6. ASSUME NEW call \in {"load", "predLoad", "store", "predStore"}, NEW executes \in BOOLEAN, Access(call, executes)
          PROVE  IInv'
      BY <2>6, AccessStep
    <2>7. ASSUME NEW taken \in BOOLEAN, Branch(taken) PROVE IInv'
      BY <2>7, BranchStep
    <2>8. CASE PhaseLoop
      BY <2>8, PhaseLoopStep
    <2>9. CASE EndPhase
      BY <2>9, EndPhaseStep
    <2>10. CASE Resume
      BY <2>10, ResumeStep
    <2>11. CASE Leave
      BY <2>11, LeaveStep
    <2>12. CASE Join
      BY <2>12, JoinStep
    <2>13. ASSUME NEW t \in Tids, Handoff(t) PROVE IInv'
      BY <2>13, HandoffStep
    <2>14. ASSUME NEW t \in Tids, LeaveTo(t) PROVE IInv'
      BY <2>14, LeaveToStep
    <2>15. ASSUME NEW t \in Tids, Steal(t) PROVE IInv'
      BY <2>15, StealStep
    <2>16. CASE UNCHANGED vars
      BY <2>16, StutterStep
    <2> QED
      BY <2>1, <2>2, <2>3, <2>4, <2>5, <2>6, <2>7, <2>8, <2>9, <2>10, <2>11, <2>12, <2>13, <2>14, <2>15, <2>16 DEF Next
  <1> QED
    BY <1>1, <1>2, PTL DEF Spec

\* WindowExact: the occupancy of the window counts the operations that are dispatched
\* from curCycle on, and they have their ports, whatever blocks of cycles were rotated,
\* and jumped over.
THEOREM WindowIsExact == Spec => []WindowExact
  <1>1. IInv => WindowExact
    <2> SUFFICES ASSUME IInv PROVE WindowExact
      OBVIOUS
    <2>1. /\ Scheduled(core.p, SlotsOf(ops)) /\ core.p.cur \in Nat /\ Taken(SlotsOf(ops))
      BY InvFacts DEF Fit
    <2>2. \A i \in DOMAIN ops : SlotsOf(ops)[i] = ops[i].slot /\ ops[i].slot[1] \in Nat
      BY <2>1 DEF SlotsOf, Taken
    <2>3. DOMAIN SlotsOf(ops) = DOMAIN ops
      BY DEF SlotsOf
    <2>4. From(SlotsOf(ops), core.p.cur) = {i \in DOMAIN ops : ops[i].slot[1] >= core.p.cur}
      BY <2>2, <2>3 DEF From
    <2>5. core.p.occ = Cardinality({i \in DOMAIN ops : ops[i].slot[1] >= core.p.cur})
      BY <2>1, <2>4 DEF Scheduled
    <2>6. ASSUME NEW i \in DOMAIN ops, ops[i].slot[1] >= core.p.cur
          PROVE  ops[i].slot[2] \in SlotAt(core.p, ops[i].slot[1]).units
      <3>1. PICK c \in Nat : c = ops[i].slot[1]
        BY <2>2
      <3>2. i \in At(SlotsOf(ops), c)
        BY <2>2, <2>3, <3>1 DEF At
      <3>3. SlotsOf(ops)[i][2] \in SlotAt(core.p, c).units
        BY <2>1, <2>6, <3>1, <3>2 DEF Scheduled
      <3> QED
        BY <2>2, <3>1, <3>3
    <2>7. LastOnly
      BY DEF IInv
    <2> QED
      BY <2>5, <2>6, <2>7 DEF WindowExact, LastOnly
  <1> QED
    BY <1>1, PipelineIsExact, PTL

\* OrderKept: an operation waits for its operands, for the addresses of the stores
\* before it and for fences, and a load has the data of the last store.
THEOREM OrderIsKept == Spec => []OrderKept
  <1>1. IInv => OrderKept
    BY DEF IInv
  <1> QED
    BY <1>1, PipelineIsExact, PTL

\* BuffersBounded: operations retire in order, at most one more than the width of the
\* machine in a cycle (as markRetire() counts), and none enters a full reorder
\* buffer, load queue or store queue.
THEOREM BuffersAreBounded == Spec => []BuffersBounded
  <1>1. IInv => BuffersBounded
    BY DEF IInv
  <1> QED
    BY <1>1, PipelineIsExact, PTL

\* CoreInPhase: a core compares its clock with the end of the current phase, after any
\* number of phases in a block, handoffs and joins.
THEOREM CoreStaysInPhase == Spec => []CoreInPhase
  <1>1. IInv => CoreInPhase
    BY DEF IInv
  <1> QED
    BY <1>1, PipelineIsExact, PTL
=============================================================================
