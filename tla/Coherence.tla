------------------------------ MODULE Coherence ------------------------------
(***************************************************************************)
(* The MESI hierarchy (src/src/coherence_ctrls.h/.cpp, cache.h/.cpp):      *)
(* terminal L1s under L2s under the skewed banks of the last-level cache,  *)
(* over memory.  Every L1 is driven by one thread, which descends through  *)
(* the levels; going up it releases the lock of the child before it takes  *)
(* those of the parent, so that an invalidation may come in between.       *)
(*                                                                         *)
(* One action is what a thread does from one such window to the next: an   *)
(* L1 section, an L2 section (under the L2's tcc and bcc locks), or an LLC *)
(* section (under the lock of the skews) with the rest of the L2 and L1    *)
(* sections, which the thread relocks before it unlocks the LLC.  Within a *)
(* section the locks of the caches below are taken one at a time, but each *)
(* is touched once: what its own thread does before or after commutes.     *)
(***************************************************************************)
EXTENDS CacheTopology

Caches == L1s \cup L2s \cup Banks

VARIABLES
    cache,      \* cache[c][w]: array, bcc and tcc contents of line w of cache c
    pc, op,     \* where each L1's thread is, and its request: see Ops
    dirty       \* history: the lines written since memory was last updated

vars == <<cache, pc, op, dirty>>

MESIStates == {"I", "S", "E", "M"}

NoLine == [addr |-> NoAddr, state |-> "I", sharers |-> {}, numSharers |-> 0, exclusive |-> FALSE]

\* "idle"; about to do a PUT or a GET at the L2; about to do one at the LLC,
\* holding the L2's tcc lock.
ThreadPcs == {"idle", "put1", "get1", "put2", "get2"}

\* w1, w2: the lines in the L1 and in the L2 of the pending request, and the
\* initialState i1, i2 of it.
NoOp == [addr |-> NoAddr, type |-> "GETS", w1 |-> 0, i1 |-> "I", w2 |-> 0, i2 |-> "I"]

Init ==
    /\ cache = [c \in Caches |-> [w \in Ways[c] |-> NoLine]]
    /\ pc = [c \in L1s |-> "idle"]
    /\ op = [c \in L1s |-> NoOp]
    /\ dirty = {}

-----------------------------------------------------------------------------
(***************************************************************************)
(* The controllers, on values h of cache.                                  *)
(***************************************************************************)

lookup(h, c, a) == {w \in Ways[c] : h[c][w].addr = a}

InBanks(h, a) == {bw \in UNION {{b} \X Ways[b] : b \in Banks} : h[bw[1]][bw[2]].addr = a}

SetState(h, c, w, s) == [h EXCEPT ![c][w].state = s]

postinsert(h, c, w, a) == [h EXCEPT ![c][w].addr = a]

isExclusive(e) == e.numSharers = 1 /\ e.exclusive

BugCheckForMESIRace(type, state, initialState) == type

\* The type of the access after the race check; "skip": it has been done.
CheckForMESIRace(type, state, initialState) ==
    IF state = initialState \/ type \in {"GETS", "GETX"} THEN type
    ELSE IF state = "I" THEN "skip" ELSE "PUTS"

PutType(state) == IF state = "M" THEN "PUTX" ELSE "PUTS"

\* The children to which e sends an invalidation or a downgrade ...
Targets(e, type) == IF type = "INVX" /\ ~isExclusive(e) THEN {} ELSE e.sharers

\* ... and the caches it reaches, the children of an L2 included.
Reached(h, c, w, type) ==
    LET a == h[c][w].addr
        S == Targets(h[c][w], type)
    IN  S \cup UNION {UNION {Targets(h[d][v], type) : v \in lookup(h, d, a)} : d \in S}

\* What sendInvalidates() does to the directory entry it is called for.
InvDirectory(e, type) ==
    IF type = "INV" THEN [e EXCEPT !.sharers = {}, !.numSharers = 0]
    ELSE [e EXCEPT !.exclusive = @ /\ ~isExclusive(e)]

\* processInv(): the same of a child, and its bcc's processInval().
InvLine(e, type) ==
    [InvDirectory(e, type) EXCEPT !.state = IF type = "INV" THEN "I" ELSE "S"]

sendInvalidates(h, c, w, type) ==
    LET a == h[c][w].addr
        R == Reached(h, c, w, type)
    IN  [d \in Caches |-> [v \in Ways[d] |->
            IF d \in R /\ h[d][v].addr = a THEN InvLine(h[d][v], type)
            ELSE IF d = c /\ v = w THEN InvDirectory(h[d][v], type)
            ELSE h[d][v]]]

BugInducedWriteback(h, c, w, type) ==                   \* only of the children themselves
    \E d \in Targets(h[c][w], type) : \E v \in lookup(h, d, h[c][w].addr) : h[d][v].state = "M"

\* reqWriteback: some cache that was reached had the line in M.
InducedWriteback(h, c, w, type) ==
    \E d \in Reached(h, c, w, type) : \E v \in lookup(h, d, h[c][w].addr) : h[d][v].state = "M"

\* tcc and bcc processEviction(), up to the PUT: the state of the line tells
\* which, and I that none is needed.
Evicted(h, c, w) ==
    LET out == sendInvalidates(h, c, w, "INV")
    IN  IF InducedWriteback(h, c, w, "INV") THEN SetState(out, c, w, "M") ELSE out

\* processAccess() of a PUT, in line w of c, from line v of its child d.
PutAccess(h, c, w, type, d, v) ==
    [h EXCEPT ![c][w].state = IF type = "PUTX" THEN "M" ELSE @,
              ![c][w].sharers = @ \ {d}, ![c][w].numSharers = @ - 1,
              ![d][v].state = "I"]

BugGetS(h, c, w, noexcl, d, v) ==                       \* E given although c has only S
    IF h[c][w].numSharers = 0 /\ ~noexcl
    THEN [h EXCEPT ![c][w].sharers = {d}, ![c][w].numSharers = 1,
                   ![c][w].exclusive = TRUE, ![d][v].state = "E"]
    ELSE [sendInvalidates(h, c, w, "INVX") EXCEPT
            ![c][w].state = IF InducedWriteback(h, c, w, "INVX") THEN "M" ELSE @,
            ![c][w].sharers = @ \cup {d}, ![c][w].numSharers = @ + 1,
            ![c][w].exclusive = FALSE, ![d][v].state = "S"]

\* tcc.processAccess() of a GETS, and processWritebackOnAccess().
GetS(h, c, w, noexcl, d, v) ==
    IF h[c][w].numSharers = 0 /\ h[c][w].state \in {"E", "M"} /\ ~noexcl
    THEN [h EXCEPT ![c][w].sharers = {d}, ![c][w].numSharers = 1,
                   ![c][w].exclusive = TRUE, ![d][v].state = "E"]
    ELSE [sendInvalidates(h, c, w, "INVX") EXCEPT
            ![c][w].state = IF InducedWriteback(h, c, w, "INVX") THEN "M" ELSE @,
            ![c][w].sharers = @ \cup {d}, ![c][w].numSharers = @ + 1,
            ![c][w].exclusive = FALSE, ![d][v].state = "S"]

\* The same of a GETX; c has the line exclusively.
GetX(h, c, w, d, v) ==
    LET own == [h EXCEPT ![c][w].sharers = @ \ {d},
                         ![c][w].numSharers = IF d \in h[c][w].sharers THEN @ - 1 ELSE @]
    IN  [sendInvalidates(own, c, w, "INV") EXCEPT
            ![c][w].state = IF InducedWriteback(own, c, w, "INV") THEN "M" ELSE @,
            ![c][w].sharers = @ \cup {d}, ![c][w].numSharers = @ + 1,
            ![c][w].exclusive = TRUE, ![d][v].state = "M"]

\* bcc.processAccess() of a GET that needs nothing from above, then tcc's.
GetAccess(h, c, w, type, noexcl, d, v) ==
    IF type = "GETS" THEN GetS(h, c, w, noexcl, d, v)
    ELSE GetX(SetState(h, c, w, "M"), c, w, d, v)

\* Does a line in this state have to ask the parent for the access?
NeedsParent(state, type) == state = "I" \/ (state = "S" /\ type = "GETX")

-----------------------------------------------------------------------------
(***************************************************************************)
(* The threads.                                                            *)
(***************************************************************************)

tccFree(p) == \A c \in L1s : parent[c] = p => pc[c] \notin {"put2", "get2"}

\* The rest of the access, once line w of the L2 has the permission: all the
\* way back to the core.  A GETX writes the line.
Complete(h, c, w) ==
    /\ cache' = GetAccess(h, parent[c], w, op[c].type, c \in IFetch, c, op[c].w1)
    /\ pc' = [pc EXCEPT ![c] = "idle"]
    /\ op' = [op EXCEPT ![c] = NoOp]

Written(c) == IF op[c].type = "GETX" THEN {op[c].addr} ELSE {}

\* bcc.processAccess() at line w of the L2: ask the LLC, or complete.
ProcessAtL2(h, c, w) ==
    LET s == h[parent[c]][w].state
    IN  \/ /\ NeedsParent(s, op[c].type)
           /\ cache' = h
           /\ pc' = [pc EXCEPT ![c] = "get2"]
           /\ op' = [op EXCEPT ![c].w2 = w, ![c].i2 = s]
           /\ dirty' = dirty
        \/ /\ ~NeedsParent(s, op[c].type)
           /\ Complete(h, c, w)
           /\ dirty' = dirty \cup Written(c)

\* L1 section: a store to a line that is E.
SilentUpgrade(c, a) ==
    /\ pc[c] = "idle" /\ c \notin IFetch
    /\ \E w \in lookup(cache, c, a) :
         /\ cache[c][w].state = "E"
         /\ cache' = SetState(cache, c, w, "M")
    /\ dirty' = dirty \cup {a}
    /\ UNCHANGED <<pc, op>>

\* L1 section: the line is there, but not with the permission needed.
MissOnPermission(c, a, type) ==
    /\ pc[c] = "idle" /\ (type = "GETX" => c \notin IFetch)
    /\ \E w \in lookup(cache, c, a) :
         /\ NeedsParent(cache[c][w].state, type)
         /\ op' = [op EXCEPT ![c] = [NoOp EXCEPT !.addr = a, !.type = type, !.w1 = w,
                                                 !.i1 = cache[c][w].state]]
    /\ pc' = [pc EXCEPT ![c] = "get1"]
    /\ UNCHANGED <<cache, dirty>>

\* L1 section: the line is not there.  Any line may be replaced; if it is
\* valid it is PUT first, and otherwise the new one is inserted at once.
MissOnLine(c, a, type) ==
    /\ pc[c] = "idle" /\ (type = "GETX" => c \notin IFetch)
    /\ lookup(cache, c, a) = {}
    /\ \E w \in Ways[c] :
         /\ op' = [op EXCEPT ![c] = [NoOp EXCEPT !.addr = a, !.type = type, !.w1 = w,
                                                 !.i1 = cache[c][w].state]]
         /\ \/ /\ cache[c][w].state = "I"
               /\ cache' = postinsert(cache, c, w, a)
               /\ pc' = [pc EXCEPT ![c] = "get1"]
            \/ /\ cache[c][w].state # "I"
               /\ cache' = cache
               /\ pc' = [pc EXCEPT ![c] = "put1"]
    /\ UNCHANGED dirty

\* L2 section of the PUT of the replaced line, and the insertion in the L1.
PutToL2(c) ==
    LET p    == parent[c]
        v    == op[c].w1
        type == CheckForMESIRace(PutType(op[c].i1), cache[c][v].state, op[c].i1)
    IN  /\ pc[c] = "put1" /\ tccFree(p)
        /\ \/ /\ type = "skip"
              /\ cache' = postinsert(cache, c, v, op[c].addr)
           \/ /\ type # "skip"
              /\ \E w \in lookup(cache, p, cache[c][v].addr) :
                   cache' = postinsert(PutAccess(cache, p, w, type, c, v), c, v, op[c].addr)
        /\ pc' = [pc EXCEPT ![c] = "get1"]
        /\ op' = [op EXCEPT ![c].i1 = "I"]
        /\ UNCHANGED dirty

\* L2 section of the GET, if the line is there.
GetHitsL2(c) ==
    /\ pc[c] = "get1" /\ tccFree(parent[c])
    /\ \E w \in lookup(cache, parent[c], op[c].addr) : ProcessAtL2(cache, c, w)

\* L2 section of the GET, if it is not: the line that is replaced is taken
\* from the L1s, and PUT if it was valid.
GetMissesL2(c) ==
    LET p == parent[c]
    IN  /\ pc[c] = "get1" /\ tccFree(p)
        /\ lookup(cache, p, op[c].addr) = {}
        /\ \E v \in Ways[p] :
             LET h == Evicted(cache, p, v)
             IN  \/ /\ h[p][v].state = "I"
                    /\ ProcessAtL2(postinsert(h, p, v, op[c].addr), c, v)
                 \/ /\ h[p][v].state # "I"
                    /\ cache' = h
                    /\ pc' = [pc EXCEPT ![c] = "put2"]
                    /\ op' = [op EXCEPT ![c].w2 = v, ![c].i2 = h[p][v].state]
                    /\ dirty' = dirty

\* LLC section of the PUT of the L2, and the insertion of the line there.
PutToLLC(c) ==
    LET p    == parent[c]
        v    == op[c].w2
        hits == InBanks(cache, cache[p][v].addr)
        type == CheckForMESIRace(PutType(op[c].i2), cache[p][v].state, op[c].i2)
        put  == IF type = "skip" \/ hits = {} THEN {cache}
                ELSE {PutAccess(cache, bw[1], bw[2], type, p, v) : bw \in hits}
    IN  /\ pc[c] = "put2"
        /\ \E h \in put : ProcessAtL2(postinsert(h, p, v, op[c].addr), c, v)

\* bcc.processAccess() of the LLC: memory gives the permission asked for.
Fetched(h, b, w, c) ==
    LET s == h[b][w].state
    IN  IF ~NeedsParent(s, op[c].type) THEN h
        ELSE SetState(h, b, w, IF op[c].type = "GETX" THEN "M" ELSE IF c \in IFetch THEN "S" ELSE "E")

\* LLC section of a GET at line w of bank b, and the rest of the access.
ServeFromLLC(h, c, b, w) ==
    \E got \in {GetAccess(Fetched(h, b, w, c), b, w, op[c].type, c \in IFetch, parent[c], op[c].w2)} :
        Complete(got, c, op[c].w2)

GetHitsLLC(c, b, w) ==
    /\ pc[c] = "get2"
    /\ <<b, w>> \in InBanks(cache, op[c].addr)
    /\ ServeFromLLC(cache, c, b, w)
    /\ dirty' = dirty \cup Written(c)

\* The line is in no bank: it goes to any of them.  The line replaced is taken
\* from the L2s and L1s, and written to memory if it is dirty.
GetMissesLLC(c, b, v) ==
    /\ pc[c] = "get2"
    /\ InBanks(cache, op[c].addr) = {}
    /\ \E h \in {Evicted(cache, b, v)} :
         /\ ServeFromLLC(postinsert(SetState(h, b, v, "I"), b, v, op[c].addr), c, b, v)
         /\ dirty' = (dirty \ (IF h[b][v].state = "M" THEN {h[b][v].addr} ELSE {})) \cup Written(c)

\* The steps of the thread of c below the LLC, and those in the LLC.
Below(c) ==
    \/ \E a \in Addrs : SilentUpgrade(c, a)
    \/ \E a \in Addrs, type \in {"GETS", "GETX"} : MissOnPermission(c, a, type) \/ MissOnLine(c, a, type)
    \/ PutToL2(c) \/ GetHitsL2(c) \/ GetMissesL2(c) \/ PutToLLC(c)

GetFromLLC(c) == \E b \in Banks : \E w \in Ways[b] : GetHitsLLC(c, b, w) \/ GetMissesLLC(c, b, w)

Next == \E c \in L1s : Below(c) \/ GetFromLLC(c)

Spec == Init /\ [][Next]_vars

-----------------------------------------------------------------------------
(***************************************************************************)
(* The refresh of CEASER caches: under the lock of the skews, processed by *)
(* a thread between two of its accesses, line w of bank b moves to line v. *)
(***************************************************************************)

\* evictAddr(), of the entry and of the children: they lose the line, and
\* nothing is written back.
Dropped(h, b, v) ==
    LET a == h[b][v].addr
    IN  [d \in Caches |-> [u \in Ways[d] |->
            IF d \in Reached(h, b, v, "INV") /\ h[d][u].addr = a
            THEN [InvLine(h[d][u], "INV") EXCEPT !.exclusive = FALSE]
            ELSE h[d][u]]]

Refresh(b, w, v) ==
    LET h == Dropped(cache, b, v)
    IN  /\ w # v /\ cache[b][w].addr # NoAddr
        /\ \E c \in L1s : pc[c] = "idle"
        /\ cache' = [h EXCEPT ![b][v] = h[b][w], ![b][w] = NoLine]
        /\ UNCHANGED <<pc, op, dirty>>

-----------------------------------------------------------------------------
(***************************************************************************)
(* Properties.                                                             *)
(***************************************************************************)

Children(c) == IF c \in Banks THEN L2s ELSE IF c \in L2s THEN {d \in L1s : parent[d] = c} ELSE {}

Parents(d) == IF d \in L1s THEN {parent[d]} ELSE Banks

\* The state in which cache c has address a.
StateOf(c, a) ==
    IF \E w \in Ways[c] : cache[c][w].addr = a /\ cache[c][w].state # "I"
    THEN cache[c][CHOOSE w \in Ways[c] : cache[c][w].addr = a /\ cache[c][w].state # "I"].state
    ELSE "I"

\* Lines, requests and program counters have their types.
TypeOK ==
    /\ \A c \in Caches : \A w \in Ways[c] :
         cache[c][w] \in [addr : Addrs \cup {NoAddr}, state : MESIStates,
                          sharers : SUBSET Children(c), numSharers : 0..Cardinality(Children(c)),
                          exclusive : BOOLEAN]
    /\ pc \in [L1s -> ThreadPcs]
    /\ \A c \in L1s : /\ op[c].type \in {"GETS", "GETX"}
                      /\ op[c].i1 \in MESIStates /\ op[c].i2 \in MESIStates
                      /\ pc[c] # "idle" => op[c].addr \in Addrs /\ op[c].w1 \in Ways[c]
                      /\ pc[c] \in {"put2", "get2"} => op[c].w2 \in Ways[parent[c]]
    /\ dirty \subseteq Addrs

\* A directory entry names exactly the children that have the line, and counts
\* them: an invalidation finds the line ("Invalidate on non-existing address"),
\* reaches every copy, and sentInvs == numSharers.
DirectoryExact ==
    \A c \in L2s \cup Banks : \A w \in Ways[c] :
        LET e == cache[c][w]
        IN  /\ e.sharers = {d \in Children(c) : StateOf(d, e.addr) # "I"}
            /\ e.numSharers = Cardinality(e.sharers)

\* Every valid line is in the level above, and there with the permission that
\* it has below ("We lost inclusion on this line!"; the asserts on PUTX and on
\* induced writebacks that the parent is in E or M, and exclusively). No cache,
\* and no two skews of the LLC, have a line twice.
InclusionHolds ==
    /\ \A a \in Addrs : Cardinality(InBanks(cache, a)) <= 1
    /\ \A a \in Addrs, c \in L1s \cup L2s : Cardinality(lookup(cache, c, a)) <= 1
    /\ \A d \in L1s \cup L2s : \A v \in Ways[d] :
           LET line == cache[d][v]
           IN  line.state # "I" =>
                   \E c \in Parents(d) : \E w \in lookup(cache, c, line.addr) :
                       LET e == cache[c][w]
                       IN  /\ d \in e.sharers /\ e.state # "I"
                           /\ line.state \in {"E", "M"} => isExclusive(e) /\ e.state \in {"E", "M"}

\* "NOTE: THIS IS THE ONLY CODE THAT SHOULD DEAL WITH RACES": what may happen to
\* a line while its request waits is what CheckForMESIRace() foresees, and the
\* PUT of a line that the LLC has lost meanwhile is one that is not needed.
RacesForeseen ==
    LET Raced(put, type, initialState, state) ==
          state # initialState =>
              \/ put /\ (state = "I" \/ (state = "S" /\ initialState \in {"E", "M"}))
              \/ ~put /\ type = "GETX" /\ initialState = "S" /\ state = "I"
    IN  \A c \in L1s :
        /\ pc[c] \in {"put1", "get1"} =>
             Raced(pc[c] = "put1", op[c].type, op[c].i1, cache[c][op[c].w1].state)
        /\ pc[c] \in {"put2", "get2"} =>
             LET line == cache[parent[c]][op[c].w2]
             IN  /\ Raced(pc[c] = "put2", op[c].type, op[c].i2, line.state)
                 /\ pc[c] = "put2" /\ InBanks(cache, line.addr) = {} => line.state # op[c].i2

\* The hierarchy is sound, whatever accesses are between their sections: its
\* directories, inclusion, and the races that it has code for.
HierarchySound == TypeOK /\ DirectoryExact /\ InclusionHolds /\ RacesForeseen

\* A write is never forgotten, nor invented: as long as memory has not been
\* updated some cache has the line in M, and no line is in M otherwise.
DirtyExact == \A a \in Addrs : a \in dirty <=> \E c \in Caches : StateOf(c, a) = "M"

-----------------------------------------------------------------------------
\* What the threads see of the hierarchy: one permission per L1 and line.
permission == [c \in L1s |-> [a \in Addrs |-> StateOf(c, a)]]

\* The hierarchy implements the abstract shared memory, with or without refresh.
Abstract == INSTANCE SharedLines WITH Readers <- L1s, Lines <- Addrs, perm <- permission
AbstractSpec == Abstract!Spec
=============================================================================
