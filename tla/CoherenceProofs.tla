--------------------------- MODULE CoherenceProofs ---------------------------
(***************************************************************************)
(* That the MESI hierarchy is sound (HierarchySound), that writes are      *)
(* neither lost nor invented (DirtyExact), and that it implements the      *)
(* abstract shared memory (AbstractSpec): for any number of caches, lines  *)
(* and addresses.                                                          *)
(*                                                                         *)
(* The controllers work on values h of cache, several of them within one   *)
(* section, so the invariant of the hierarchy is stated of such values     *)
(* (Sound): each controller is shown to preserve it and to do no more to   *)
(* the lines of others than degrade them (Degraded), which is all that a   *)
(* pending request has to tolerate (Waiting).                              *)
(*                                                                         *)
(* With refreshes lines of the LLC move while accesses are pending; still  *)
(* nobody is charged a first-time miss for a line that he used before      *)
(* (AccountingSound), and the abstract specification is implemented.       *)
(***************************************************************************)
EXTENDS FirstTimeMiss, FiniteSetTheorems, TLAPS

Lines(c) == [addr : Addrs \cup {NoAddr}, state : MESIStates, sharers : SUBSET Children(c),
             numSharers : Nat, exclusive : BOOLEAN]

Typed(h) ==
    /\ DOMAIN h = Caches
    /\ \A c \in Caches : /\ DOMAIN h[c] = Ways[c]
                         /\ \A w \in Ways[c] : h[c][w] \in Lines(c)

\* d has address a in a valid state.
Has(h, d, a) == \E v \in Ways[d] : h[d][v].addr = a /\ h[d][v].state # "I"

\* c and e hold no line twice between them: the banks are alternatives.
Peers(c, e) == c = e \/ (c \in Banks /\ e \in Banks)

Unique(h) ==
    \A c, e \in Caches : Peers(c, e) =>
        \A w \in Ways[c], v \in Ways[e] :
            h[c][w].addr = h[e][v].addr /\ h[c][w].addr # NoAddr => c = e /\ w = v

\* Address 0 is nobody's.
Vacant(h) ==
    \A c \in Caches : \A w \in Ways[c] :
        h[c][w].addr = NoAddr => h[c][w].state = "I" /\ h[c][w].sharers = {}

Directory(h) ==
    \A c \in L2s \cup Banks : \A w \in Ways[c] : \A d \in Children(c) :
        d \in h[c][w].sharers <=> Has(h, d, h[c][w].addr)

Counted(h) ==
    \A c \in Caches : \A w \in Ways[c] : h[c][w].numSharers = Cardinality(h[c][w].sharers)

\* Line e above allows line below what it has.
Allows(e, line) ==
    /\ e.addr = line.addr
    /\ e.state # "I"
    /\ line.state \in {"E", "M"} => isExclusive(e) /\ e.state \in {"E", "M"}

Inclusive(h) ==
    \A d \in L1s \cup L2s : \A v \in Ways[d] : h[d][v].state # "I" =>
        \E c \in Parents(d) : \E w \in Ways[c] : Allows(h[c][w], h[d][v])

Sound(h) == Typed(h) /\ Unique(h) /\ Vacant(h) /\ Directory(h) /\ Counted(h) /\ Inclusive(h)

-----------------------------------------------------------------------------
(***************************************************************************)
(* Pending requests: a line that waits for a permission, which may only    *)
(* lose the S it has, and a line that leaves, which may be downgraded or   *)
(* invalidated first.                                                      *)
(***************************************************************************)

LineWaits(line, type, i, a) ==
    /\ line.addr = a
    /\ i \in {"I", "S"} /\ (type = "GETS" => i = "I")
    /\ line.state \in {"I", i}

LineLeaves(line, i) ==
    /\ i \in MESIStates \ {"I"}
    /\ line.state \in {i, "I"} \/ (line.state = "S" /\ i \in {"E", "M"})

AtLLC == {"put2", "get2"}

\* What thread c, at k with request o, relies on.
Waiting(h, c, k, o) ==
    LET p == parent[c]
    IN  /\ k # "idle" => o.addr \in Addrs /\ o.w1 \in Ways[c]
        /\ k = "put1" => lookup(h, c, o.addr) = {} /\ LineLeaves(h[c][o.w1], o.i1)
        /\ k \in {"get1", "put2", "get2"} => LineWaits(h[c][o.w1], o.type, o.i1, o.addr)
        /\ k \in AtLLC => o.w2 \in Ways[p]
        /\ k = "put2" => /\ lookup(h, p, o.addr) = {}
                         /\ h[p][o.w2].sharers = {}
                         /\ LineLeaves(h[p][o.w2], o.i2)
        /\ k = "get2" => LineWaits(h[p][o.w2], o.type, o.i2, o.addr)

AllWays == UNION {Ways[c] : c \in Caches}

Requests == [addr : Addrs \cup {NoAddr}, type : {"GETS", "GETX"}, w1 : AllWays \cup {0}, i1 : MESIStates,
             w2 : AllWays \cup {0}, i2 : MESIStates]

\* One thread at a time holds the tcc lock of an L2 on its way to the LLC.
OneAtLLC ==
    \A c, d \in L1s : parent[c] = parent[d] /\ pc[c] \in AtLLC /\ pc[d] \in AtLLC => c = d

\* The inductive invariant, of the threads ...
ThreadsOK ==
    /\ pc \in [L1s -> ThreadPcs]
    /\ op \in [L1s -> Requests]
    /\ \A c \in L1s : Waiting(cache, c, pc[c], op[c])
    /\ OneAtLLC

\* ... and of the whole.
IInv == Sound(cache) /\ ThreadsOK /\ dirty \subseteq Addrs

-----------------------------------------------------------------------------
(***************************************************************************)
(* The family of a cache.                                                  *)
(***************************************************************************)

\* Children and parents are each other's, and of the levels below and above;
\* two caches with a child in common are alternatives for a line.
LEMMA Family ==
    /\ \A c \in L2s : Children(c) \subseteq L1s /\ c \notin Children(c)
    /\ \A c \in Banks : Children(c) = L2s /\ c \notin Children(c)
    /\ \A c \in L1s : Children(c) = {} /\ c \notin L2s \cup Banks
    /\ \A d \in L1s \cup L2s : d \notin Banks /\ Parents(d) \subseteq L2s \cup Banks
    /\ \A c \in L2s \cup Banks, d \in L1s \cup L2s : c \in Parents(d) <=> d \in Children(c)
    /\ \A c, e \in L2s \cup Banks, d \in L1s \cup L2s :
          d \in Children(c) /\ d \in Children(e) => Peers(c, e)
    /\ \A c \in Caches : IsFiniteSet(Children(c))
  <1> USE CoherenceAssumption
  <1>1. \A c \in Caches : IsFiniteSet(Children(c))
    <2> SUFFICES ASSUME NEW c \in Caches PROVE IsFiniteSet(Children(c))
      OBVIOUS
    <2>1. Children(c) \in SUBSET L1s \/ Children(c) \in SUBSET L2s
      BY DEF Children
    <2> QED
      BY <2>1, FS_Subset
  <1>2. /\ \A c \in L2s : Children(c) \subseteq L1s /\ c \notin Children(c)
        /\ \A c \in Banks : Children(c) = L2s /\ c \notin Children(c)
        /\ \A c \in L1s : Children(c) = {} /\ c \notin L2s \cup Banks
    BY DEF Children
  <1>3. \A d \in L1s \cup L2s : d \notin Banks /\ Parents(d) \subseteq L2s \cup Banks
    BY DEF Parents
  <1>4. \A c \in L2s \cup Banks, d \in L1s \cup L2s : c \in Parents(d) <=> d \in Children(c)
    BY DEF Parents, Children
  <1>5. \A c, e \in L2s \cup Banks, d \in L1s \cup L2s :
          d \in Children(c) /\ d \in Children(e) => Peers(c, e)
    BY DEF Children, Peers
  <1> QED
    BY <1>1, <1>2, <1>3, <1>4, <1>5

\* The line above a valid line is found by its address: whichever line of a
\* parent has it allows what is below, and names it as a sharer.
LEMMA LineAbove ==
    ASSUME NEW h, Sound(h), NEW c \in L2s \cup Banks, NEW w \in Ways[c],
           NEW d \in Children(c), NEW v \in Ways[d],
           h[d][v].addr = h[c][w].addr, h[d][v].state # "I"
    PROVE  Allows(h[c][w], h[d][v]) /\ d \in h[c][w].sharers /\ h[c][w].addr # NoAddr
  <1>0. d \in L1s \cup L2s /\ c \in Caches /\ d \in Caches
    BY Family DEF Caches
  <1>1. h[d][v].addr # NoAddr
    BY <1>0 DEF Sound, Vacant
  <1>2. PICK e \in Parents(d) : \E u \in Ways[e] : Allows(h[e][u], h[d][v])
    BY <1>0 DEF Sound, Inclusive
  <1>3. PICK u \in Ways[e] : Allows(h[e][u], h[d][v])
    BY <1>2
  <1>4. e \in L2s \cup Banks /\ e \in Caches /\ d \in Children(e)
    BY <1>0, Family DEF Caches
  <1>5. Peers(c, e)
    BY <1>0, <1>4, Family
  <1>6. e = c /\ u = w
    BY <1>0, <1>1, <1>3, <1>4, <1>5 DEF Sound, Unique, Allows
  <1>7. d \in h[c][w].sharers
    BY DEF Sound, Directory, Has
  <1> QED
    BY <1>1, <1>3, <1>6, <1>7

\* A line that is not valid has no sharers.
LEMMA InvalidUnshared ==
    ASSUME NEW h, Sound(h), NEW c \in Caches, NEW w \in Ways[c], h[c][w].state = "I"
    PROVE  h[c][w].sharers = {}
  <1>1. h[c][w].sharers \subseteq Children(c)
    BY DEF Sound, Typed, Lines
  <1>2. CASE c \in L1s
    BY <1>1, <1>2, Family
  <1>3. CASE c \in L2s \cup Banks
    <2> SUFFICES ASSUME NEW d \in h[c][w].sharers PROVE FALSE
      OBVIOUS
    <2>1. PICK v \in Ways[d] : h[d][v].addr = h[c][w].addr /\ h[d][v].state # "I"
      BY <1>1, <1>3 DEF Sound, Directory, Has
    <2>2. Allows(h[c][w], h[d][v])
      BY <2>1, <1>1, <1>3, LineAbove
    <2> QED
      BY <2>2 DEF Allows
  <1> QED
    BY <1>2, <1>3 DEF Caches

\* A valid line has an address, and its cache has no other line with it.
LEMMA ValidLine ==
    ASSUME NEW h, Sound(h), NEW d \in Caches, NEW v \in Ways[d], h[d][v].state # "I"
    PROVE  /\ h[d][v].addr \in Addrs
           /\ \A u \in Ways[d] : h[d][u].addr = h[d][v].addr => u = v
  BY DEF Sound, Vacant, Unique, Peers, Typed, Lines

\* The number of sharers is a count of a finite set: none, or one.
LEMMA SharerCount ==
    ASSUME NEW h, Sound(h), NEW c \in Caches, NEW w \in Ways[c]
    PROVE  /\ IsFiniteSet(h[c][w].sharers) /\ h[c][w].numSharers \in Nat
           /\ h[c][w].numSharers = Cardinality(h[c][w].sharers)
           /\ h[c][w].numSharers = 0 <=> h[c][w].sharers = {}
           /\ h[c][w].numSharers = 1 <=> \E d : h[c][w].sharers = {d}
  <1>1. IsFiniteSet(h[c][w].sharers) /\ h[c][w].numSharers \in Nat
    <2>1. h[c][w].sharers \in SUBSET Children(c) /\ h[c][w].numSharers \in Nat
      BY DEF Sound, Typed, Lines
    <2> QED
      BY <2>1, Family, FS_Subset
  <1>2. h[c][w].numSharers = Cardinality(h[c][w].sharers)
    BY DEF Sound, Counted
  <1> QED
    BY <1>1, <1>2, FS_EmptySet, FS_Singleton

-----------------------------------------------------------------------------
(***************************************************************************)
(* Changes of one line.                                                    *)
(***************************************************************************)

\* g is h but for line w of c.
SameBut(h, g, c, w) == \A d \in Caches : \A u \in Ways[d] : d # c \/ u # w => g[d][u] = h[d][u]

\* What SetState() does, line by line.
LEMMA SetStateShape ==
    ASSUME NEW h, Typed(h), NEW c \in Caches, NEW w \in Ways[c], NEW s \in MESIStates
    PROVE  LET g == SetState(h, c, w, s)
           IN  /\ Typed(g) /\ SameBut(h, g, c, w)
               /\ g[c][w].addr = h[c][w].addr /\ g[c][w].state = s
               /\ g[c][w].sharers = h[c][w].sharers /\ g[c][w].numSharers = h[c][w].numSharers
               /\ g[c][w].exclusive = h[c][w].exclusive
  <1> DEFINE e == [h[c][w] EXCEPT !.state = s]
             g == SetState(h, c, w, s)
  <1>1. /\ e \in Lines(c) /\ e.addr = h[c][w].addr /\ e.state = s /\ e.sharers = h[c][w].sharers
        /\ e.numSharers = h[c][w].numSharers /\ e.exclusive = h[c][w].exclusive
    BY DEF Typed, Lines
  <1>2. g = [h EXCEPT ![c] = [h[c] EXCEPT ![w] = e]]
    BY DEF SetState
  <1> HIDE DEF e, g
  <1>3. DOMAIN g = Caches /\ \A d \in Caches : DOMAIN g[d] = Ways[d]
    BY <1>2 DEF Typed
  <1>4. g[c][w] = e /\ SameBut(h, g, c, w)
    BY <1>2 DEF Typed, SameBut
  <1>5. Typed(g)
    BY <1>1, <1>3, <1>4 DEF Typed, SameBut
  <1> QED
    BY <1>1, <1>4, <1>5 DEF g

\* A bank may be given any permission at least as good as it had, and any
\* cache M instead of E.
LEMMA SetStateSound ==
    ASSUME NEW h, Sound(h), NEW c \in Caches, NEW w \in Ways[c], NEW s \in MESIStates \ {"I"},
           h[c][w].addr # NoAddr,
           h[c][w].state \in {"E", "M"} => s \in {"E", "M"},
           c \notin Banks => h[c][w].state \in {"E", "M"}
    PROVE  Sound(SetState(h, c, w, s))
  <1> DEFINE g == SetState(h, c, w, s)
  <1>1. /\ Typed(g) /\ SameBut(h, g, c, w)
        /\ g[c][w].addr = h[c][w].addr /\ g[c][w].state = s
        /\ g[c][w].sharers = h[c][w].sharers /\ g[c][w].numSharers = h[c][w].numSharers
        /\ g[c][w].exclusive = h[c][w].exclusive
    BY SetStateShape DEF Sound
  <1> HIDE DEF g
  <1>2. \A d \in Caches : \A u \in Ways[d] :
          /\ g[d][u].addr = h[d][u].addr /\ g[d][u].sharers = h[d][u].sharers
          /\ g[d][u].numSharers = h[d][u].numSharers /\ g[d][u].exclusive = h[d][u].exclusive
          /\ h[d][u].state # "I" => g[d][u].state # "I"
          /\ h[d][u].state \in {"E", "M"} => g[d][u].state \in {"E", "M"}
          /\ d \notin Banks /\ g[d][u].state # "I" => h[d][u].state # "I"
          /\ d \notin Banks /\ g[d][u].state \in {"E", "M"} => h[d][u].state \in {"E", "M"}
    BY <1>1 DEF SameBut
  <1>3. Unique(g) /\ Counted(g)
    BY <1>2 DEF Sound, Unique, Counted
  <1>4. Vacant(g)
    BY <1>1, <1>2 DEF Sound, Vacant, SameBut
  <1>5. Directory(g)
    <2>1. \A d \in L1s \cup L2s : \A a : Has(g, d, a) <=> Has(h, d, a)
      BY <1>2, Family DEF Has, Caches
    <2> QED
      BY <1>2, <2>1, Family DEF Sound, Directory, Caches
  <1>6. Inclusive(g)
    <2> SUFFICES ASSUME NEW d \in L1s \cup L2s, NEW v \in Ways[d], g[d][v].state # "I"
                 PROVE  \E e \in Parents(d) : \E u \in Ways[e] : Allows(g[e][u], g[d][v])
      BY DEF Inclusive
    <2>1. d \in Caches /\ d \notin Banks
      BY Family DEF Caches
    <2>2. PICK e \in Parents(d) : \E u \in Ways[e] : Allows(h[e][u], h[d][v])
      BY <1>2, <2>1 DEF Sound, Inclusive
    <2>3. PICK u \in Ways[e] : Allows(h[e][u], h[d][v])
      BY <2>2
    <2>4. e \in Caches
      BY Family DEF Caches
    <2> QED
      BY <1>2, <2>1, <2>3, <2>4 DEF Allows, isExclusive
  <1> QED
    BY <1>1, <1>3, <1>4, <1>5, <1>6 DEF Sound, g

\* A bank may lose a line that no L2 has.
LEMMA DiscardSound ==
    ASSUME NEW h, Sound(h), NEW c \in Banks, NEW w \in Ways[c], h[c][w].sharers = {}
    PROVE  Sound(SetState(h, c, w, "I"))
  <1> DEFINE g == SetState(h, c, w, "I")
  <1>0. c \in Caches /\ "I" \in MESIStates /\ Typed(h)
    BY DEF Caches, MESIStates, Sound
  <1>1. /\ Typed(g) /\ SameBut(h, g, c, w)
        /\ g[c][w].addr = h[c][w].addr /\ g[c][w].state = "I"
        /\ g[c][w].sharers = h[c][w].sharers /\ g[c][w].numSharers = h[c][w].numSharers
        /\ g[c][w].exclusive = h[c][w].exclusive
    BY <1>0, SetStateShape
  <1> HIDE DEF g
  <1>2. \A d \in Caches : \A u \in Ways[d] :
          /\ g[d][u].addr = h[d][u].addr /\ g[d][u].sharers = h[d][u].sharers
          /\ g[d][u].numSharers = h[d][u].numSharers /\ g[d][u].exclusive = h[d][u].exclusive
          /\ d \notin Banks => g[d][u] = h[d][u]
          /\ d # c \/ u # w => g[d][u] = h[d][u]
    BY <1>1 DEF SameBut
  <1>3. Unique(g) /\ Counted(g)
    BY <1>2 DEF Sound, Unique, Counted
  <1>4. Vacant(g)
    BY <1>1, <1>2 DEF Sound, Vacant
  <1>5. Directory(g)
    <2>1. \A d \in L1s \cup L2s : \A a : Has(g, d, a) <=> Has(h, d, a)
      BY <1>2, Family DEF Has, Caches
    <2> QED
      BY <1>2, <2>1, Family DEF Sound, Directory, Caches
  <1>6. Inclusive(g)
    <2> SUFFICES ASSUME NEW d \in L1s \cup L2s, NEW v \in Ways[d], g[d][v].state # "I"
                 PROVE  \E e \in Parents(d) : \E u \in Ways[e] : Allows(g[e][u], g[d][v])
      BY DEF Inclusive
    <2>1. d \in Caches /\ d \notin Banks /\ g[d][v] = h[d][v]
      BY <1>2, Family DEF Caches
    <2>2. PICK e \in Parents(d) : \E u \in Ways[e] : Allows(h[e][u], h[d][v])
      BY <1>2, <2>1 DEF Sound, Inclusive
    <2>3. PICK u \in Ways[e] : Allows(h[e][u], h[d][v])
      BY <2>2
    <2>4. e \in Caches /\ e \in L2s \cup Banks /\ d \in Children(e)
      BY Family DEF Caches
    <2>5. d \in h[e][u].sharers
      BY <2>1, <2>3, <2>4, LineAbove DEF Allows
    <2>6. e # c \/ u # w
      BY <2>5
    <2> QED
      BY <1>2, <2>1, <2>3, <2>4, <2>6
  <1> QED
    BY <1>1, <1>3, <1>4, <1>5, <1>6 DEF Sound, g

\* What postinsert() does, line by line.
LEMMA InsertShape ==
    ASSUME NEW h, Typed(h), NEW c \in Caches, NEW w \in Ways[c], NEW a \in Addrs
    PROVE  LET g == postinsert(h, c, w, a)
           IN  /\ Typed(g) /\ SameBut(h, g, c, w)
               /\ g[c][w].addr = a /\ g[c][w].state = h[c][w].state
               /\ g[c][w].sharers = h[c][w].sharers /\ g[c][w].numSharers = h[c][w].numSharers
               /\ g[c][w].exclusive = h[c][w].exclusive
  <1> DEFINE e == [h[c][w] EXCEPT !.addr = a]
             g == postinsert(h, c, w, a)
  <1>1. /\ e \in Lines(c) /\ e.addr = a /\ e.state = h[c][w].state /\ e.sharers = h[c][w].sharers
        /\ e.numSharers = h[c][w].numSharers /\ e.exclusive = h[c][w].exclusive
    BY DEF Typed, Lines
  <1>2. g = [h EXCEPT ![c] = [h[c] EXCEPT ![w] = e]]
    BY DEF postinsert
  <1> HIDE DEF e, g
  <1>3. DOMAIN g = Caches /\ \A d \in Caches : DOMAIN g[d] = Ways[d]
    BY <1>2 DEF Typed
  <1>4. g[c][w] = e /\ SameBut(h, g, c, w)
    BY <1>2 DEF Typed, SameBut
  <1>5. Typed(g)
    BY <1>1, <1>3, <1>4 DEF Typed, SameBut
  <1> QED
    BY <1>1, <1>4, <1>5 DEF g

\* A line that is not valid may be given an address that the cache, or any
\* bank, does not have.
LEMMA InsertSound ==
    ASSUME NEW h, Sound(h), NEW c \in Caches, NEW w \in Ways[c], NEW a \in Addrs, h[c][w].state = "I",
           \A e \in Caches : Peers(c, e) => \A u \in Ways[e] : h[e][u].addr # a
    PROVE  Sound(postinsert(h, c, w, a))
  <1> DEFINE g == postinsert(h, c, w, a)
  <1>0. h[c][w].sharers = {}
    BY InvalidUnshared
  <1>1. /\ Typed(g) /\ SameBut(h, g, c, w)
        /\ g[c][w].addr = a /\ g[c][w].state = "I"
        /\ g[c][w].sharers = h[c][w].sharers /\ g[c][w].numSharers = h[c][w].numSharers
        /\ g[c][w].exclusive = h[c][w].exclusive
    BY InsertShape DEF Sound
  <1> HIDE DEF g
  <1>2. Unique(g)
    BY <1>1 DEF Sound, Unique, SameBut, Peers
  <1>3. Counted(g)
    BY <1>1 DEF Sound, Counted, SameBut
  <1>4. Vacant(g)
    BY <1>1, CoherenceAssumption DEF Sound, Vacant, SameBut
  <1>5. \A d \in Caches : \A x : Has(g, d, x) <=> Has(h, d, x)
    BY <1>1 DEF Has, SameBut
  <1>6. Directory(g)
    <2> SUFFICES ASSUME NEW e \in L2s \cup Banks, NEW u \in Ways[e], NEW d \in Children(e)
                 PROVE  d \in g[e][u].sharers <=> Has(h, d, g[e][u].addr)
      BY <1>5, Family DEF Directory, Caches
    <2>1. e \in Caches /\ d \in L1s \cup L2s /\ d \in Caches
      BY Family DEF Caches
    <2>2. CASE e # c \/ u # w
      BY <1>1, <2>1, <2>2 DEF Sound, Directory, SameBut
    <2>3. CASE e = c /\ u = w
      <3> SUFFICES ASSUME NEW v \in Ways[d], h[d][v].addr = a, h[d][v].state # "I" PROVE FALSE
        BY <1>0, <1>1, <2>3 DEF Has
      <3>1. PICK f \in Parents(d) : \E x \in Ways[f] : h[f][x].addr = a
        BY <2>1 DEF Sound, Inclusive, Allows
      <3>2. f \in L2s \cup Banks /\ f \in Caches /\ d \in Children(f)
        BY <2>1, Family DEF Caches
      <3>3. Peers(c, f)
        BY <2>1, <2>3, <3>2, Family
      <3> QED
        BY <3>1, <3>2, <3>3
    <2> QED
      BY <2>2, <2>3
  <1>7. Inclusive(g)
    <2> SUFFICES ASSUME NEW d \in L1s \cup L2s, NEW v \in Ways[d], g[d][v].state # "I"
                 PROVE  \E e \in Parents(d) : \E u \in Ways[e] : Allows(g[e][u], g[d][v])
      BY DEF Inclusive
    <2>1. d \in Caches /\ g[d][v] = h[d][v]
      BY <1>1, Family DEF Caches, SameBut
    <2>2. PICK e \in Parents(d) : \E u \in Ways[e] : Allows(h[e][u], h[d][v])
      BY <2>1 DEF Sound, Inclusive
    <2>3. PICK u \in Ways[e] : Allows(h[e][u], h[d][v])
      BY <2>2
    <2>4. e \in Caches
      BY Family DEF Caches
    <2>5. g[e][u] = h[e][u]
      BY <1>1, <2>3, <2>4 DEF SameBut, Allows
    <2> QED
      BY <2>1, <2>3, <2>5
  <1> QED
    BY <1>1, <1>2, <1>3, <1>4, <1>6, <1>7 DEF Sound, g

-----------------------------------------------------------------------------
(***************************************************************************)
(* Invalidations.                                                          *)
(***************************************************************************)

\* R: the caches that an invalidation of address a sent to T reaches.
Spreads(h, a, T, R, type) ==
    /\ T \subseteq R
    /\ \A d \in R : Has(h, d, a)
    /\ \A d \in R \ T : \E e \in T : \E u \in Ways[e] :
          h[e][u].addr = a /\ d \in Targets(h[e][u], type)
    /\ \A e \in R : \A u \in Ways[e] : h[e][u].addr = a => Targets(h[e][u], type) \subseteq R

\* Reached() is that, also if the line itself has forgotten some sharers (k).
LEMMA ReachedSpreads ==
    ASSUME NEW h, Sound(h), NEW c \in L2s \cup Banks, NEW w \in Ways[c], NEW type,
           NEW k, SameBut(h, k, c, w), k[c][w].addr = h[c][w].addr,
           k[c][w].sharers \subseteq h[c][w].sharers
    PROVE  LET R == Reached(k, c, w, type)
           IN  /\ R \subseteq (L1s \cup L2s) \ {c}
               /\ Spreads(h, h[c][w].addr, Targets(k[c][w], type), R, type)
  <1> DEFINE R == Reached(k, c, w, type)
             T == Targets(k[c][w], type)
             a == h[c][w].addr
  <1>0. c \in Caches /\ T \subseteq h[c][w].sharers /\ h[c][w].sharers \subseteq Children(c)
    BY DEF Caches, Targets, Sound, Typed, Lines
  <1>1. T \subseteq (L1s \cup L2s) \ {c} /\ T \subseteq Children(c)
    BY <1>0, Family
  <1>2. \A e \in T : \A u \in Ways[e] : k[e][u] = h[e][u] /\ e \in Caches
    BY <1>1 DEF SameBut, Caches
  <1>3. \A d : d \in R <=> \/ d \in T
                          \/ \E e \in T : \E u \in Ways[e] : h[e][u].addr = a /\ d \in Targets(h[e][u], type)
    <2>1. \A e \in T : lookup(k, e, a) = {x \in Ways[e] : h[e][x].addr = a}
      BY <1>2 DEF lookup
    <2>2. R = T \cup UNION {UNION {Targets(k[e][u], type) : u \in lookup(k, e, a)} : e \in T}
      BY DEF Reached
    <2> HIDE DEF R, T, a
    <2>3. \A d : d \in R <=> \/ d \in T
                            \/ \E e \in T : \E u \in lookup(k, e, a) : d \in Targets(k[e][u], type)
      BY <2>2
    <2> QED
      BY <2>1, <2>3, <1>2
  <1> HIDE DEF R, T, a
  <1>4. \A d \in R \ T : \E e \in T : \E u \in Ways[e] : h[e][u].addr = a /\ d \in Targets(h[e][u], type)
    BY <1>3
  <1>5. \A e \in T : \A u \in Ways[e] : h[e][u].addr = a => Targets(h[e][u], type) \subseteq R
    BY <1>3
  <1>6. \A e \in Caches : \A u \in Ways[e] : Targets(h[e][u], type) \subseteq h[e][u].sharers
                                           /\ h[e][u].sharers \subseteq Children(e)
    BY DEF Targets, Sound, Typed, Lines
  <1>7. \A d \in R \ T : d \in L1s
    <2> SUFFICES ASSUME NEW d \in R \ T PROVE d \in L1s
      OBVIOUS
    <2>1. PICK e \in T : \E u \in Ways[e] : h[e][u].addr = a /\ d \in Targets(h[e][u], type)
      BY <1>4
    <2>2. d \in Children(e) /\ e \in L1s \cup L2s
      BY <2>1, <1>1, <1>6 DEF Caches
    <2> QED
      BY <2>2, Family
  <1>8. R \subseteq (L1s \cup L2s) \ {c}
    BY <1>1, <1>7, Family
  <1>9. \A e \in R : \A u \in Ways[e] : h[e][u].addr = a => Targets(h[e][u], type) \subseteq R
    BY <1>5, <1>6, <1>7, Family DEF Caches
  <1>10. \A d \in T : Has(h, d, a)
    BY <1>0, <1>1 DEF Sound, Directory, a
  <1>11. \A d \in R \ T : Has(h, d, a)
    <2> SUFFICES ASSUME NEW d \in R \ T PROVE Has(h, d, a)
      OBVIOUS
    <2>1. PICK e \in T : \E u \in Ways[e] : h[e][u].addr = a /\ d \in Targets(h[e][u], type)
      BY <1>4
    <2>2. e \in L2s
      BY <1>1, <1>6, <2>1, Family DEF Caches
    <2> QED
      BY <2>1, <2>2, <1>6 DEF Sound, Directory, Caches
  <1>12. Spreads(h, a, T, R, type)
    BY <1>3, <1>4, <1>9, <1>10, <1>11 DEF Spreads
  <1> QED
    BY <1>8, <1>12 DEF R, T, a

\* The line of a cache that is reached is valid, and has an address.
LEMMA ReachedValid ==
    ASSUME NEW h, Sound(h), NEW a, NEW T, NEW R \in SUBSET (L1s \cup L2s), NEW type, Spreads(h, a, T, R, type),
           NEW e \in R
    PROVE  /\ a \in Addrs /\ a # NoAddr
           /\ \A u \in Ways[e] : h[e][u].addr = a => h[e][u].state # "I"
  <1>1. e \in Caches
    BY DEF Caches
  <1>2. PICK v \in Ways[e] : h[e][v].addr = a /\ h[e][v].state # "I"
    BY DEF Spreads, Has
  <1> QED
    BY <1>1, <1>2, ValidLine, CoherenceAssumption

\* Two lines with one address and a child in common are one.
LEMMA OneLineAbove ==
    ASSUME NEW h, Sound(h), NEW c \in L2s \cup Banks, NEW w \in Ways[c], NEW e \in L2s \cup Banks, NEW u \in Ways[e],
           NEW d \in Children(c), d \in Children(e), h[c][w].addr = h[e][u].addr, h[c][w].addr # NoAddr
    PROVE  c = e /\ w = u
  <1>1. d \in L1s \cup L2s /\ c \in Caches /\ e \in Caches
    BY Family DEF Caches
  <1>2. Peers(c, e)
    BY <1>1, Family
  <1> QED
    BY <1>1, <1>2 DEF Sound, Unique

\* The address of line w of c is taken from R, and X is left as its only
\* sharer, with the right to write.
Purged(h, g, c, w, R, X) ==
    LET a == h[c][w].addr
        Hit(e, u) == e \in R /\ h[e][u].addr = a
        Kept(e, u) == e \in X /\ h[e][u].addr = a
    IN  /\ Typed(g)
        /\ \A e \in Caches : \A u \in Ways[e] :
             /\ g[e][u].addr = h[e][u].addr
             /\ Hit(e, u) => g[e][u].state = "I" /\ g[e][u].sharers = {} /\ g[e][u].numSharers = 0
             /\ Kept(e, u) => /\ g[e][u].state \in {"E", "M"} /\ g[e][u].sharers = h[e][u].sharers
                              /\ g[e][u].numSharers = h[e][u].numSharers
                              /\ g[e][u].exclusive = h[e][u].exclusive
             /\ ~Hit(e, u) /\ ~Kept(e, u) /\ (e # c \/ u # w) => g[e][u] = h[e][u]
        /\ g[c][w].sharers = X /\ g[c][w].numSharers = Cardinality(X)
        /\ g[c][w].state = h[c][w].state \/ (g[c][w].state = "M" /\ h[c][w].state \in {"E", "M"})
        /\ X # {} => g[c][w].exclusive /\ g[c][w].state \in {"E", "M"} /\ Cardinality(X) = 1
        /\ \A x \in X : \E v \in Ways[x] : h[x][v].addr = a

\* That keeps the hierarchy sound: whoever had the address below was reached.
LEMMA PurgeSound ==
    ASSUME NEW h, Sound(h), NEW c \in L2s \cup Banks, NEW w \in Ways[c], NEW X \in SUBSET Children(c),
           NEW R \in SUBSET ((L1s \cup L2s) \ {c}), R \cap X = {},
           Spreads(h, h[c][w].addr, h[c][w].sharers \ X, R, "INV"),
           X # {} => h[c][w].addr # NoAddr,
           NEW g, Purged(h, g, c, w, R, X)
    PROVE  Sound(g)
  <1> DEFINE a == h[c][w].addr
             T == h[c][w].sharers \ X
  <1>0. c \in Caches /\ c \notin R /\ c \notin X /\ R \subseteq Caches /\ X \subseteq L1s \cup L2s /\ X \subseteq Caches
    BY Family DEF Caches
  <1>1. Typed(g)
    BY DEF Purged
  <1>2. \A e \in Caches : \A u \in Ways[e] : g[e][u].addr = h[e][u].addr
    BY DEF Purged
  <1>3. \A e \in R : \A u \in Ways[e] : h[e][u].addr = a =>
            g[e][u].state = "I" /\ g[e][u].sharers = {} /\ g[e][u].numSharers = 0
    BY <1>0 DEF Purged
  <1>4. \A e \in X : \A u \in Ways[e] : h[e][u].addr = a =>
            /\ g[e][u].state \in {"E", "M"} /\ g[e][u].sharers = h[e][u].sharers
            /\ g[e][u].numSharers = h[e][u].numSharers /\ g[e][u].exclusive = h[e][u].exclusive
    BY <1>0 DEF Purged
  <1>5. \A e \in Caches : \A u \in Ways[e] :
            \/ g[e][u] = h[e][u]
            \/ h[e][u].addr = a /\ (e \in R \/ e \in X \/ (e = c /\ u = w))
    BY DEF Purged
  <1>6. /\ g[c][w].sharers = X /\ g[c][w].numSharers = Cardinality(X)
        /\ g[c][w].state = h[c][w].state \/ (g[c][w].state = "M" /\ h[c][w].state \in {"E", "M"})
        /\ X # {} => g[c][w].exclusive /\ g[c][w].state \in {"E", "M"} /\ Cardinality(X) = 1
        /\ \A x \in X : \E v \in Ways[x] : h[x][v].addr = a
    BY DEF Purged
  <1>7. /\ T \subseteq R /\ \A d \in R : Has(h, d, a)
        /\ \A d \in R \ T : \E e \in T : \E u \in Ways[e] : h[e][u].addr = a /\ d \in h[e][u].sharers
        /\ \A e \in R : \A u \in Ways[e] : h[e][u].addr = a => h[e][u].sharers \subseteq R
    BY DEF Spreads, Targets
  <1>8. R # {} => a # NoAddr
    BY <1>0, ReachedValid
  <1>9. \A e \in Caches : \A u \in Ways[e] : h[e][u].sharers \subseteq Children(e)
    BY DEF Sound, Typed, Lines
  <1> HIDE DEF a, T
  <1>10. Unique(g)
    BY <1>2 DEF Sound, Unique
  <1>11. Counted(g)
    <2> SUFFICES ASSUME NEW e \in Caches, NEW u \in Ways[e]
                 PROVE  g[e][u].numSharers = Cardinality(g[e][u].sharers)
      BY DEF Counted
    <2>0. h[e][u].numSharers = Cardinality(h[e][u].sharers)
      BY DEF Sound, Counted
    <2>1. CASE g[e][u] = h[e][u]
      BY <2>0, <2>1
    <2>2. CASE e \in R /\ h[e][u].addr = a
      BY <2>2, <1>3, FS_EmptySet
    <2>3. CASE e \in X /\ h[e][u].addr = a
      BY <2>0, <2>3, <1>4
    <2>4. CASE e = c /\ u = w
      BY <2>4, <1>6
    <2> QED
      BY <2>1, <2>2, <2>3, <2>4, <1>5
  <1>12. Vacant(g)
    <2> SUFFICES ASSUME NEW e \in Caches, NEW u \in Ways[e], h[e][u].addr = NoAddr
                 PROVE  g[e][u].state = "I" /\ g[e][u].sharers = {}
      BY <1>2 DEF Vacant
    <2>1. h[e][u].state = "I" /\ h[e][u].sharers = {}
      BY DEF Sound, Vacant
    <2>2. CASE e = c /\ u = w
      BY <2>1, <2>2, <1>6 DEF a
    <2>3. CASE e # c \/ u # w
      BY <2>1, <2>3, <1>5, <1>8 DEF a
    <2> QED
      BY <2>2, <2>3
  <1>13. \A d \in Caches : \A x : x # a => (Has(g, d, x) <=> Has(h, d, x))
    BY <1>2, <1>5 DEF Has
  <1>14. \A d \in R : ~Has(g, d, a)
    BY <1>0, <1>2, <1>3 DEF Has
  <1>15. \A d \in X : Has(g, d, a)
    BY <1>0, <1>2, <1>4, <1>6 DEF Has
  <1>16. \A d \in Caches : d \notin R /\ d \notin X => (Has(g, d, a) <=> Has(h, d, a))
    BY <1>2, <1>5, <1>6 DEF Has
  <1>17. Directory(g)
    <2> SUFFICES ASSUME NEW e \in L2s \cup Banks, NEW u \in Ways[e], NEW d \in Children(e)
                 PROVE  d \in g[e][u].sharers <=> Has(g, d, h[e][u].addr)
      BY <1>2 DEF Directory, Caches
    <2>0. e \in Caches /\ d \in L1s \cup L2s /\ d \in Caches
      BY Family DEF Caches
    <2>h. d \in h[e][u].sharers <=> Has(h, d, h[e][u].addr)
      BY DEF Sound, Directory
    <2>1. CASE h[e][u].addr # a
      BY <2>0, <2>1, <2>h, <1>5, <1>13
    <2>2. CASE e = c /\ u = w
      <3>1. CASE d \in X
        BY <2>2, <3>1, <1>6, <1>15 DEF a
      <3>2. CASE d \notin X
        BY <2>0, <2>2, <2>h, <3>2, <1>6, <1>7, <1>14, <1>16 DEF a, T
      <3> QED
        BY <3>1, <3>2
    <2>3. CASE h[e][u].addr = a /\ e \in R
      <3>1. d \notin X
        <4> SUFFICES ASSUME d \in X PROVE FALSE
          OBVIOUS
        <4>1. c = e
          BY <2>3, <1>8, OneLineAbove DEF a
        <4> QED
          BY <4>1, <2>3, <1>0
      <3>2. ~Has(g, d, a)
        BY <2>0, <2>3, <2>h, <3>1, <1>7, <1>14, <1>16
      <3> QED
        BY <2>3, <3>2, <1>3
    <2>4. CASE h[e][u].addr = a /\ e \notin R /\ (e # c \/ u # w)
      <3>1. g[e][u].sharers = h[e][u].sharers
        BY <2>0, <2>4, <1>4, <1>5
      <3>2. d \notin X
        BY <2>4, OneLineAbove DEF a
      <3>3. d \notin R
        <4> SUFFICES ASSUME d \in R PROVE FALSE
          OBVIOUS
        <4>1. CASE d \in T
          BY <4>1, <2>4, <1>0, <1>8, <1>9, OneLineAbove DEF a, T
        <4>2. CASE d \notin T
          <5>1. PICK f \in T : \E x \in Ways[f] : h[f][x].addr = a /\ d \in h[f][x].sharers
            BY <4>2, <1>7
          <5>2. f \in R /\ f \in Caches
            BY <1>0, <1>7
          <5>3. f \in L2s
            BY <5>1, <5>2, <1>0, <1>9, Family DEF Caches
          <5>4. f = e
            BY <5>1, <5>2, <5>3, <2>4, <1>8, <1>9, OneLineAbove
          <5> QED
            BY <5>2, <5>4, <2>4
        <4> QED
          BY <4>1, <4>2
      <3> QED
        BY <2>0, <2>4, <2>h, <3>1, <3>2, <3>3, <1>16
    <2> QED
      BY <2>1, <2>2, <2>3, <2>4
  <1>18. Inclusive(g)
    <2> SUFFICES ASSUME NEW d \in L1s \cup L2s, NEW v \in Ways[d], g[d][v].state # "I"
                 PROVE  \E e \in Parents(d) : \E u \in Ways[e] : Allows(g[e][u], g[d][v])
      BY DEF Inclusive
    <2>0. d \in Caches
      BY DEF Caches
    <2>1. CASE d \in X /\ h[d][v].addr = a
      <3>1. Allows(g[c][w], g[d][v])
        BY <2>0, <2>1, <1>0, <1>2, <1>6 DEF Allows, isExclusive, a
      <3>2. c \in Parents(d)
        BY <2>1, Family
      <3> QED
        BY <3>1, <3>2
    <2>2. CASE ~(d \in X /\ h[d][v].addr = a)
      <3>1. ~(d \in R /\ h[d][v].addr = a)
        BY <1>3
      <3>2. /\ h[d][v].state # "I"
            /\ g[d][v].state \in {"E", "M"} => h[d][v].state \in {"E", "M"}
        BY <2>0, <2>2, <3>1, <1>5, <1>6
      <3>3. PICK e \in Parents(d) : \E u \in Ways[e] : Allows(h[e][u], h[d][v])
        BY <3>2 DEF Sound, Inclusive
      <3>4. PICK u \in Ways[e] : Allows(h[e][u], h[d][v])
        BY <3>3
      <3>5. e \in L2s \cup Banks /\ e \in Caches /\ d \in Children(e) /\ h[e][u].addr = h[d][v].addr
        BY <3>4, Family DEF Caches, Allows
      <3>6. d \in h[e][u].sharers
        BY <3>2, <3>5, LineAbove
      <3>7. ~(h[e][u].addr = a /\ e \in R) /\ ~(e = c /\ u = w)
        BY <2>2, <3>1, <3>5, <3>6, <1>7 DEF a, T
      <3>8. CASE e \in X /\ h[e][u].addr = a
        <4>1. /\ g[e][u].state \in {"E", "M"} /\ g[e][u].numSharers = h[e][u].numSharers
              /\ g[e][u].exclusive = h[e][u].exclusive /\ g[e][u].addr = h[e][u].addr
          BY <3>5, <3>8, <1>2, <1>4
        <4>2. Allows(g[e][u], g[d][v])
          BY <3>2, <3>4, <4>1, <1>2, <2>0 DEF Allows, isExclusive
        <4> QED
          BY <4>2
      <3>9. CASE ~(e \in X /\ h[e][u].addr = a)
        <4>1. g[e][u] = h[e][u]
          BY <3>5, <3>7, <3>9, <1>5
        <4> QED
          BY <3>2, <3>4, <4>1, <1>2, <2>0 DEF Allows
      <3> QED
        BY <3>8, <3>9
    <2> QED
      BY <2>1, <2>2
  <1> QED
    BY <1>1, <1>10, <1>11, <1>12, <1>17, <1>18 DEF Sound

\* The address of line w of c is shared with line v of d, and the caches in R
\* are downgraded.
Shared(h, g, c, w, R, d, v) ==
    LET a == h[c][w].addr
        Hit(e, u) == e \in R /\ h[e][u].addr = a
    IN  /\ Typed(g)
        /\ \A e \in Caches : \A u \in Ways[e] :
             /\ g[e][u].addr = h[e][u].addr
             /\ Hit(e, u) => /\ g[e][u].state = "S" /\ g[e][u].sharers = h[e][u].sharers
                             /\ g[e][u].numSharers = h[e][u].numSharers
             /\ ~Hit(e, u) /\ (e # c \/ u # w) /\ (e # d \/ u # v) => g[e][u] = h[e][u]
        /\ g[d][v].state = "S" /\ g[d][v].sharers = h[d][v].sharers
        /\ g[d][v].numSharers = h[d][v].numSharers
        /\ g[c][w].sharers = h[c][w].sharers \cup {d} /\ g[c][w].numSharers = h[c][w].numSharers + 1
        /\ g[c][w].state = h[c][w].state \/ (g[c][w].state = "M" /\ h[c][w].state \in {"E", "M"})

\* That keeps the hierarchy sound: whoever could write was reached.
LEMMA ShareSound ==
    ASSUME NEW h, Sound(h), NEW c \in L2s \cup Banks, NEW w \in Ways[c], NEW d \in Children(c), NEW v \in Ways[d],
           h[d][v].addr = h[c][w].addr, h[d][v].state = "I", h[c][w].state # "I",
           NEW R \in SUBSET ((L1s \cup L2s) \ {c}),
           Spreads(h, h[c][w].addr, Targets(h[c][w], "INVX"), R, "INVX"),
           NEW g, Shared(h, g, c, w, R, d, v)
    PROVE  Sound(g)
  <1> DEFINE a == h[c][w].addr
             T == Targets(h[c][w], "INVX")
  <1>0. c \in Caches /\ c \notin R /\ R \subseteq Caches /\ d \in L1s \cup L2s /\ d \in Caches /\ d # c
    BY Family DEF Caches
  <1>1. Typed(g)
    BY DEF Shared
  <1>2. \A e \in Caches : \A u \in Ways[e] : g[e][u].addr = h[e][u].addr
    BY DEF Shared
  <1>3. \A e \in R : \A u \in Ways[e] : h[e][u].addr = a =>
            /\ g[e][u].state = "S" /\ g[e][u].sharers = h[e][u].sharers
            /\ g[e][u].numSharers = h[e][u].numSharers /\ h[e][u].state # "I"
    <2>1. \A e \in R : \A u \in Ways[e] : h[e][u].addr = a => h[e][u].state # "I"
      BY ReachedValid
    <2> QED
      BY <1>0, <2>1 DEF Shared
  <1>4. /\ g[d][v].state = "S" /\ g[d][v].sharers = h[d][v].sharers
        /\ g[d][v].numSharers = h[d][v].numSharers
    BY DEF Shared
  <1>5. \A e \in Caches : \A u \in Ways[e] :
            \/ g[e][u] = h[e][u]
            \/ h[e][u].addr = a /\ (e \in R \/ (e = c /\ u = w) \/ (e = d /\ u = v))
    BY DEF Shared
  <1>6. /\ g[c][w].sharers = h[c][w].sharers \cup {d} /\ g[c][w].numSharers = h[c][w].numSharers + 1
        /\ g[c][w].state = h[c][w].state \/ (g[c][w].state = "M" /\ h[c][w].state \in {"E", "M"})
    BY DEF Shared
  <1>7. /\ T \subseteq R
        /\ \A e \in R : \A u \in Ways[e] : h[e][u].addr = a => Targets(h[e][u], "INVX") \subseteq R
    BY DEF Spreads
  <1>8. a # NoAddr /\ a \in Addrs
    BY <1>0, ValidLine, CoherenceAssumption
  <1>9. d \notin h[c][w].sharers
    <2> SUFFICES ASSUME d \in h[c][w].sharers PROVE FALSE
      OBVIOUS
    <2>1. PICK x \in Ways[d] : h[d][x].addr = a /\ h[d][x].state # "I"
      BY DEF Sound, Directory, Has
    <2>2. x = v
      BY <2>1, <1>0, ValidLine
    <2> QED
      BY <2>1, <2>2
  <1> HIDE DEF a, T
  <1>10. Unique(g)
    BY <1>2 DEF Sound, Unique
  <1>11. Counted(g)
    <2> SUFFICES ASSUME NEW e \in Caches, NEW u \in Ways[e]
                 PROVE  g[e][u].numSharers = Cardinality(g[e][u].sharers)
      BY DEF Counted
    <2>0. h[e][u].numSharers = Cardinality(h[e][u].sharers) /\ IsFiniteSet(h[e][u].sharers)
      BY SharerCount
    <2>1. CASE e = c /\ u = w
      <3>1. Cardinality(h[c][w].sharers \cup {d}) = Cardinality(h[c][w].sharers) + 1
        BY <2>0, <2>1, <1>9, FS_AddElement
      <3> QED
        BY <2>0, <2>1, <3>1, <1>6
    <2>2. CASE e # c \/ u # w
      BY <2>0, <2>2, <1>3, <1>4, <1>5
    <2> QED
      BY <2>1, <2>2
  <1>12. Vacant(g)
    BY <1>2, <1>5, <1>8 DEF Sound, Vacant
  <1>13. \A x \in Caches : \A y : Has(g, x, y) <=> Has(h, x, y) \/ (x = d /\ y = a)
    <2> SUFFICES ASSUME NEW x \in Caches, NEW y PROVE Has(g, x, y) <=> Has(h, x, y) \/ (x = d /\ y = a)
      OBVIOUS
    <2>1. Has(h, x, y) => Has(g, x, y)
      BY <1>2, <1>3, <1>4, <1>5, <1>6 DEF Has
    <2>2. Has(g, d, a)
      BY <1>0, <1>2, <1>4 DEF Has, a
    <2>3. Has(g, x, y) /\ ~(x = d /\ y = a) => Has(h, x, y)
      BY <1>2, <1>3, <1>5, <1>6 DEF Has
    <2> QED
      BY <2>1, <2>2, <2>3
  <1>14. Directory(g)
    <2> SUFFICES ASSUME NEW e \in L2s \cup Banks, NEW u \in Ways[e], NEW x \in Children(e)
                 PROVE  x \in g[e][u].sharers <=> Has(h, x, h[e][u].addr) \/ (x = d /\ h[e][u].addr = a)
      BY <1>2, <1>13, Family DEF Directory, Caches
    <2>0. e \in Caches /\ x \in L1s \cup L2s
      BY Family DEF Caches
    <2>h. x \in h[e][u].sharers <=> Has(h, x, h[e][u].addr)
      BY DEF Sound, Directory
    <2>1. CASE e = c /\ u = w
      BY <2>1, <2>h, <1>6 DEF a
    <2>2. CASE e # c \/ u # w
      <3>1. g[e][u].sharers = h[e][u].sharers
        BY <2>0, <2>2, <1>3, <1>4, <1>5
      <3>2. ~(x = d /\ h[e][u].addr = a)
        BY <2>2, <1>8, OneLineAbove DEF a
      <3> QED
        BY <2>h, <3>1, <3>2
    <2> QED
      BY <2>1, <2>2
  <1>15. Inclusive(g)
    <2> SUFFICES ASSUME NEW x \in L1s \cup L2s, NEW y \in Ways[x], g[x][y].state # "I"
                 PROVE  \E e \in Parents(x) : \E u \in Ways[e] : Allows(g[e][u], g[x][y])
      BY DEF Inclusive
    <2>0. x \in Caches
      BY DEF Caches
    <2>1. CASE x = d /\ y = v
      <3>1. Allows(g[c][w], g[x][y])
        BY <2>1, <1>0, <1>2, <1>4, <1>6 DEF Allows, a
      <3>2. c \in Parents(x)
        BY <2>1, <1>0, Family
      <3> QED
        BY <3>1, <3>2
    <2>2. CASE x # d \/ y # v
      <3>2. /\ h[x][y].state # "I"
            /\ g[x][y].state \in {"E", "M"} =>
                  h[x][y].state \in {"E", "M"} /\ ~(x \in R /\ h[x][y].addr = a)
        BY <2>0, <2>2, <1>3, <1>5, <1>6
      <3>3. PICK e \in Parents(x) : \E u \in Ways[e] : Allows(h[e][u], h[x][y])
        BY <3>2 DEF Sound, Inclusive
      <3>4. PICK u \in Ways[e] : Allows(h[e][u], h[x][y])
        BY <3>3
      <3>5. e \in L2s \cup Banks /\ e \in Caches /\ x \in Children(e) /\ h[e][u].addr = h[x][y].addr
        BY <3>4, Family DEF Caches, Allows
      <3>6. x \in h[e][u].sharers
        BY <3>2, <3>5, LineAbove
      <3>7. e # d \/ u # v
        BY <3>4 DEF Allows
      <3>8. g[e][u].state # "I" /\ g[e][u].addr = g[x][y].addr
        BY <2>0, <3>4, <3>5, <3>7, <1>2, <1>3, <1>5, <1>6 DEF Allows
      <3>9. ASSUME g[x][y].state \in {"E", "M"} PROVE isExclusive(g[e][u]) /\ g[e][u].state \in {"E", "M"}
        <4>1. isExclusive(h[e][u]) /\ h[e][u].state \in {"E", "M"}
          BY <3>2, <3>4, <3>9 DEF Allows
        <4>2. Targets(h[e][u], "INVX") = h[e][u].sharers
          BY <4>1 DEF Targets
        <4>3. ~(h[e][u].addr = a /\ e \in R) /\ ~(e = c /\ u = w)
          BY <4>2, <3>2, <3>5, <3>6, <3>9, <1>7 DEF a, T
        <4> QED
          BY <4>1, <4>3, <3>5, <3>7, <1>5
      <3>10. Allows(g[e][u], g[x][y])
        BY <3>8, <3>9 DEF Allows
      <3> QED
        BY <3>10
    <2> QED
      BY <2>1, <2>2
  <1> QED
    BY <1>1, <1>10, <1>11, <1>12, <1>14, <1>15 DEF Sound

-----------------------------------------------------------------------------
(***************************************************************************)
(* What the controllers do, line by line.                                  *)
(***************************************************************************)

\* sendInvalidates() of INV.
LEMMA InvShape ==
    ASSUME NEW h, Typed(h), NEW c \in Caches, NEW w \in Ways[c], c \notin Reached(h, c, w, "INV")
    PROVE  LET g == sendInvalidates(h, c, w, "INV")
               Hit(e, u) == e \in Reached(h, c, w, "INV") /\ h[e][u].addr = h[c][w].addr
           IN  /\ Typed(g)
               /\ \A e \in Caches : \A u \in Ways[e] :
                    /\ g[e][u].addr = h[e][u].addr
                    /\ Hit(e, u) => g[e][u].state = "I" /\ g[e][u].sharers = {} /\ g[e][u].numSharers = 0
                    /\ ~Hit(e, u) /\ (e # c \/ u # w) => g[e][u] = h[e][u]
               /\ g[c][w].state = h[c][w].state /\ g[c][w].sharers = {} /\ g[c][w].numSharers = 0
  <1> DEFINE R == Reached(h, c, w, "INV")
             a == h[c][w].addr
             g == sendInvalidates(h, c, w, "INV")
             to(d, v) == IF d \in R /\ h[d][v].addr = a THEN InvLine(h[d][v], "INV")
                         ELSE IF d = c /\ v = w THEN InvDirectory(h[d][v], "INV")
                         ELSE h[d][v]
  <1>1. g = [d \in Caches |-> [v \in Ways[d] |-> to(d, v)]]
    BY DEF sendInvalidates
  <1>2. \A d \in Caches : \A v \in Ways[d] :
          LET x == InvDirectory(h[d][v], "INV")
          IN  /\ x \in Lines(d) /\ x.addr = h[d][v].addr /\ x.state = h[d][v].state
              /\ x.sharers = {} /\ x.numSharers = 0
    <2> SUFFICES ASSUME NEW d \in Caches, NEW v \in Ways[d], NEW e, e = h[d][v], e \in Lines(d)
                 PROVE  LET x == InvDirectory(e, "INV")
                        IN  /\ x \in Lines(d) /\ x.addr = e.addr /\ x.state = e.state
                            /\ x.sharers = {} /\ x.numSharers = 0
      BY DEF Typed
    <2> QED
      BY DEF InvDirectory, Lines
  <1>3. \A d \in Caches : \A v \in Ways[d] :
          LET x == InvLine(h[d][v], "INV")
          IN  /\ x \in Lines(d) /\ x.addr = h[d][v].addr /\ x.state = "I"
              /\ x.sharers = {} /\ x.numSharers = 0
    <2> SUFFICES ASSUME NEW d \in Caches, NEW v \in Ways[d], NEW e, e = h[d][v], e \in Lines(d)
                 PROVE  LET x == InvLine(e, "INV")
                        IN  /\ x \in Lines(d) /\ x.addr = e.addr /\ x.state = "I"
                            /\ x.sharers = {} /\ x.numSharers = 0
      BY SMTT(30) DEF Typed
    <2> QED
      BY DEF InvLine, InvDirectory, Lines, MESIStates
  <1> HIDE DEF R, a, g
  <1>4. DOMAIN g = Caches /\ \A d \in Caches : DOMAIN g[d] = Ways[d]
    BY <1>1
  <1>5. \A d \in Caches : \A v \in Ways[d] : g[d][v] = to(d, v)
    BY <1>1
  <1>6. Typed(g)
    BY <1>2, <1>3, <1>4, <1>5 DEF Typed
  <1>7. \A e \in Caches : \A u \in Ways[e] :
          /\ g[e][u].addr = h[e][u].addr
          /\ e \in R /\ h[e][u].addr = a => g[e][u].state = "I" /\ g[e][u].sharers = {} /\ g[e][u].numSharers = 0
          /\ ~(e \in R /\ h[e][u].addr = a) /\ (e # c \/ u # w) => g[e][u] = h[e][u]
    BY <1>2, <1>3, <1>5, SMTT(30)
  <1>8. g[c][w].state = h[c][w].state /\ g[c][w].sharers = {} /\ g[c][w].numSharers = 0
    BY <1>2, <1>5 DEF R
  <1> QED
    BY <1>6, <1>7, <1>8 DEF R, a, g

\* sendInvalidates() of INVX.
LEMMA InvxShape ==
    ASSUME NEW h, Typed(h), NEW c \in Caches, NEW w \in Ways[c], c \notin Reached(h, c, w, "INVX")
    PROVE  LET g == sendInvalidates(h, c, w, "INVX")
               Hit(e, u) == e \in Reached(h, c, w, "INVX") /\ h[e][u].addr = h[c][w].addr
           IN  /\ Typed(g)
               /\ \A e \in Caches : \A u \in Ways[e] :
                    /\ g[e][u].addr = h[e][u].addr /\ g[e][u].sharers = h[e][u].sharers
                    /\ g[e][u].numSharers = h[e][u].numSharers
                    /\ Hit(e, u) => g[e][u].state = "S"
                    /\ ~Hit(e, u) /\ (e # c \/ u # w) => g[e][u] = h[e][u]
               /\ g[c][w].state = h[c][w].state
  <1> DEFINE R == Reached(h, c, w, "INVX")
             a == h[c][w].addr
             g == sendInvalidates(h, c, w, "INVX")
             to(d, v) == IF d \in R /\ h[d][v].addr = a THEN InvLine(h[d][v], "INVX")
                         ELSE IF d = c /\ v = w THEN InvDirectory(h[d][v], "INVX")
                         ELSE h[d][v]
  <1>1. g = [d \in Caches |-> [v \in Ways[d] |-> to(d, v)]]
    BY DEF sendInvalidates
  <1>2. \A d \in Caches : \A v \in Ways[d] :
          LET x == InvDirectory(h[d][v], "INVX")
          IN  /\ x \in Lines(d) /\ x.addr = h[d][v].addr /\ x.state = h[d][v].state
              /\ x.sharers = h[d][v].sharers /\ x.numSharers = h[d][v].numSharers
    <2> SUFFICES ASSUME NEW d \in Caches, NEW v \in Ways[d], NEW e, e = h[d][v], e \in Lines(d)
                 PROVE  LET x == InvDirectory(e, "INVX")
                        IN  /\ x \in Lines(d) /\ x.addr = e.addr /\ x.state = e.state
                            /\ x.sharers = e.sharers /\ x.numSharers = e.numSharers
      BY DEF Typed
    <2> QED
      BY DEF InvDirectory, Lines
  <1>3. \A d \in Caches : \A v \in Ways[d] :
          LET x == InvLine(h[d][v], "INVX")
          IN  /\ x \in Lines(d) /\ x.addr = h[d][v].addr /\ x.state = "S"
              /\ x.sharers = h[d][v].sharers /\ x.numSharers = h[d][v].numSharers
    <2> SUFFICES ASSUME NEW d \in Caches, NEW v \in Ways[d], NEW e, e = h[d][v], e \in Lines(d)
                 PROVE  LET x == InvLine(e, "INVX")
                        IN  /\ x \in Lines(d) /\ x.addr = e.addr /\ x.state = "S"
                            /\ x.sharers = e.sharers /\ x.numSharers = e.numSharers
      BY DEF Typed
    <2> QED
      BY DEF InvLine, InvDirectory, Lines, MESIStates
  <1> HIDE DEF R, a, g
  <1>4. DOMAIN g = Caches /\ \A d \in Caches : DOMAIN g[d] = Ways[d]
    BY <1>1
  <1>5. \A d \in Caches : \A v \in Ways[d] : g[d][v] = to(d, v)
    BY <1>1
  <1>6. Typed(g)
    BY <1>2, <1>3, <1>4, <1>5 DEF Typed
  <1>7. \A e \in Caches : \A u \in Ways[e] :
          /\ g[e][u].addr = h[e][u].addr /\ g[e][u].sharers = h[e][u].sharers
          /\ g[e][u].numSharers = h[e][u].numSharers
          /\ e \in R /\ h[e][u].addr = a => g[e][u].state = "S"
          /\ ~(e \in R /\ h[e][u].addr = a) /\ (e # c \/ u # w) => g[e][u] = h[e][u]
    BY <1>2, <1>3, <1>5
  <1>8. g[c][w].state = h[c][w].state
    BY <1>2, <1>5 DEF R
  <1> QED
    BY <1>6, <1>7, <1>8 DEF R, a, g

\* Line v of d is granted state y, and added to the sharers of line w of c.
Granted(s, c, w, x, b, d, v, y) ==
    [s EXCEPT ![c][w].state = x, ![c][w].sharers = @ \cup {d}, ![c][w].numSharers = @ + 1,
              ![c][w].exclusive = b, ![d][v].state = y]

\* The grant that follows an invalidation changes those two lines.
LEMMA GrantShape ==
    ASSUME NEW s, Typed(s), NEW c \in Caches, NEW w \in Ways[c], NEW d \in Children(c), NEW v \in Ways[d],
           d \in Caches, d # c, NEW x \in MESIStates, NEW y \in MESIStates, NEW b \in BOOLEAN
    PROVE  LET g == Granted(s, c, w, x, b, d, v, y)
           IN  /\ Typed(g)
               /\ \A e \in Caches : \A u \in Ways[e] :
                    /\ g[e][u].addr = s[e][u].addr
                    /\ (e # c \/ u # w) /\ (e # d \/ u # v) => g[e][u] = s[e][u]
               /\ g[c][w].state = x /\ g[c][w].sharers = s[c][w].sharers \cup {d}
               /\ g[c][w].numSharers = s[c][w].numSharers + 1 /\ g[c][w].exclusive = b
               /\ g[d][v].state = y /\ g[d][v].sharers = s[d][v].sharers
               /\ g[d][v].numSharers = s[d][v].numSharers /\ g[d][v].exclusive = s[d][v].exclusive
  <1>0. s[c][w].numSharers + 1 \in Nat
    BY DEF Typed, Lines
  <1>q. PICK q : q \in Nat /\ q = s[c][w].numSharers + 1
    BY <1>0
  <1> DEFINE g == Granted(s, c, w, x, b, d, v, y)
             m == [s[c][w] EXCEPT !.state = x, !.sharers = @ \cup {d}, !.numSharers = q, !.exclusive = b]
             n == [s[d][v] EXCEPT !.state = y]
  <1>1. /\ m \in Lines(c) /\ m.addr = s[c][w].addr /\ m.state = x /\ m.sharers = s[c][w].sharers \cup {d}
        /\ m.numSharers = q /\ m.exclusive = b
    <2>1. s[c][w] \in Lines(c)
      BY DEF Typed
    <2> QED
      BY <1>q, <2>1 DEF Lines
  <1>2. /\ n \in Lines(d) /\ n.addr = s[d][v].addr /\ n.state = y /\ n.sharers = s[d][v].sharers
        /\ n.numSharers = s[d][v].numSharers /\ n.exclusive = s[d][v].exclusive
    BY DEF Typed, Lines
  <1>3. g = [s EXCEPT ![c] = [s[c] EXCEPT ![w] = m], ![d] = [s[d] EXCEPT ![v] = n]]
    <2>1. s[c][w] \in Lines(c)
      BY DEF Typed
    <2>2. [s[c][w] EXCEPT !.state = x, !.sharers = @ \cup {d}, !.numSharers = @ + 1, !.exclusive = b] = m
      BY <1>q, <2>1 DEF Lines
    <2>3. g = [s EXCEPT ![c] = [s[c] EXCEPT ![w] =
                                  [s[c][w] EXCEPT !.state = x, !.sharers = @ \cup {d}, !.numSharers = @ + 1,
                                                  !.exclusive = b]],
                        ![d] = [s[d] EXCEPT ![v] = n]]
      BY ZenonT(60) DEF Typed, Granted
    <2> QED
      BY <2>2, <2>3
  <1> HIDE DEF m, n, g
  <1>4. /\ DOMAIN g = Caches /\ \A e \in Caches : DOMAIN g[e] = Ways[e]
        /\ g[c][w] = m /\ g[d][v] = n
        /\ \A e \in Caches : \A u \in Ways[e] :
             (e # c \/ u # w) /\ (e # d \/ u # v) => g[e][u] = s[e][u]
    BY <1>3 DEF Typed
  <1>5. Typed(g)
    BY <1>1, <1>2, <1>4 DEF Typed
  <1>6. \A e \in Caches : \A u \in Ways[e] : g[e][u].addr = s[e][u].addr
    BY <1>1, <1>2, <1>4
  <1>7. /\ g[c][w].state = x /\ g[c][w].sharers = s[c][w].sharers \cup {d}
        /\ g[c][w].numSharers = s[c][w].numSharers + 1 /\ g[c][w].exclusive = b
        /\ g[d][v].state = y /\ g[d][v].sharers = s[d][v].sharers
        /\ g[d][v].numSharers = s[d][v].numSharers /\ g[d][v].exclusive = s[d][v].exclusive
    BY <1>q, <1>1, <1>2, <1>4
  <1> QED
    BY <1>4, <1>5, <1>6, <1>7 DEF g

\* The first sharer of a line is granted E.
FirstGranted(h, c, w, d, v) ==
    [h EXCEPT ![c][w].sharers = {d}, ![c][w].numSharers = 1, ![c][w].exclusive = TRUE, ![d][v].state = "E"]

\* That grant changes those two lines.
LEMMA FirstGrantShape ==
    ASSUME NEW h, Typed(h), NEW c \in Caches, NEW w \in Ways[c], NEW d \in Children(c), NEW v \in Ways[d],
           d \in Caches, d # c
    PROVE  LET g == FirstGranted(h, c, w, d, v)
           IN  /\ Typed(g)
               /\ \A e \in Caches : \A u \in Ways[e] :
                    /\ g[e][u].addr = h[e][u].addr
                    /\ (e # c \/ u # w) /\ (e # d \/ u # v) => g[e][u] = h[e][u]
               /\ g[c][w].state = h[c][w].state /\ g[c][w].sharers = {d}
               /\ g[c][w].numSharers = 1 /\ g[c][w].exclusive
               /\ g[d][v].state = "E" /\ g[d][v].sharers = h[d][v].sharers
               /\ g[d][v].numSharers = h[d][v].numSharers /\ g[d][v].exclusive = h[d][v].exclusive
  <1> DEFINE g == FirstGranted(h, c, w, d, v)
             m == [h[c][w] EXCEPT !.sharers = {d}, !.numSharers = 1, !.exclusive = TRUE]
             n == [h[d][v] EXCEPT !.state = "E"]
  <1>1. /\ m \in Lines(c) /\ m.addr = h[c][w].addr /\ m.state = h[c][w].state /\ m.sharers = {d}
        /\ m.numSharers = 1 /\ m.exclusive
    <2>1. h[c][w] \in Lines(c)
      BY DEF Typed
    <2> QED
      BY <2>1 DEF Lines
  <1>2. /\ n \in Lines(d) /\ n.addr = h[d][v].addr /\ n.state = "E" /\ n.sharers = h[d][v].sharers
        /\ n.numSharers = h[d][v].numSharers /\ n.exclusive = h[d][v].exclusive
    <2>1. h[d][v] \in Lines(d)
      BY DEF Typed
    <2> QED
      BY <2>1 DEF Lines, MESIStates
  <1>3. g = [h EXCEPT ![c] = [h[c] EXCEPT ![w] = m], ![d] = [h[d] EXCEPT ![v] = n]]
    BY DEF Typed, FirstGranted
  <1> HIDE DEF m, n, g
  <1>4. /\ DOMAIN g = Caches /\ \A e \in Caches : DOMAIN g[e] = Ways[e]
        /\ g[c][w] = m /\ g[d][v] = n
        /\ \A e \in Caches : \A u \in Ways[e] :
             (e # c \/ u # w) /\ (e # d \/ u # v) => g[e][u] = h[e][u]
    BY <1>3 DEF Typed
  <1>5. Typed(g)
    BY <1>1, <1>2, <1>4 DEF Typed
  <1>6. \A e \in Caches : \A u \in Ways[e] : g[e][u].addr = h[e][u].addr
    BY <1>1, <1>2, <1>4
  <1> QED
    BY <1>1, <1>2, <1>4, <1>5, <1>6 DEF g

-----------------------------------------------------------------------------
(***************************************************************************)
(* What the controllers preserve, and what they do to the lines of others. *)
(***************************************************************************)

\* What may happen to a line at any time.
Degraded(e, f) ==
    /\ f.addr = e.addr
    /\ f.state \in {e.state, "I"} \/ (f.state = "S" /\ e.state \in {"E", "M"})
    /\ f.sharers \subseteq e.sharers

\* Only lines w of c and v of d gain anything.
Gains(h, g, c, w, d, v) ==
    \A e \in Caches : \A u \in Ways[e] :
        /\ g[e][u].addr = h[e][u].addr
        /\ (e # c \/ u # w) /\ (e # d \/ u # v) => Degraded(h[e][u], g[e][u])

Modified(h, a) == \E c \in Caches : \E w \in Ways[c] : h[c][w].addr = a /\ h[c][w].state = "M"

\* If a cache that is reached may write, so may the sender.
LEMMA WriterBelow ==
    ASSUME NEW h, Sound(h), NEW c \in L2s \cup Banks, NEW w \in Ways[c], NEW T \in SUBSET h[c][w].sharers,
           NEW R \in SUBSET ((L1s \cup L2s) \ {c}), NEW type, Spreads(h, h[c][w].addr, T, R, type),
           NEW e \in R, NEW u \in Ways[e], h[e][u].addr = h[c][w].addr, h[e][u].state \in {"E", "M"}
    PROVE  h[c][w].state \in {"E", "M"}
  <1>0. \A f \in Caches : \A x \in Ways[f] : h[f][x].sharers \subseteq Children(f)
    BY DEF Sound, Typed, Lines
  <1>1. T \subseteq Children(c)
    BY <1>0 DEF Caches
  <1>2. ASSUME NEW f \in T, NEW x \in Ways[f], h[f][x].addr = h[c][w].addr, h[f][x].state \in {"E", "M"}
        PROVE  h[c][w].state \in {"E", "M"}
    BY <1>1, <1>2, LineAbove DEF Allows
  <1>3. CASE e \in T
    BY <1>2, <1>3
  <1>4. CASE e \notin T
    <2>1. PICK f \in T : \E x \in Ways[f] : h[f][x].addr = h[c][w].addr /\ e \in Targets(h[f][x], type)
      BY <1>4 DEF Spreads
    <2>2. PICK x \in Ways[f] : h[f][x].addr = h[c][w].addr /\ e \in Targets(h[f][x], type)
      BY <2>1
    <2>3. f \in Caches /\ f \in L1s \cup L2s
      BY DEF Spreads, Caches
    <2>4. e \in Children(f)
      BY <2>2, <2>3, <1>0 DEF Targets
    <2>5. f \in L2s
      BY <2>3, <2>4, Family
    <2>6. h[f][x].state \in {"E", "M"}
      BY <2>2, <2>4, <2>5, LineAbove DEF Allows
    <2> QED
      BY <2>2, <2>6, <1>2
  <1> QED
    BY <1>3, <1>4

\* A GETS: the child gets S, or E if nobody else has the line.
LEMMA GetSEffect ==
    ASSUME NEW h, Sound(h), NEW c \in L2s \cup Banks, NEW w \in Ways[c], NEW d \in Children(c), NEW v \in Ways[d],
           h[d][v].addr = h[c][w].addr, h[d][v].state = "I", h[c][w].state # "I", NEW noexcl \in BOOLEAN
    PROVE  LET g == GetS(h, c, w, noexcl, d, v)
           IN  /\ Sound(g) /\ Gains(h, g, c, w, d, v)
               /\ g[d][v].state \in {"S", "E"}
               /\ \A x : Modified(g, x) <=> Modified(h, x)
  <1> DEFINE g == GetS(h, c, w, noexcl, d, v)
             a == h[c][w].addr
  <1>0. /\ Typed(h) /\ c \in Caches /\ d \in Caches /\ d # c /\ d \in L1s \cup L2s
        /\ h[c][w].sharers \subseteq Children(c) /\ h[c][w].state \in MESIStates
    BY Family DEF Sound, Caches, Typed, Lines
  <1>1. a # NoAddr
    BY <1>0, ValidLine, CoherenceAssumption
  <1>u. \A u \in Ways[d] : h[d][u].addr = a => u = v
    BY <1>0, <1>1 DEF Sound, Unique, Peers
  <1>2. CASE h[c][w].numSharers = 0 /\ h[c][w].state \in {"E", "M"} /\ ~noexcl
    <2>1. g = FirstGranted(h, c, w, d, v)
      BY <1>2 DEF GetS, FirstGranted
    <2> HIDE DEF g
    <2>2. h[c][w].sharers = {}
      BY <1>0, <1>2, SharerCount
    <2>3. /\ Typed(g)
          /\ \A e \in Caches : \A u \in Ways[e] :
               /\ g[e][u].addr = h[e][u].addr
               /\ (e # c \/ u # w) /\ (e # d \/ u # v) => g[e][u] = h[e][u]
          /\ g[c][w].state = h[c][w].state /\ g[c][w].sharers = {d}
          /\ g[c][w].numSharers = 1 /\ g[c][w].exclusive
          /\ g[d][v].state = "E" /\ g[d][v].sharers = h[d][v].sharers
          /\ g[d][v].numSharers = h[d][v].numSharers /\ g[d][v].exclusive = h[d][v].exclusive
      BY <2>1, <1>0, FirstGrantShape
    <2>4. Purged(h, g, c, w, {}, {d})
      <3>1. Cardinality({d}) = 1
        BY FS_Singleton
      <3> QED
        BY <3>1, <2>3, <1>2, <1>u DEF Purged
    <2>5. Spreads(h, a, h[c][w].sharers \ {d}, {}, "INV")
      BY <2>2 DEF Spreads
    <2>6. Sound(g)
      BY <2>4, <2>5, <1>1, PurgeSound
    <2>7. Gains(h, g, c, w, d, v)
      BY <2>3 DEF Gains, Degraded
    <2>8. \A x : Modified(g, x) <=> Modified(h, x)
      BY <2>3, <1>0 DEF Modified
    <2> QED
      BY <2>3, <2>6, <2>7, <2>8 DEF g
  <1>3. CASE ~(h[c][w].numSharers = 0 /\ h[c][w].state \in {"E", "M"} /\ ~noexcl)
    <2> DEFINE R == Reached(h, c, w, "INVX")
               s == sendInvalidates(h, c, w, "INVX")
               ind == InducedWriteback(h, c, w, "INVX")
               x0 == IF ind THEN "M" ELSE s[c][w].state
    <2>1. g = Granted(s, c, w, x0, FALSE, d, v, "S")
      BY <1>3 DEF GetS, Granted
    <2>2. R \subseteq (L1s \cup L2s) \ {c} /\ Spreads(h, a, Targets(h[c][w], "INVX"), R, "INVX")
      BY ReachedSpreads DEF SameBut
    <2>3. /\ Typed(s)
          /\ \A e \in Caches : \A u \in Ways[e] :
               /\ s[e][u].addr = h[e][u].addr /\ s[e][u].sharers = h[e][u].sharers
               /\ s[e][u].numSharers = h[e][u].numSharers
               /\ e \in R /\ h[e][u].addr = a => s[e][u].state = "S"
               /\ ~(e \in R /\ h[e][u].addr = a) /\ (e # c \/ u # w) => s[e][u] = h[e][u]
          /\ s[c][w].state = h[c][w].state
      BY <1>0, <2>2, InvxShape
    <2>4. ind <=> \E e \in R : \E u \in Ways[e] : h[e][u].addr = a /\ h[e][u].state = "M"
      BY DEF InducedWriteback, lookup
    <2>5. ind => h[c][w].state \in {"E", "M"}
      <3>1. Targets(h[c][w], "INVX") \in SUBSET h[c][w].sharers
        BY DEF Targets
      <3> QED
        BY <2>2, <2>4, <3>1, WriterBelow
    <2>6. \A e \in R : \A u \in Ways[e] : h[e][u].addr = a => h[e][u].state # "I"
      BY <2>2, ReachedValid
    <2>7. d \notin R
      BY <2>6
    <2>8. x0 \in MESIStates /\ "S" \in MESIStates /\ FALSE \in BOOLEAN
      BY <1>0, <2>3 DEF MESIStates
    <2> HIDE DEF R, s, ind, x0, g
    <2>9. /\ Typed(g)
          /\ \A e \in Caches : \A u \in Ways[e] :
               /\ g[e][u].addr = s[e][u].addr
               /\ (e # c \/ u # w) /\ (e # d \/ u # v) => g[e][u] = s[e][u]
          /\ g[c][w].state = x0 /\ g[c][w].sharers = s[c][w].sharers \cup {d}
          /\ g[c][w].numSharers = s[c][w].numSharers + 1
          /\ g[d][v].state = "S" /\ g[d][v].sharers = s[d][v].sharers
          /\ g[d][v].numSharers = s[d][v].numSharers
      <3>1. PICK b : b = FALSE /\ b \in BOOLEAN
        OBVIOUS
      <3>2. g = Granted(s, c, w, x0, b, d, v, "S")
        BY <2>1, <3>1
      <3> QED
        BY <1>0, <2>3, <2>8, <3>1, <3>2, GrantShape
    <2>10. Shared(h, g, c, w, R, d, v)
      BY <1>0, <2>2, <2>3, <2>5, <2>7, <2>9 DEF Shared, x0
    <2>11. Sound(g)
      BY <2>2, <2>10, ShareSound
    <2>12. \A e \in R : \A u \in Ways[e] : h[e][u].addr = a => h[e][u].state \in {"S", "E", "M"}
      BY <2>2, <2>6 DEF Sound, Typed, Lines, MESIStates, Caches
    <2>13. Gains(h, g, c, w, d, v)
      BY <2>3, <2>9, <2>12 DEF Gains, Degraded
    <2>14. \A x : Modified(g, x) <=> Modified(h, x)
      <3> SUFFICES ASSUME NEW x PROVE Modified(g, x) <=> Modified(h, x)
        OBVIOUS
      <3>1. ASSUME Modified(h, x) PROVE Modified(g, x)
        <4>1. PICK e \in Caches : \E u \in Ways[e] : h[e][u].addr = x /\ h[e][u].state = "M"
          BY <3>1 DEF Modified
        <4>2. PICK u \in Ways[e] : h[e][u].addr = x /\ h[e][u].state = "M"
          BY <4>1
        <4>3. CASE (e \in R /\ x = a) \/ (e = c /\ u = w)
          <5>1. x = a /\ g[c][w].state = "M"
            BY <4>2, <4>3, <2>3, <2>4, <2>9 DEF x0
          <5> QED
            BY <5>1, <1>0, <2>3, <2>9 DEF Modified
        <4>4. CASE ~((e \in R /\ x = a) \/ (e = c /\ u = w))
          <5>1. g[e][u] = h[e][u]
            BY <4>2, <4>4, <2>3, <2>9
          <5> QED
            BY <4>2, <5>1 DEF Modified
        <4> QED
          BY <4>3, <4>4
      <3>2. ASSUME Modified(g, x) PROVE Modified(h, x)
        <4>1. PICK e \in Caches : \E u \in Ways[e] : g[e][u].addr = x /\ g[e][u].state = "M"
          BY <3>2 DEF Modified
        <4>2. PICK u \in Ways[e] : g[e][u].addr = x /\ g[e][u].state = "M"
          BY <4>1
        <4>3. h[e][u].addr = x
          BY <4>2, <2>3, <2>9
        <4>4. CASE e = c /\ u = w
          BY <4>2, <4>3, <4>4, <2>2, <2>3, <2>4, <2>9 DEF x0, Modified, Caches
        <4>5. CASE e # c \/ u # w
          BY <4>2, <4>3, <4>5, <2>3, <2>9 DEF Modified
        <4> QED
          BY <4>4, <4>5
      <3> QED
        BY <3>1, <3>2
    <2> QED
      BY <2>9, <2>11, <2>13, <2>14 DEF g
  <1> QED
    BY <1>2, <1>3

\* The line before it invalidates the other sharers of a GETX.
OwnOnly(h, c, w, d) ==
    [h EXCEPT ![c][w].sharers = @ \ {d}, ![c][w].numSharers = IF d \in h[c][w].sharers THEN @ - 1 ELSE @]

\* It has forgotten that d is a sharer.
LEMMA OwnShape ==
    ASSUME NEW h, Sound(h), NEW c \in Caches, NEW w \in Ways[c], NEW d
    PROVE  LET k == OwnOnly(h, c, w, d)
           IN  /\ Typed(k) /\ SameBut(h, k, c, w)
               /\ k[c][w].addr = h[c][w].addr /\ k[c][w].state = h[c][w].state
               /\ k[c][w].sharers = h[c][w].sharers \ {d}
  <1>0. Typed(h) /\ h[c][w] \in Lines(c)
    BY DEF Sound, Typed
  <1>1. (IF d \in h[c][w].sharers THEN h[c][w].numSharers - 1 ELSE h[c][w].numSharers) \in Nat
    <2>1. h[c][w].numSharers \in Nat /\ (d \in h[c][w].sharers => h[c][w].numSharers # 0)
      BY SharerCount
    <2> QED
      BY <2>1
  <1>q. PICK q : q \in Nat /\ q = IF d \in h[c][w].sharers THEN h[c][w].numSharers - 1 ELSE h[c][w].numSharers
    BY <1>1
  <1> DEFINE m == [h[c][w] EXCEPT !.sharers = @ \ {d}, !.numSharers = q]
             k == OwnOnly(h, c, w, d)
  <1>2. /\ m \in Lines(c) /\ m.addr = h[c][w].addr /\ m.state = h[c][w].state
        /\ m.sharers = h[c][w].sharers \ {d}
    BY <1>0, <1>q DEF Lines
  <1>3. k = [h EXCEPT ![c] = [h[c] EXCEPT ![w] = m]]
    <2> DEFINE m2 == [h[c][w] EXCEPT !.sharers = @ \ {d},
                                     !.numSharers = IF d \in h[c][w].sharers THEN @ - 1 ELSE @]
    <2>1. m2 = m
      BY <1>0, <1>q DEF Lines
    <2>2. k = [h EXCEPT ![c] = [h[c] EXCEPT ![w] = m2]]
      BY <1>0 DEF OwnOnly, Typed
    <2> QED
      BY <2>1, <2>2
  <1> HIDE DEF m, k
  <1>4. DOMAIN k = Caches /\ \A e \in Caches : DOMAIN k[e] = Ways[e]
    BY <1>0, <1>3 DEF Typed
  <1>5. k[c][w] = m /\ SameBut(h, k, c, w)
    BY <1>0, <1>3 DEF Typed, SameBut
  <1>6. Typed(k)
    BY <1>0, <1>2, <1>4, <1>5 DEF Typed, SameBut
  <1> QED
    BY <1>2, <1>5, <1>6 DEF k

\* A GETX: the child gets M, and everybody else loses the line.
LEMMA GetXEffect ==
    ASSUME NEW h, Sound(h), NEW c \in L2s \cup Banks, NEW w \in Ways[c], NEW d \in Children(c), NEW v \in Ways[d],
           h[d][v].addr = h[c][w].addr, h[c][w].state = "M"
    PROVE  LET g == GetX(h, c, w, d, v)
           IN  /\ Sound(g) /\ Gains(h, g, c, w, d, v)
               /\ g[d][v].state = "M"
               /\ \A x : Modified(g, x) <=> Modified(h, x)
  <1> DEFINE g == GetX(h, c, w, d, v)
             a == h[c][w].addr
             k == OwnOnly(h, c, w, d)
             R == Reached(k, c, w, "INV")
             s == sendInvalidates(k, c, w, "INV")
             x0 == IF InducedWriteback(k, c, w, "INV") THEN "M" ELSE s[c][w].state
  <1>0. /\ Typed(h) /\ c \in Caches /\ d \in Caches /\ d # c /\ d \in L1s \cup L2s
        /\ h[c][w].sharers \subseteq Children(c)
    BY Family DEF Sound, Caches, Typed, Lines
  <1>1. a # NoAddr
    BY <1>0, ValidLine, CoherenceAssumption
  <1>u. \A u \in Ways[d] : h[d][u].addr = a => u = v
    BY <1>0, <1>1 DEF Sound, Unique, Peers
  <1>2. g = Granted(s, c, w, x0, TRUE, d, v, "M")
    BY DEF GetX, Granted, OwnOnly
  <1> HIDE DEF k
  <1>3. /\ Typed(k) /\ SameBut(h, k, c, w)
        /\ k[c][w].addr = h[c][w].addr /\ k[c][w].state = h[c][w].state
        /\ k[c][w].sharers = h[c][w].sharers \ {d}
    BY <1>0, OwnShape DEF k
  <1>4. R \subseteq (L1s \cup L2s) \ {c} /\ Spreads(h, a, h[c][w].sharers \ {d}, R, "INV")
    <2>1. Targets(k[c][w], "INV") = h[c][w].sharers \ {d}
      BY <1>3 DEF Targets
    <2>2. k[c][w].sharers \subseteq h[c][w].sharers
      BY <1>3
    <2>3. R \subseteq (L1s \cup L2s) \ {c} /\ Spreads(h, h[c][w].addr, Targets(k[c][w], "INV"), R, "INV")
      BY <1>3, <2>2, ReachedSpreads
    <2> QED
      BY <2>1, <2>3
  <1>5. \A e \in Caches : \A u \in Ways[e] : e # c \/ u # w => k[e][u] = h[e][u]
    BY <1>3 DEF SameBut
  <1>6. /\ Typed(s)
        /\ \A e \in Caches : \A u \in Ways[e] :
             /\ s[e][u].addr = h[e][u].addr
             /\ e \in R /\ h[e][u].addr = a => s[e][u].state = "I" /\ s[e][u].sharers = {} /\ s[e][u].numSharers = 0
             /\ ~(e \in R /\ h[e][u].addr = a) /\ (e # c \/ u # w) => s[e][u] = h[e][u]
        /\ s[c][w].state = "M" /\ s[c][w].sharers = {} /\ s[c][w].numSharers = 0
    <2>1. \A e \in Caches : \A u \in Ways[e] : k[e][u].addr = h[e][u].addr
      BY <1>3, <1>5
    <2>2. /\ Typed(s)
          /\ \A e \in Caches : \A u \in Ways[e] :
               /\ s[e][u].addr = k[e][u].addr
               /\ e \in R /\ k[e][u].addr = k[c][w].addr =>
                      s[e][u].state = "I" /\ s[e][u].sharers = {} /\ s[e][u].numSharers = 0
               /\ ~(e \in R /\ k[e][u].addr = k[c][w].addr) /\ (e # c \/ u # w) => s[e][u] = k[e][u]
          /\ s[c][w].state = k[c][w].state /\ s[c][w].sharers = {} /\ s[c][w].numSharers = 0
      BY <1>0, <1>3, <1>4, InvShape
    <2> HIDE DEF s, R
    <2> QED
      BY <1>0, <1>3, <1>5, <2>1, <2>2
  <1>7. d \notin R
    <2> SUFFICES ASSUME d \in R PROVE FALSE
      OBVIOUS
    <2> HIDE DEF R
    <2>1. PICK f \in h[c][w].sharers \ {d} : \E u \in Ways[f] :
              h[f][u].addr = a /\ d \in Targets(h[f][u], "INV")
      BY <1>4 DEF Spreads
    <2>2. f \in Children(c) /\ f \in L1s \cup L2s /\ f \in Caches
      BY <1>0, Family DEF Caches
    <2>3. d \in Children(f)
      BY <2>1, <2>2 DEF Targets, Sound, Typed, Lines
    <2>4. f \in L2s /\ d \in L1s
      BY <2>2, <2>3, Family
    <2>5. c \notin Banks /\ c \in L2s
      BY <2>4, Family
    <2> QED
      BY <2>2, <2>4, <2>5, Family
  <1>8. x0 = "M" /\ x0 \in MESIStates /\ "M" \in MESIStates
    BY <1>6 DEF MESIStates
  <1> HIDE DEF R, s, x0, g
  <1>9. /\ Typed(g)
        /\ \A e \in Caches : \A u \in Ways[e] :
             /\ g[e][u].addr = s[e][u].addr
             /\ (e # c \/ u # w) /\ (e # d \/ u # v) => g[e][u] = s[e][u]
        /\ g[c][w].state = "M" /\ g[c][w].sharers = s[c][w].sharers \cup {d}
        /\ g[c][w].numSharers = s[c][w].numSharers + 1 /\ g[c][w].exclusive
        /\ g[d][v].state = "M" /\ g[d][v].sharers = s[d][v].sharers
        /\ g[d][v].numSharers = s[d][v].numSharers /\ g[d][v].exclusive = s[d][v].exclusive
    <2>1. PICK b : b = TRUE /\ b \in BOOLEAN
      OBVIOUS
    <2>2. g = Granted(s, c, w, x0, b, d, v, "M")
      BY <1>2, <2>1
    <2>3. /\ Typed(g)
          /\ \A e \in Caches : \A u \in Ways[e] :
               /\ g[e][u].addr = s[e][u].addr
               /\ (e # c \/ u # w) /\ (e # d \/ u # v) => g[e][u] = s[e][u]
          /\ g[c][w].state = x0 /\ g[c][w].sharers = s[c][w].sharers \cup {d}
          /\ g[c][w].numSharers = s[c][w].numSharers + 1 /\ g[c][w].exclusive = b
          /\ g[d][v].state = "M" /\ g[d][v].sharers = s[d][v].sharers
          /\ g[d][v].numSharers = s[d][v].numSharers /\ g[d][v].exclusive = s[d][v].exclusive
      <3>1. b \in BOOLEAN /\ x0 \in MESIStates /\ "M" \in MESIStates /\ Typed(s)
        BY <1>6, <1>8, <2>1
      <3> QED
        BY <1>0, <2>2, <3>1, GrantShape
    <2> QED
      BY <1>8, <2>1, <2>3
  <1>10. Purged(h, g, c, w, R, {d})
    <2>1. Cardinality({d}) = 1
      BY FS_Singleton
    <2>2. /\ g[c][w].sharers = {d} /\ g[c][w].numSharers = 1
      BY <1>6, <1>9
    <2>3. s[d][v] = h[d][v]
      BY <1>0, <1>6, <1>7
    <2> QED
      BY <2>1, <2>2, <2>3, <1>0, <1>4, <1>6, <1>7, <1>9, <1>u DEF Purged
  <1>11. Sound(g)
    <2>1. {d} \in SUBSET Children(c) /\ R \in SUBSET ((L1s \cup L2s) \ {c}) /\ R \cap {d} = {}
      BY <1>4, <1>7
    <2> QED
      BY <2>1, <1>1, <1>4, <1>10, PurgeSound
  <1>12. Gains(h, g, c, w, d, v)
    BY <1>6, <1>9 DEF Gains, Degraded
  <1>13. \A x : Modified(g, x) <=> Modified(h, x)
    <2>1. \A e \in Caches : \A u \in Ways[e] : h[e][u].addr # a => g[e][u] = h[e][u]
      BY <1>0, <1>6, <1>9
    <2>2. \A e \in Caches : \A u \in Ways[e] : g[e][u].addr = h[e][u].addr
      BY <1>6, <1>9
    <2>3. Modified(g, a) /\ Modified(h, a)
      BY <1>0, <1>9, <2>2 DEF Modified
    <2> QED
      BY <2>1, <2>2, <2>3 DEF Modified
  <1> QED
    BY <1>9, <1>11, <1>12, <1>13 DEF g

\* An eviction takes the line from all below, and remembers if it was dirty.
LEMMA EvictedEffect ==
    ASSUME NEW h, Sound(h), NEW c \in L2s \cup Banks, NEW w \in Ways[c]
    PROVE  LET g == Evicted(h, c, w)
           IN  /\ Sound(g) /\ Gains(h, g, c, w, c, w)
               /\ g[c][w].sharers = {}
               /\ g[c][w].state = h[c][w].state \/ (g[c][w].state = "M" /\ h[c][w].state \in {"E", "M"})
               /\ \A x : Modified(g, x) <=> Modified(h, x)
  <1> DEFINE g == Evicted(h, c, w)
             a == h[c][w].addr
             R == Reached(h, c, w, "INV")
             s == sendInvalidates(h, c, w, "INV")
             ind == InducedWriteback(h, c, w, "INV")
  <1>0. /\ Typed(h) /\ c \in Caches /\ h[c][w].sharers \subseteq Children(c) /\ "M" \in MESIStates
    BY DEF Sound, Caches, Typed, Lines, MESIStates
  <1>1. R \subseteq (L1s \cup L2s) \ {c} /\ Spreads(h, a, h[c][w].sharers, R, "INV")
    <2>1. Targets(h[c][w], "INV") = h[c][w].sharers
      BY DEF Targets
    <2> QED
      BY <2>1, ReachedSpreads DEF SameBut
  <1>2. /\ Typed(s)
        /\ \A e \in Caches : \A u \in Ways[e] :
             /\ s[e][u].addr = h[e][u].addr
             /\ e \in R /\ h[e][u].addr = a => s[e][u].state = "I" /\ s[e][u].sharers = {} /\ s[e][u].numSharers = 0
             /\ ~(e \in R /\ h[e][u].addr = a) /\ (e # c \/ u # w) => s[e][u] = h[e][u]
        /\ s[c][w].state = h[c][w].state /\ s[c][w].sharers = {} /\ s[c][w].numSharers = 0
    BY <1>0, <1>1, InvShape
  <1>3. ind <=> \E e \in R : \E u \in Ways[e] : h[e][u].addr = a /\ h[e][u].state = "M"
    BY DEF InducedWriteback, lookup
  <1>4. ind => h[c][w].state \in {"E", "M"}
    BY <1>1, <1>3, WriterBelow
  <1>5. g = IF ind THEN SetState(s, c, w, "M") ELSE s
    BY DEF Evicted
  <1> HIDE DEF R, s, ind, g
  <1>6. /\ Typed(g)
        /\ \A e \in Caches : \A u \in Ways[e] :
             /\ g[e][u].addr = h[e][u].addr
             /\ e # c \/ u # w => g[e][u] = s[e][u]
        /\ g[c][w].sharers = {} /\ g[c][w].numSharers = 0
        /\ g[c][w].state = IF ind THEN "M" ELSE h[c][w].state
    <2>1. CASE ind
      <3>1. g = SetState(s, c, w, "M")
        BY <2>1, <1>5
      <3>2. /\ Typed(g) /\ SameBut(s, g, c, w)
            /\ g[c][w].addr = s[c][w].addr /\ g[c][w].state = "M"
            /\ g[c][w].sharers = s[c][w].sharers /\ g[c][w].numSharers = s[c][w].numSharers
        BY <1>0, <1>2, <3>1, SetStateShape
      <3> QED
        BY <2>1, <3>2, <1>0, <1>2 DEF SameBut
    <2>2. CASE ~ind
      BY <2>2, <1>2, <1>5
    <2> QED
      BY <2>1, <2>2
  <1>7. g[c][w].state = h[c][w].state \/ (g[c][w].state = "M" /\ h[c][w].state \in {"E", "M"})
    BY <1>4, <1>6
  <1>8. Purged(h, g, c, w, R, {})
    BY <1>0, <1>1, <1>2, <1>6, <1>7, FS_EmptySet DEF Purged
  <1>9. Sound(g)
    <2>1. h[c][w].sharers \ {} = h[c][w].sharers /\ {} \in SUBSET Children(c) /\ R \cap {} = {}
          /\ R \in SUBSET ((L1s \cup L2s) \ {c})
      BY <1>1
    <2> QED
      BY <2>1, <1>1, <1>8, PurgeSound
  <1>10. Gains(h, g, c, w, c, w)
    BY <1>2, <1>6 DEF Gains, Degraded
  <1>11. \A x : Modified(g, x) <=> Modified(h, x)
    <2> SUFFICES ASSUME NEW x PROVE Modified(g, x) <=> Modified(h, x)
      OBVIOUS
    <2>1. ASSUME Modified(h, x) PROVE Modified(g, x)
      <3>1. PICK e \in Caches : \E u \in Ways[e] : h[e][u].addr = x /\ h[e][u].state = "M"
        BY <2>1 DEF Modified
      <3>2. PICK u \in Ways[e] : h[e][u].addr = x /\ h[e][u].state = "M"
        BY <3>1
      <3>3. CASE (e \in R /\ x = a) \/ (e = c /\ u = w)
        <4>1. x = a /\ g[c][w].state = "M"
          BY <3>2, <3>3, <1>3, <1>6
        <4> QED
          BY <4>1, <1>0, <1>6 DEF Modified
      <3>4. CASE ~((e \in R /\ x = a) \/ (e = c /\ u = w))
        BY <3>2, <3>4, <1>2, <1>6 DEF Modified
      <3> QED
        BY <3>3, <3>4
    <2>2. ASSUME Modified(g, x) PROVE Modified(h, x)
      <3>1. PICK e \in Caches : \E u \in Ways[e] : g[e][u].addr = x /\ g[e][u].state = "M"
        BY <2>2 DEF Modified
      <3>2. PICK u \in Ways[e] : g[e][u].addr = x /\ g[e][u].state = "M"
        BY <3>1
      <3>3. h[e][u].addr = x
        BY <3>2, <1>6
      <3>4. CASE e = c /\ u = w
        BY <3>2, <3>3, <3>4, <1>1, <1>3, <1>6 DEF Modified, Caches
      <3>5. CASE e # c \/ u # w
        BY <3>2, <3>3, <3>5, <1>2, <1>6 DEF Modified
      <3> QED
        BY <3>4, <3>5
    <2> QED
      BY <2>1, <2>2
  <1> QED
    BY <1>6, <1>7, <1>9, <1>10, <1>11 DEF g

\* A PUT from line v of d to line w of c, whose state becomes x.
PutShaped(h, c, w, x, d, v) ==
    [h EXCEPT ![c][w].state = x, ![c][w].sharers = @ \ {d}, ![c][w].numSharers = @ - 1, ![d][v].state = "I"]

\* It changes those two lines.
LEMMA PutShape ==
    ASSUME NEW h, Sound(h), NEW c \in Caches, NEW w \in Ways[c], NEW d \in h[c][w].sharers, NEW v \in Ways[d],
           d \in Caches, d # c, NEW x \in MESIStates
    PROVE  LET g == PutShaped(h, c, w, x, d, v)
           IN  /\ Typed(g)
               /\ \A e \in Caches : \A u \in Ways[e] :
                    /\ g[e][u].addr = h[e][u].addr
                    /\ (e # c \/ u # w) /\ (e # d \/ u # v) => g[e][u] = h[e][u]
               /\ g[c][w].state = x /\ g[c][w].sharers = h[c][w].sharers \ {d}
               /\ g[c][w].numSharers = h[c][w].numSharers - 1
               /\ g[c][w].exclusive = h[c][w].exclusive
               /\ g[d][v].state = "I" /\ g[d][v].sharers = h[d][v].sharers
               /\ g[d][v].numSharers = h[d][v].numSharers
  <1>t. Typed(h) /\ h[c][w] \in Lines(c) /\ h[d][v] \in Lines(d)
    BY DEF Sound, Typed
  <1>0. h[c][w].numSharers - 1 \in Nat
    <2>1. h[c][w].numSharers \in Nat /\ h[c][w].numSharers # 0
      BY SharerCount
    <2> QED
      BY <2>1
  <1>q. PICK q : q \in Nat /\ q = h[c][w].numSharers - 1
    BY <1>0
  <1> DEFINE g == PutShaped(h, c, w, x, d, v)
             m == [h[c][w] EXCEPT !.state = x, !.sharers = @ \ {d}, !.numSharers = q]
             n == [h[d][v] EXCEPT !.state = "I"]
  <1>1. /\ m \in Lines(c) /\ m.addr = h[c][w].addr /\ m.state = x /\ m.sharers = h[c][w].sharers \ {d}
        /\ m.numSharers = q /\ m.exclusive = h[c][w].exclusive
    BY <1>q, <1>t DEF Lines
  <1>2. /\ n \in Lines(d) /\ n.addr = h[d][v].addr /\ n.state = "I" /\ n.sharers = h[d][v].sharers
        /\ n.numSharers = h[d][v].numSharers
    BY <1>t DEF Lines, MESIStates
  <1>3. g = [h EXCEPT ![c] = [h[c] EXCEPT ![w] = m], ![d] = [h[d] EXCEPT ![v] = n]]
    <2> DEFINE m2 == [h[c][w] EXCEPT !.state = x, !.sharers = @ \ {d}, !.numSharers = @ - 1]
    <2>1. m2 = m
      BY <1>q, <1>t DEF Lines
    <2>2. g = [h EXCEPT ![c] = [h[c] EXCEPT ![w] = m2], ![d] = [h[d] EXCEPT ![v] = n]]
      BY <1>t DEF Typed, PutShaped
    <2> QED
      BY <2>1, <2>2
  <1> HIDE DEF m, n, g
  <1>4. /\ DOMAIN g = Caches /\ \A e \in Caches : DOMAIN g[e] = Ways[e]
        /\ g[c][w] = m /\ g[d][v] = n
        /\ \A e \in Caches : \A u \in Ways[e] :
             (e # c \/ u # w) /\ (e # d \/ u # v) => g[e][u] = h[e][u]
    BY <1>3, <1>t DEF Typed
  <1>5. Typed(g)
    BY <1>1, <1>2, <1>4, <1>t DEF Typed
  <1>6. \A e \in Caches : \A u \in Ways[e] : g[e][u].addr = h[e][u].addr
    BY <1>1, <1>2, <1>4
  <1>7. /\ g[c][w].state = x /\ g[c][w].sharers = h[c][w].sharers \ {d}
        /\ g[c][w].numSharers = h[c][w].numSharers - 1
        /\ g[c][w].exclusive = h[c][w].exclusive
        /\ g[d][v].state = "I" /\ g[d][v].sharers = h[d][v].sharers
        /\ g[d][v].numSharers = h[d][v].numSharers
    BY <1>q, <1>1, <1>2, <1>4
  <1> QED
    BY <1>4, <1>5, <1>6, <1>7 DEF g

\* A PUT of a valid line without sharers, PUTX if it is in M.
LEMMA PutEffect ==
    ASSUME NEW h, Sound(h), NEW c \in L2s \cup Banks, NEW w \in Ways[c], NEW d \in Children(c), NEW v \in Ways[d],
           h[d][v].addr = h[c][w].addr, h[d][v].state # "I", h[d][v].sharers = {},
           NEW type, type = "PUTX" <=> h[d][v].state = "M"
    PROVE  LET g == PutAccess(h, c, w, type, d, v)
           IN  /\ Sound(g) /\ Gains(h, g, c, w, d, v)
               /\ g[d][v].state = "I" /\ g[d][v].sharers = {}
               /\ \A x : Modified(g, x) <=> Modified(h, x)
  <1> DEFINE g == PutAccess(h, c, w, type, d, v)
             a == h[c][w].addr
             x0 == IF type = "PUTX" THEN "M" ELSE h[c][w].state
  <1>0. /\ Typed(h) /\ c \in Caches /\ d \in Caches /\ d # c /\ d \in L1s \cup L2s
        /\ h[c][w].state \in MESIStates
    BY Family DEF Sound, Caches, Typed, Lines
  <1>1. Allows(h[c][w], h[d][v]) /\ d \in h[c][w].sharers /\ a # NoAddr
    BY LineAbove
  <1>u. \A u \in Ways[d] : h[d][u].addr = a => u = v
    BY <1>0, ValidLine
  <1>2. x0 \in MESIStates /\ (x0 = h[c][w].state \/ (x0 = "M" /\ h[c][w].state \in {"E", "M"}))
    BY <1>0, <1>1 DEF MESIStates, Allows
  <1>3. g = PutShaped(h, c, w, x0, d, v)
    BY DEF PutAccess, PutShaped
  <1> HIDE DEF g, x0
  <1>4. /\ Typed(g)
        /\ \A e \in Caches : \A u \in Ways[e] :
             /\ g[e][u].addr = h[e][u].addr
             /\ (e # c \/ u # w) /\ (e # d \/ u # v) => g[e][u] = h[e][u]
        /\ g[c][w].state = x0 /\ g[c][w].sharers = h[c][w].sharers \ {d}
        /\ g[c][w].numSharers = h[c][w].numSharers - 1
        /\ g[c][w].exclusive = h[c][w].exclusive
        /\ g[d][v].state = "I" /\ g[d][v].sharers = h[d][v].sharers
        /\ g[d][v].numSharers = h[d][v].numSharers
    BY <1>0, <1>1, <1>2, <1>3, PutShape
  <1>5. Unique(g)
    BY <1>4 DEF Sound, Unique
  <1>6. Vacant(g)
    BY <1>1, <1>4 DEF Sound, Vacant
  <1>7. Counted(g)
    <2> SUFFICES ASSUME NEW e \in Caches, NEW u \in Ways[e]
                 PROVE  g[e][u].numSharers = Cardinality(g[e][u].sharers)
      BY DEF Counted
    <2>0. h[e][u].numSharers = Cardinality(h[e][u].sharers) /\ IsFiniteSet(h[e][u].sharers)
      BY SharerCount
    <2>1. CASE e = c /\ u = w
      <3>1. Cardinality(h[c][w].sharers \ {d}) = Cardinality(h[c][w].sharers) - 1
        BY <2>0, <2>1, <1>1, FS_RemoveElement
      <3> QED
        BY <2>0, <2>1, <3>1, <1>4
    <2>2. CASE e # c \/ u # w
      BY <2>0, <2>2, <1>4
    <2> QED
      BY <2>1, <2>2
  <1>8. \A x \in Caches : \A y : Has(g, x, y) <=> Has(h, x, y) /\ ~(x = d /\ y = a)
    <2> SUFFICES ASSUME NEW x \in Caches, NEW y PROVE Has(g, x, y) <=> Has(h, x, y) /\ ~(x = d /\ y = a)
      OBVIOUS
    <2>1. ~Has(g, d, a)
      BY <1>0, <1>4, <1>u DEF Has
    <2>2. \A z \in Ways[x] : ~(x = d /\ z = v) => (g[x][z].state = "I" <=> h[x][z].state = "I")
      BY <1>2, <1>4
    <2>3. Has(g, x, y) => Has(h, x, y)
      BY <1>4, <2>2 DEF Has
    <2>4. ~(x = d /\ y = a) /\ Has(h, x, y) => Has(g, x, y)
      BY <1>4, <2>2 DEF Has
    <2> QED
      BY <2>1, <2>3, <2>4
  <1>9. Directory(g)
    <2> SUFFICES ASSUME NEW e \in L2s \cup Banks, NEW u \in Ways[e], NEW x \in Children(e)
                 PROVE  x \in g[e][u].sharers <=> Has(h, x, h[e][u].addr) /\ ~(x = d /\ h[e][u].addr = a)
      BY <1>4, <1>8, Family DEF Directory, Caches
    <2>0. e \in Caches /\ x \in L1s \cup L2s
      BY Family DEF Caches
    <2>h. x \in h[e][u].sharers <=> Has(h, x, h[e][u].addr)
      BY DEF Sound, Directory
    <2>1. CASE e = c /\ u = w
      BY <2>1, <2>h, <1>4
    <2>2. CASE e # c \/ u # w
      <3>1. g[e][u].sharers = h[e][u].sharers
        BY <2>0, <2>2, <1>4
      <3>2. ~(x = d /\ h[e][u].addr = a)
        BY <2>2, <1>1, OneLineAbove
      <3> QED
        BY <2>h, <3>1, <3>2
    <2> QED
      BY <2>1, <2>2
  <1>10. Inclusive(g)
    <2> SUFFICES ASSUME NEW x \in L1s \cup L2s, NEW y \in Ways[x], g[x][y].state # "I"
                 PROVE  \E e \in Parents(x) : \E u \in Ways[e] : Allows(g[e][u], g[x][y])
      BY DEF Inclusive
    <2>0. x \in Caches
      BY DEF Caches
    <2>1. /\ x # d \/ y # v
          /\ h[x][y].state # "I"
          /\ g[x][y].state \in {"E", "M"} => h[x][y].state \in {"E", "M"}
      BY <2>0, <1>2, <1>4
    <2>2. PICK e \in Parents(x) : \E u \in Ways[e] : Allows(h[e][u], h[x][y])
      BY <2>1 DEF Sound, Inclusive
    <2>3. PICK u \in Ways[e] : Allows(h[e][u], h[x][y])
      BY <2>2
    <2>4. e \in L2s \cup Banks /\ e \in Caches /\ x \in Children(e) /\ h[e][u].addr = h[x][y].addr
      BY <2>3, Family DEF Caches, Allows
    <2>5. x \in h[e][u].sharers
      BY <2>1, <2>4, LineAbove
    <2>6. e # d \/ u # v
      BY <2>5
    <2>7. CASE e = c /\ u = w
      <3>1. x # d
        BY <2>1, <2>4, <2>7, <1>u
      <3>2. h[c][w].numSharers # 1
        BY <2>5, <2>7, <3>1, <1>0, <1>1, SharerCount
      <3>3. h[x][y].state \notin {"E", "M"}
        BY <2>3, <2>7, <3>2 DEF Allows, isExclusive
      <3>4. Allows(g[e][u], g[x][y])
        BY <2>0, <2>1, <2>3, <2>4, <2>7, <3>3, <1>2, <1>4 DEF Allows
      <3> QED
        BY <3>4
    <2>8. CASE e # c \/ u # w
      <3>1. g[e][u] = h[e][u]
        BY <2>4, <2>6, <2>8, <1>4
      <3>2. Allows(g[e][u], g[x][y])
        BY <2>0, <2>1, <2>3, <3>1, <1>4 DEF Allows
      <3> QED
        BY <3>2
    <2> QED
      BY <2>7, <2>8
  <1>11. Gains(h, g, c, w, d, v)
    BY <1>4 DEF Gains, Degraded
  <1>12. \A x : Modified(g, x) <=> Modified(h, x)
    <2> SUFFICES ASSUME NEW x PROVE Modified(g, x) <=> Modified(h, x)
      OBVIOUS
    <2>1. CASE h[d][v].state = "M"
      <3>1. g[c][w].state = "M" /\ g[c][w].addr = a
        BY <2>1, <1>0, <1>4 DEF x0
      <3>2. Modified(g, a) /\ Modified(h, a)
        BY <2>1, <3>1, <1>0 DEF Modified
      <3>3. x # a => (Modified(g, x) <=> Modified(h, x))
        BY <1>4 DEF Modified
      <3> QED
        BY <3>2, <3>3
    <2>2. CASE h[d][v].state # "M"
      <3>1. \A e \in Caches : \A u \in Ways[e] : g[e][u].state = "M" <=> h[e][u].state = "M"
        BY <2>2, <1>4 DEF x0
      <3> QED
        BY <3>1, <1>4 DEF Modified
    <2> QED
      BY <2>1, <2>2
  <1> QED
    BY <1>4, <1>5, <1>6, <1>7, <1>9, <1>10, <1>11, <1>12 DEF Sound, g

\* A GET that the parent can serve.
LEMMA GetAccessEffect ==
    ASSUME NEW h, Sound(h), NEW c \in L2s \cup Banks, NEW w \in Ways[c], NEW d \in Children(c), NEW v \in Ways[d],
           h[d][v].addr = h[c][w].addr, NEW type \in {"GETS", "GETX"}, NEW noexcl \in BOOLEAN,
           ~NeedsParent(h[c][w].state, type), type = "GETS" => h[d][v].state = "I"
    PROVE  LET g == GetAccess(h, c, w, type, noexcl, d, v)
           IN  /\ Sound(g) /\ Gains(h, g, c, w, d, v)
               /\ g[d][v].state \in IF type = "GETS" THEN {"S", "E"} ELSE {"M"}
               /\ \A x : Modified(g, x) <=> Modified(h, x) \/ (type = "GETX" /\ x = h[c][w].addr)
  <1> DEFINE g == GetAccess(h, c, w, type, noexcl, d, v)
  <1>0. c \in Caches /\ d \in Caches /\ d # c /\ Typed(h) /\ h[c][w].state \in MESIStates
    BY Family DEF Caches, Sound, Typed, Lines
  <1>1. CASE type = "GETS"
    <2>1. g = GetS(h, c, w, noexcl, d, v)
      BY <1>1 DEF GetAccess
    <2>2. h[c][w].state # "I" /\ h[d][v].state = "I"
      BY <1>1 DEF NeedsParent
    <2> HIDE DEF g
    <2>3. /\ Sound(g) /\ Gains(h, g, c, w, d, v) /\ g[d][v].state \in {"S", "E"}
          /\ \A x : Modified(g, x) <=> Modified(h, x)
      BY <2>1, <2>2, GetSEffect
    <2> QED
      BY <1>1, <2>3 DEF g
  <1>2. CASE type = "GETX"
    <2> DEFINE k == SetState(h, c, w, "M")
    <2>1. g = GetX(k, c, w, d, v)
      BY <1>2 DEF GetAccess
    <2>2. h[c][w].state \in {"E", "M"}
      BY <1>0, <1>2 DEF NeedsParent, MESIStates
    <2>3. h[c][w].addr # NoAddr /\ "M" \in MESIStates /\ "M" \in MESIStates \ {"I"}
      BY <1>0, <2>2, ValidLine, CoherenceAssumption DEF MESIStates
    <2>4. Sound(k)
      BY <1>0, <2>2, <2>3, SetStateSound
    <2>5. /\ SameBut(h, k, c, w)
          /\ k[c][w].addr = h[c][w].addr /\ k[c][w].state = "M"
      BY <1>0, <2>3, SetStateShape
    <2> HIDE DEF g, k
    <2>6. k[d][v] = h[d][v]
      BY <1>0, <2>5 DEF SameBut
    <2>7. /\ Sound(g) /\ Gains(k, g, c, w, d, v) /\ g[d][v].state = "M"
          /\ \A x : Modified(g, x) <=> Modified(k, x)
      BY <2>1, <2>4, <2>5, <2>6, GetXEffect
    <2>8. Gains(h, g, c, w, d, v)
      BY <2>5, <2>7 DEF Gains, SameBut
    <2>9. \A x : Modified(k, x) <=> Modified(h, x) \/ x = h[c][w].addr
      BY <1>0, <2>5 DEF Modified, SameBut
    <2> QED
      BY <1>2, <2>7, <2>8, <2>9 DEF g
  <1> QED
    BY <1>1, <1>2

-----------------------------------------------------------------------------
(***************************************************************************)
(* The threads.                                                            *)
(***************************************************************************)

\* memory lacks exactly the lines that some cache has in M.
DirtyInv == \A a \in Addrs : a \in dirty <=> Modified(cache, a)

\* Line u of e gains nothing, for those who read through e.
Keeps(h, g, e, u) ==
    \/ g[e][u].state = "I"
    \/ /\ g[e][u].addr = h[e][u].addr
       /\ g[e][u].state = h[e][u].state \/ (g[e][u].state = "S" /\ h[e][u].state \in {"E", "M"})

\* The L1s lose permissions, or one line of one of them gains one.
L1Step(h, g) ==
    \/ \A e \in L1s : \A u \in Ways[e] : Keeps(h, g, e, u)
    \/ \E c \in L1s : \E w \in Ways[c] :
         /\ g[c][w].addr \in Addrs /\ g[c][w].state # "I"
         /\ \A e \in L1s : \A u \in Ways[e] : e # c \/ u # w => Keeps(h, g, e, u)

\* What every step is shown to do.
StepOK == IInv' /\ (DirtyInv => DirtyInv') /\ L1Step(cache, cache')

\* A value that the thread of c may have made of the hierarchy before it
\* completes: only the L2 of c may have gained anything.
Mid(h, c) ==
    /\ Sound(h)
    /\ \A e \in (L1s \cup L2s) \ {parent[c]} : \A u \in Ways[e] : Degraded(cache[e][u], h[e][u])

\* No other thread is on its way to the LLC from the L2 of c.
AloneAtL2(c) == \A d \in L1s : d # c /\ parent[d] = parent[c] => pc[d] \notin AtLLC

\* Degradations add up.
LEMMA DegradedTwice ==
    ASSUME NEW e, NEW f, NEW g, Degraded(e, f), Degraded(f, g)
    PROVE  Degraded(e, g)
  BY DEF Degraded

\* A line that waits, or that leaves, may be degraded.
LEMMA DegradedWaits ==
    ASSUME NEW e, NEW f, Degraded(e, f), NEW type, NEW i, NEW a
    PROVE  /\ LineWaits(e, type, i, a) => LineWaits(f, type, i, a)
           /\ LineLeaves(e, i) => LineLeaves(f, i)
  BY DEF Degraded, LineWaits, LineLeaves

\* A pending request does not mind what others do to its lines.
LEMMA OthersWait ==
    ASSUME NEW h, NEW g, NEW d \in L1s, NEW k, NEW o, Waiting(h, d, k, o),
           \A u \in Ways[d] : Degraded(h[d][u], g[d][u]),
           k \in AtLLC => \A u \in Ways[parent[d]] : Degraded(h[parent[d]][u], g[parent[d]][u])
    PROVE  Waiting(g, d, k, o)
  <1> DEFINE p == parent[d]
  <1>1. /\ k # "idle" => o.addr \in Addrs /\ o.w1 \in Ways[d]
        /\ k \in AtLLC => o.w2 \in Ways[p]
    BY DEF Waiting
  <1>2. k = "put1" => lookup(g, d, o.addr) = {} /\ LineLeaves(g[d][o.w1], o.i1)
    <2> SUFFICES ASSUME k = "put1" PROVE lookup(g, d, o.addr) = {} /\ LineLeaves(g[d][o.w1], o.i1)
      OBVIOUS
    <2>1. lookup(h, d, o.addr) = {} /\ LineLeaves(h[d][o.w1], o.i1)
      BY DEF Waiting
    <2>2. \A u \in Ways[d] : g[d][u].addr = h[d][u].addr
      BY DEF Degraded
    <2> QED
      BY <2>1, <2>2, <1>1, DegradedWaits DEF lookup
  <1>3. k \in {"get1", "put2", "get2"} => LineWaits(g[d][o.w1], o.type, o.i1, o.addr)
    BY <1>1, DegradedWaits DEF Waiting
  <1>4. k = "put2" => /\ lookup(g, p, o.addr) = {}
                      /\ g[p][o.w2].sharers = {}
                      /\ LineLeaves(g[p][o.w2], o.i2)
    <2> SUFFICES ASSUME k = "put2"
                 PROVE  lookup(g, p, o.addr) = {} /\ g[p][o.w2].sharers = {} /\ LineLeaves(g[p][o.w2], o.i2)
      OBVIOUS
    <2>1. lookup(h, p, o.addr) = {} /\ h[p][o.w2].sharers = {} /\ LineLeaves(h[p][o.w2], o.i2)
      BY DEF Waiting
    <2>2. k \in AtLLC /\ \A u \in Ways[p] : g[p][u].addr = h[p][u].addr
      BY DEF Degraded, AtLLC
    <2>3. g[p][o.w2].sharers = {}
      BY <2>1, <2>2, <1>1 DEF Degraded
    <2> QED
      BY <2>1, <2>2, <2>3, <1>1, DegradedWaits DEF lookup
  <1>5. k = "get2" => LineWaits(g[p][o.w2], o.type, o.i2, o.addr)
    BY <1>1, DegradedWaits DEF Waiting, AtLLC
  <1> QED
    BY <1>1, <1>2, <1>3, <1>4, <1>5 DEF Waiting

\* A step of the thread of c leaves all threads with what they rely on.
LEMMA ThreadStep ==
    ASSUME ThreadsOK, NEW c \in L1s,
           pc' \in [L1s -> ThreadPcs], op' \in [L1s -> Requests],
           \A d \in L1s \ {c} : pc'[d] = pc[d] /\ op'[d] = op[d],
           Waiting(cache', c, pc'[c], op'[c]),
           \A e \in (L1s \cup L2s) \ {c, parent[c]} : \A u \in Ways[e] : Degraded(cache[e][u], cache'[e][u]),
           AloneAtL2(c) \/ (/\ \A u \in Ways[parent[c]] : Degraded(cache[parent[c]][u], cache'[parent[c]][u])
                            /\ pc'[c] \notin AtLLC)
    PROVE  ThreadsOK'
  <1>0. parent \in [L1s -> L2s] /\ L1s \cap L2s = {}
    BY CoherenceAssumption
  <1>1. ASSUME NEW d \in L1s, d # c PROVE Waiting(cache', d, pc'[d], op'[d])
    <2>1. Waiting(cache, d, pc[d], op[d]) /\ pc'[d] = pc[d] /\ op'[d] = op[d]
      BY <1>1 DEF ThreadsOK
    <2>2. \A u \in Ways[d] : Degraded(cache[d][u], cache'[d][u])
      BY <1>0, <1>1
    <2>3. pc[d] \in AtLLC => \A u \in Ways[parent[d]] : Degraded(cache[parent[d]][u], cache'[parent[d]][u])
      <3>1. CASE parent[d] = parent[c]
        BY <1>1, <3>1 DEF AloneAtL2
      <3>2. CASE parent[d] # parent[c]
        BY <1>0, <3>2
      <3> QED
        BY <3>1, <3>2
    <2> QED
      BY <2>1, <2>2, <2>3, OthersWait
  <1>2. OneAtLLC'
    BY DEF ThreadsOK, OneAtLLC, AloneAtL2
  <1> QED
    BY <1>1, <1>2 DEF ThreadsOK

\* What a thread is about to touch has its type.
LEMMA ThreadTypes ==
    ASSUME NEW c \in L1s
    PROVE  /\ parent[c] \in L2s /\ parent[c] \in Caches /\ c \in Caches /\ c \in Children(parent[c])
           /\ parent[c] # c /\ parent[c] \notin Banks /\ c \notin Banks /\ c \notin L2s
           /\ parent[c] \in L1s \cup L2s /\ \A b \in Banks : parent[c] \in Children(b) /\ b \in Caches
           /\ \A u \in Ways[c] : u \in AllWays /\ \A u2 \in Ways[parent[c]] : u2 \in AllWays
  <1>1. parent[c] \in L2s /\ parent[c] \in Caches /\ c \in Caches
    BY CoherenceAssumption DEF Caches
  <1> QED
    BY <1>1, CoherenceAssumption DEF Caches, Children, AllWays

\* The access completes at line w of the L2.
LEMMA CompleteStep ==
    ASSUME IInv, NEW c \in L1s, pc[c] \in {"get1", "put2", "get2"}, AloneAtL2(c),
           NEW h, Mid(h, c), NEW w \in Ways[parent[c]], h[parent[c]][w].addr = op[c].addr,
           ~NeedsParent(h[parent[c]][w].state, op[c].type), Complete(h, c, w)
    PROVE  /\ Sound(cache') /\ ThreadsOK' /\ L1Step(cache, cache')
           /\ \A x : Modified(cache', x) <=> Modified(h, x) \/ (op[c].type = "GETX" /\ x = op[c].addr)
  <1> DEFINE p == parent[c]
             v == op[c].w1
             a == op[c].addr
  <1>0. /\ Sound(h) /\ ThreadsOK /\ Waiting(cache, c, pc[c], op[c]) /\ pc \in [L1s -> ThreadPcs]
        /\ op \in [L1s -> Requests] /\ op[c].type \in {"GETS", "GETX"}
    BY DEF IInv, Mid, ThreadsOK, Requests
  <1>1. /\ p \in L2s /\ p \in Caches /\ c \in Caches /\ c \in Children(p) /\ p # c /\ p \in L2s \cup Banks
        /\ c \notin L2s
    BY ThreadTypes
  <1>2. a \in Addrs /\ v \in Ways[c] /\ LineWaits(cache[c][v], op[c].type, op[c].i1, a)
    BY <1>0 DEF Waiting
  <1>3. LineWaits(h[c][v], op[c].type, op[c].i1, a)
    <2>1. Degraded(cache[c][v], h[c][v])
      BY <1>1, <1>2 DEF Mid
    <2> QED
      BY <1>2, <2>1, DegradedWaits
  <1>4. h[c][v].addr = h[p][w].addr /\ (op[c].type = "GETS" => h[c][v].state = "I")
    BY <1>3 DEF LineWaits
  <1>b. PICK b \in BOOLEAN : b <=> c \in IFetch
    OBVIOUS
  <1>5. cache' = GetAccess(h, p, w, op[c].type, b, c, v)
    <2>1. b = (c \in IFetch)
      BY <1>b
    <2> QED
      BY <2>1 DEF Complete
  <1>6. /\ Sound(cache') /\ Gains(h, cache', p, w, c, v)
        /\ cache'[c][v].state \in IF op[c].type = "GETS" THEN {"S", "E"} ELSE {"M"}
        /\ \A x : Modified(cache', x) <=> Modified(h, x) \/ (op[c].type = "GETX" /\ x = h[p][w].addr)
    BY <1>0, <1>1, <1>2, <1>4, <1>5, <1>b, GetAccessEffect
  <1>7. \A e \in (L1s \cup L2s) \ {p} : \A u \in Ways[e] :
            e # c \/ u # v => Degraded(cache[e][u], cache'[e][u])
    <2> SUFFICES ASSUME NEW e \in (L1s \cup L2s) \ {p}, NEW u \in Ways[e], e # c \/ u # v
                 PROVE  Degraded(cache[e][u], cache'[e][u])
      OBVIOUS
    <2>1. Degraded(cache[e][u], h[e][u])
      BY DEF Mid
    <2>2. Degraded(h[e][u], cache'[e][u])
      BY <1>6 DEF Gains, Caches
    <2> QED
      BY <2>1, <2>2, DegradedTwice
  <1>8. ThreadsOK'
    <2>1. /\ pc' \in [L1s -> ThreadPcs] /\ op' \in [L1s -> Requests]
          /\ \A d \in L1s \ {c} : pc'[d] = pc[d] /\ op'[d] = op[d]
          /\ pc'[c] = "idle"
      BY <1>0 DEF Complete, ThreadPcs, Requests, NoOp, MESIStates
    <2>2. Waiting(cache', c, pc'[c], op'[c])
      BY <2>1 DEF Waiting, AtLLC
    <2> QED
      BY <2>1, <2>2, <1>0, <1>7, ThreadStep
  <1>9. L1Step(cache, cache')
    <2>1. cache'[c][v].addr = a
      BY <1>1, <1>2, <1>3, <1>6 DEF Gains, LineWaits
    <2>2. cache'[c][v].state # "I"
      BY <1>6
    <2>3. \A e \in L1s : \A u \in Ways[e] : e # c \/ u # v => Keeps(cache, cache', e, u)
      BY <1>1, <1>7, CoherenceAssumption DEF Keeps, Degraded
    <2> QED
      BY <2>1, <2>2, <2>3, <1>2 DEF L1Step
  <1> QED
    BY <1>6, <1>8, <1>9

\* The L2 section of a GET that has line w: it completes, or asks the LLC.
LEMMA ProcessStep ==
    ASSUME IInv, NEW c \in L1s, pc[c] \in {"get1", "put2"}, AloneAtL2(c),
           NEW h, Mid(h, c), NEW w \in Ways[parent[c]], h[parent[c]][w].addr = op[c].addr,
           \A x : Modified(h, x) <=> Modified(cache, x), ProcessAtL2(h, c, w)
    PROVE  StepOK
  <1> DEFINE p == parent[c]
             s == h[p][w].state
             a == op[c].addr
  <1>0. /\ Sound(h) /\ ThreadsOK /\ Waiting(cache, c, pc[c], op[c]) /\ pc \in [L1s -> ThreadPcs]
        /\ op \in [L1s -> Requests] /\ op[c].type \in {"GETS", "GETX"} /\ dirty \subseteq Addrs
        /\ op[c] \in Requests
    BY DEF IInv, Mid, ThreadsOK, Requests
  <1>1. p \in L2s /\ p \in Caches /\ c \in Caches /\ p # c /\ c \notin L2s /\ w \in AllWays
    BY ThreadTypes, CoherenceAssumption DEF AllWays
  <1>2. /\ a \in Addrs /\ op[c].w1 \in Ways[c]
        /\ LineWaits(cache[c][op[c].w1], op[c].type, op[c].i1, a)
    BY <1>0 DEF Waiting
  <1>3. CASE ~NeedsParent(s, op[c].type)
    <2>1. Complete(h, c, w) /\ dirty' = dirty \cup Written(c)
      BY <1>3 DEF ProcessAtL2
    <2>2. /\ Sound(cache') /\ ThreadsOK' /\ L1Step(cache, cache')
          /\ \A x : Modified(cache', x) <=> Modified(h, x) \/ (op[c].type = "GETX" /\ x = op[c].addr)
      BY <1>3, <2>1, CompleteStep
    <2>3. dirty' \subseteq Addrs /\ (DirtyInv => DirtyInv')
      BY <1>0, <1>2, <2>1, <2>2 DEF Written, DirtyInv
    <2> QED
      BY <2>2, <2>3 DEF StepOK, IInv
  <1>4. CASE NeedsParent(s, op[c].type)
    <2>1. /\ cache' = h /\ pc' = [pc EXCEPT ![c] = "get2"]
          /\ op' = [op EXCEPT ![c].w2 = w, ![c].i2 = s] /\ dirty' = dirty
      BY <1>4 DEF ProcessAtL2
    <2>2. s \in MESIStates
      BY <1>0, <1>1 DEF Sound, Typed, Lines
    <2> DEFINE q == [op[c] EXCEPT !.w2 = w, !.i2 = s]
    <2>3. /\ q \in Requests /\ q.addr = a /\ q.type = op[c].type /\ q.w1 = op[c].w1
          /\ q.i1 = op[c].i1 /\ q.w2 = w /\ q.i2 = s
      BY <1>0, <1>1, <2>2 DEF Requests
    <2>4. op' = [op EXCEPT ![c] = q]
      BY <2>1
    <2> HIDE DEF q
    <2>5. /\ pc' \in [L1s -> ThreadPcs] /\ op' \in [L1s -> Requests]
          /\ \A d \in L1s \ {c} : pc'[d] = pc[d] /\ op'[d] = op[d]
          /\ pc'[c] = "get2" /\ op'[c] = q
      BY <1>0, <2>1, <2>3, <2>4, ZenonT(60) DEF ThreadPcs
    <2>6. LineWaits(h[c][op[c].w1], op[c].type, op[c].i1, a)
      <3>1. Degraded(cache[c][op[c].w1], h[c][op[c].w1])
        BY <1>1, <1>2 DEF Mid
      <3> QED
        BY <1>2, <3>1, DegradedWaits
    <2>7. LineWaits(h[p][w], op[c].type, s, a)
      BY <1>4, <1>0 DEF LineWaits, NeedsParent
    <2>8. Waiting(cache', c, pc'[c], op'[c])
      BY <2>1, <2>3, <2>5, <2>6, <2>7, <1>2 DEF Waiting, AtLLC
    <2>9. ThreadsOK'
      <3>1. \A e \in (L1s \cup L2s) \ {c, p} : \A u \in Ways[e] : Degraded(cache[e][u], cache'[e][u])
        BY <2>1 DEF Mid
      <3> QED
        BY <1>0, <2>5, <2>8, <3>1, ThreadStep
    <2>10. L1Step(cache, cache')
      BY <1>1, <2>1, CoherenceAssumption DEF L1Step, Keeps, Mid, Degraded
    <2>11. DirtyInv => DirtyInv'
      BY <2>1 DEF DirtyInv
    <2> QED
      BY <1>0, <2>1, <2>9, <2>10, <2>11 DEF StepOK, IInv
  <1> QED
    BY <1>3, <1>4

-----------------------------------------------------------------------------
(***************************************************************************)
(* The steps of a thread, one by one.                                      *)
(***************************************************************************)

\* What is known before any step.
LEMMA Before ==
    ASSUME IInv, NEW c \in L1s
    PROVE  /\ Sound(cache) /\ Typed(cache) /\ ThreadsOK /\ Waiting(cache, c, pc[c], op[c])
           /\ pc \in [L1s -> ThreadPcs] /\ op \in [L1s -> Requests] /\ op[c] \in Requests
           /\ op[c].type \in {"GETS", "GETX"} /\ dirty \subseteq Addrs
           /\ \A e \in Caches : \A u \in Ways[e] : cache[e][u].state \in MESIStates
  BY DEF IInv, ThreadsOK, Requests, Sound, Typed, Lines

\* What stays as it is is degraded by nothing.
LEMMA DegradedSame ==
    ASSUME NEW e
    PROVE  Degraded(e, e)
  BY DEF Degraded

\* A write hit on E: the silent upgrade to M.
LEMMA SilentUpgradeStep ==
    ASSUME IInv, NEW c \in L1s, NEW a \in Addrs, SilentUpgrade(c, a)
    PROVE  StepOK
  <1>0. Sound(cache) /\ Typed(cache) /\ ThreadsOK /\ pc[c] = "idle"
    BY Before DEF SilentUpgrade
  <1>1. c \in Caches /\ c \notin Banks /\ c \notin L2s /\ parent[c] # c
    BY ThreadTypes
  <1>2. PICK w \in lookup(cache, c, a) : cache[c][w].state = "E" /\ cache' = SetState(cache, c, w, "M")
    BY DEF SilentUpgrade
  <1>3. w \in Ways[c] /\ cache[c][w].addr = a /\ a # NoAddr
    BY <1>2, CoherenceAssumption DEF lookup
  <1>4. /\ SameBut(cache, cache', c, w) /\ cache'[c][w].addr = a /\ cache'[c][w].state = "M"
    BY <1>0, <1>1, <1>2, <1>3, SetStateShape DEF MESIStates
  <1>5. Sound(cache')
    BY <1>0, <1>1, <1>2, <1>3, SetStateSound DEF MESIStates
  <1>6. ThreadsOK'
    <2>1. \A e \in L1s \cup L2s : \A u \in Ways[e] : e # c => Degraded(cache[e][u], cache'[e][u])
      BY <1>4, DegradedSame DEF SameBut, Caches
    <2>2. Waiting(cache', c, pc[c], op[c])
      BY <1>0 DEF Waiting, AtLLC
    <2> QED
      BY <1>0, <1>1, <2>1, <2>2, ThreadStep, Before, ThreadTypes DEF SilentUpgrade, AtLLC
  <1>7. DirtyInv => DirtyInv'
    <2>1. \A x : Modified(cache', x) <=> Modified(cache, x) \/ x = a
      <3>1. \A e \in Caches : \A u \in Ways[e] : e # c \/ u # w => cache'[e][u] = cache[e][u]
        BY <1>4 DEF SameBut
      <3>2. Modified(cache', a)
        BY <1>1, <1>3, <1>4 DEF Modified
      <3> QED
        BY <1>1, <1>2, <1>3, <1>4, <3>1, <3>2 DEF Modified
    <2> QED
      BY <2>1 DEF DirtyInv, SilentUpgrade
  <1>8. L1Step(cache, cache')
    <2>1. \A e \in L1s : \A u \in Ways[e] : e # c \/ u # w => Keeps(cache, cache', e, u)
      BY <1>4 DEF SameBut, Caches, Keeps
    <2> QED
      BY <2>1, <1>3, <1>4 DEF L1Step
  <1> QED
    BY <1>5, <1>6, <1>7, <1>8, Before DEF StepOK, IInv, SilentUpgrade

\* A request as an L1 makes it.
Request(a, type, w, i) == [NoOp EXCEPT !.addr = a, !.type = type, !.w1 = w, !.i1 = i]

\* A new request has the fields it was made with.
LEMMA NewRequest ==
    ASSUME NEW c \in L1s, NEW a \in Addrs, NEW type \in {"GETS", "GETX"}, NEW w \in Ways[c], NEW i \in MESIStates
    PROVE  LET q == Request(a, type, w, i)
           IN  q \in Requests /\ q.addr = a /\ q.type = type /\ q.w1 = w /\ q.i1 = i
  <1>1. w \in AllWays
    BY ThreadTypes
  <1> QED
    BY <1>1 DEF NoOp, Requests, MESIStates, Request

\* An L1 has the line but not the permission.
LEMMA MissOnPermissionStep ==
    ASSUME IInv, NEW c \in L1s, NEW a \in Addrs, NEW type \in {"GETS", "GETX"}, MissOnPermission(c, a, type)
    PROVE  StepOK
  <1>0. Sound(cache) /\ Typed(cache) /\ ThreadsOK /\ pc[c] = "idle" /\ cache' = cache /\ dirty' = dirty
    BY Before DEF MissOnPermission
  <1>1. c \in Caches
    BY ThreadTypes
  <1>2. PICK w \in lookup(cache, c, a) :
          /\ NeedsParent(cache[c][w].state, type)
          /\ op' = [op EXCEPT ![c] = [NoOp EXCEPT !.addr = a, !.type = type, !.w1 = w,
                                                  !.i1 = cache[c][w].state]]
    BY DEF MissOnPermission
  <1>3. w \in Ways[c] /\ cache[c][w].addr = a /\ cache[c][w].state \in MESIStates
    BY <1>1, Before DEF lookup
  <1>4. PICK q : /\ q = Request(a, type, w, cache[c][w].state)
                 /\ q \in Requests /\ q.addr = a /\ q.type = type /\ q.w1 = w /\ q.i1 = cache[c][w].state
    BY <1>3, NewRequest
  <1>5. /\ pc' \in [L1s -> ThreadPcs] /\ op' \in [L1s -> Requests]
        /\ \A d \in L1s \ {c} : pc'[d] = pc[d] /\ op'[d] = op[d]
        /\ pc'[c] = "get1" /\ op'[c] = q
    BY <1>2, <1>4, Before DEF MissOnPermission, ThreadPcs, Request
  <1>6. Waiting(cache', c, pc'[c], op'[c])
    BY <1>0, <1>2, <1>3, <1>4, <1>5 DEF Waiting, LineWaits, NeedsParent, AtLLC
  <1>7. ThreadsOK'
    BY <1>0, <1>5, <1>6, ThreadStep, DegradedSame DEF AtLLC
  <1>8. L1Step(cache, cache') /\ (DirtyInv => DirtyInv')
    BY <1>0 DEF L1Step, Keeps, DirtyInv
  <1> QED
    BY <1>0, <1>7, <1>8, Before DEF StepOK, IInv

\* The insertion of an address changes no state of any line.
LEMMA InsertModified ==
    ASSUME NEW h, Typed(h), NEW c \in Caches, NEW w \in Ways[c], NEW a \in Addrs, h[c][w].state = "I"
    PROVE  \A x : Modified(postinsert(h, c, w, a), x) <=> Modified(h, x)
  <1> DEFINE g == postinsert(h, c, w, a)
  <1>1. SameBut(h, g, c, w) /\ g[c][w].state = "I"
    BY InsertShape
  <1> HIDE DEF g
  <1>2. \A e \in Caches : \A u \in Ways[e] :
          g[e][u] = h[e][u] \/ (g[e][u].state = "I" /\ h[e][u].state = "I")
    BY <1>1 DEF SameBut
  <1>3. \A x : Modified(g, x) <=> Modified(h, x)
    BY <1>2 DEF Modified
  <1> QED
    BY <1>3 DEF g

\* The insertion of an address in an L1 takes nothing from the others.
LEMMA InsertInL1 ==
    ASSUME NEW h, Sound(h), NEW c \in L1s, NEW w \in Ways[c], NEW a \in Addrs, h[c][w].state = "I",
           lookup(h, c, a) = {}
    PROVE  LET g == postinsert(h, c, w, a)
           IN  /\ Sound(g) /\ g[c][w].addr = a /\ g[c][w].state = "I"
               /\ SameBut(h, g, c, w)
               /\ \A x : Modified(g, x) <=> Modified(h, x)
  <1>1. c \in Caches /\ c \notin Banks
    BY ThreadTypes
  <1>2. \A e \in Caches : Peers(c, e) => \A u \in Ways[e] : h[e][u].addr # a
    BY <1>1 DEF lookup, Peers
  <1>3. Sound(postinsert(h, c, w, a))
    BY <1>1, <1>2, InsertSound
  <1> QED
    BY <1>1, <1>3, InsertShape, InsertModified DEF Sound

\* An L1 does not have the line: it evicts another.
LEMMA MissOnLineStep ==
    ASSUME IInv, NEW c \in L1s, NEW a \in Addrs, NEW type \in {"GETS", "GETX"}, MissOnLine(c, a, type)
    PROVE  StepOK
  <1>0. Sound(cache) /\ Typed(cache) /\ ThreadsOK /\ pc[c] = "idle" /\ dirty' = dirty /\ lookup(cache, c, a) = {}
    BY Before DEF MissOnLine
  <1>1. c \in Caches
    BY ThreadTypes
  <1>2. PICK w \in Ways[c] :
          /\ op' = [op EXCEPT ![c] = [NoOp EXCEPT !.addr = a, !.type = type, !.w1 = w,
                                                  !.i1 = cache[c][w].state]]
          /\ \/ /\ cache[c][w].state = "I"
                /\ cache' = postinsert(cache, c, w, a)
                /\ pc' = [pc EXCEPT ![c] = "get1"]
             \/ /\ cache[c][w].state # "I"
                /\ cache' = cache
                /\ pc' = [pc EXCEPT ![c] = "put1"]
    BY DEF MissOnLine
  <1>3. cache[c][w].state \in MESIStates
    BY <1>1, Before
  <1>4. PICK q : /\ q = Request(a, type, w, cache[c][w].state)
                 /\ q \in Requests /\ q.addr = a /\ q.type = type /\ q.w1 = w /\ q.i1 = cache[c][w].state
    BY <1>3, NewRequest
  <1>5. /\ pc' \in [L1s -> ThreadPcs] /\ op' \in [L1s -> Requests]
        /\ \A d \in L1s \ {c} : pc'[d] = pc[d] /\ op'[d] = op[d]
        /\ op'[c] = q
    BY <1>2, <1>4, Before DEF ThreadPcs, Request
  <1>6. CASE cache[c][w].state # "I"
    <2>1. cache' = cache /\ pc'[c] = "put1"
      BY <1>2, <1>6, Before
    <2>2. Waiting(cache', c, pc'[c], op'[c])
      BY <1>0, <1>3, <1>4, <1>5, <1>6, <2>1 DEF Waiting, LineLeaves, AtLLC
    <2>3. ThreadsOK'
      BY <1>0, <1>5, <2>1, <2>2, ThreadStep, DegradedSame DEF AtLLC
    <2>4. L1Step(cache, cache') /\ (DirtyInv => DirtyInv')
      BY <1>0, <2>1 DEF L1Step, Keeps, DirtyInv
    <2> QED
      BY <1>0, <2>1, <2>3, <2>4, Before DEF StepOK, IInv
  <1>7. CASE cache[c][w].state = "I"
    <2>1. cache' = postinsert(cache, c, w, a) /\ pc'[c] = "get1"
      BY <1>2, <1>7, Before
    <2>2. /\ Sound(cache') /\ cache'[c][w].addr = a /\ cache'[c][w].state = "I"
          /\ SameBut(cache, cache', c, w)
          /\ \A x : Modified(cache', x) <=> Modified(cache, x)
      BY <1>0, <1>7, <2>1, InsertInL1
    <2>3. Waiting(cache', c, pc'[c], op'[c])
      BY <1>0, <1>4, <1>5, <1>7, <2>1, <2>2 DEF Waiting, LineWaits, AtLLC
    <2>4. ThreadsOK'
      <3>1. \A e \in L1s \cup L2s : \A u \in Ways[e] : e # c => Degraded(cache[e][u], cache'[e][u])
        BY <2>2, DegradedSame DEF SameBut, Caches
      <3> QED
        BY <1>0, <1>5, <2>1, <2>3, <3>1, ThreadStep, ThreadTypes DEF AtLLC
    <2>5. L1Step(cache, cache')
      BY <2>2 DEF L1Step, Keeps, SameBut, Caches
    <2>6. DirtyInv => DirtyInv'
      BY <1>0, <2>2 DEF DirtyInv
    <2> QED
      BY <1>0, <2>2, <2>4, <2>5, <2>6, Before DEF StepOK, IInv
  <1> QED
    BY <1>6, <1>7

\* The race check of the PUT of a line that leaves: it has been done if the
\* line has been invalidated, and it writes back what is still modified.
LEMMA RaceCheck ==
    ASSUME NEW line, NEW i, LineLeaves(line, i)
    PROVE  LET type == CheckForMESIRace(PutType(i), line.state, i)
           IN  /\ type = "skip" <=> line.state = "I"
               /\ type = "PUTX" <=> line.state = "M"
  BY DEF LineLeaves, CheckForMESIRace, PutType, MESIStates

\* If tccFree, or the thread itself is at the LLC, no other is there from its L2.
LEMMA Alone ==
    ASSUME IInv, NEW c \in L1s, tccFree(parent[c]) \/ pc[c] \in AtLLC
    PROVE  AloneAtL2(c)
  BY DEF AloneAtL2, tccFree, AtLLC, IInv, ThreadsOK, OneAtLLC

\* The L2's section for a writeback of an L1.
LEMMA PutToL2Step ==
    ASSUME IInv, NEW c \in L1s, PutToL2(c)
    PROVE  StepOK
  <1> DEFINE p == parent[c]
             v == op[c].w1
             a == op[c].addr
             type == CheckForMESIRace(PutType(op[c].i1), cache[c][v].state, op[c].i1)
  <1>0. /\ Sound(cache) /\ Typed(cache) /\ ThreadsOK /\ pc[c] = "put1" /\ dirty' = dirty
        /\ AloneAtL2(c) /\ Waiting(cache, c, "put1", op[c])
        /\ pc' = [pc EXCEPT ![c] = "get1"] /\ op' = [op EXCEPT ![c].i1 = "I"]
    BY Before, Alone DEF PutToL2
  <1>1. /\ c \in Caches /\ p \in Caches /\ p \in L2s \cup Banks /\ c \in Children(p) /\ p # c
        /\ c \notin L2s /\ p \in L2s
    BY ThreadTypes
  <1>2. a \in Addrs /\ v \in Ways[c] /\ lookup(cache, c, a) = {} /\ LineLeaves(cache[c][v], op[c].i1)
    BY <1>0 DEF Waiting
  <1>3. (type = "skip" <=> cache[c][v].state = "I") /\ (type = "PUTX" <=> cache[c][v].state = "M")
    BY <1>2, RaceCheck
  <1>4. \E h : /\ Sound(h) /\ h[c][v].state = "I" /\ lookup(h, c, a) = {}
               /\ \A e \in (L1s \cup L2s) \ {c, p} : \A u \in Ways[e] : Degraded(cache[e][u], h[e][u])
               /\ \A u \in Ways[c] : u # v => Degraded(cache[c][u], h[c][u])
               /\ \A x : Modified(h, x) <=> Modified(cache, x)
               /\ cache' = postinsert(h, c, v, a)
    <2>1. CASE type = "skip"
      <3>1. cache' = postinsert(cache, c, v, a)
        BY <2>1 DEF PutToL2
      <3> QED
        BY <1>0, <1>2, <1>3, <2>1, <3>1, DegradedSame
    <2>2. CASE type # "skip"
      <3>1. PICK w \in lookup(cache, p, cache[c][v].addr) :
              cache' = postinsert(PutAccess(cache, p, w, type, c, v), c, v, a)
        BY <2>2 DEF PutToL2
      <3>2. w \in Ways[p] /\ cache[c][v].addr = cache[p][w].addr
        BY <3>1 DEF lookup
      <3>3. cache[c][v].sharers = {} /\ cache[c][v].state # "I"
        <4>1. cache[c][v].sharers \in SUBSET Children(c)
          BY <1>0, <1>1, <1>2 DEF Typed, Lines
        <4> QED
          BY <4>1, <1>3, <2>2, Family
      <3> DEFINE g == PutAccess(cache, p, w, type, c, v)
      <3>4. /\ Sound(g) /\ Gains(cache, g, p, w, c, v) /\ g[c][v].state = "I"
            /\ \A x : Modified(g, x) <=> Modified(cache, x)
        <4> HIDE DEF type, p, v
        <4> QED
          BY <1>0, <1>1, <1>2, <1>3, <3>2, <3>3, PutEffect
      <3>5. cache' = postinsert(g, c, v, a)
        BY <3>1
      <3> HIDE DEF g
      <3>6. lookup(g, c, a) = {}
        BY <1>1, <1>2, <3>4 DEF lookup, Gains
      <3>7. /\ \A e \in (L1s \cup L2s) \ {c, p} : \A u \in Ways[e] : Degraded(cache[e][u], g[e][u])
            /\ \A u \in Ways[c] : u # v => Degraded(cache[c][u], g[c][u])
        BY <1>1, <3>4 DEF Gains, Caches
      <3> QED
        BY <3>4, <3>5, <3>6, <3>7
    <2> QED
      BY <2>1, <2>2
  <1>5. PICK h : /\ Sound(h) /\ h[c][v].state = "I" /\ lookup(h, c, a) = {}
                 /\ \A e \in (L1s \cup L2s) \ {c, p} : \A u \in Ways[e] : Degraded(cache[e][u], h[e][u])
                 /\ \A u \in Ways[c] : u # v => Degraded(cache[c][u], h[c][u])
                 /\ \A x : Modified(h, x) <=> Modified(cache, x)
                 /\ cache' = postinsert(h, c, v, a)
    BY <1>4
  <1>6. /\ Sound(cache') /\ cache'[c][v].addr = a /\ cache'[c][v].state = "I"
        /\ SameBut(h, cache', c, v)
        /\ \A x : Modified(cache', x) <=> Modified(h, x)
    BY <1>2, <1>5, InsertInL1
  <1>7. /\ \A e \in (L1s \cup L2s) \ {c, p} : \A u \in Ways[e] : Degraded(cache[e][u], cache'[e][u])
        /\ \A u \in Ways[c] : u # v => Degraded(cache[c][u], cache'[c][u])
    BY <1>1, <1>5, <1>6 DEF SameBut, Caches
  <1>8. ThreadsOK'
    <2> DEFINE q == [op[c] EXCEPT !.i1 = "I"]
    <2>1. /\ q \in Requests /\ q.addr = a /\ q.type = op[c].type /\ q.w1 = v /\ q.i1 = "I"
      BY Before DEF Requests, MESIStates
    <2>2. op' = [op EXCEPT ![c] = q]
      BY <1>0
    <2> HIDE DEF q
    <2>3. /\ pc' \in [L1s -> ThreadPcs] /\ op' \in [L1s -> Requests]
          /\ \A d \in L1s \ {c} : pc'[d] = pc[d] /\ op'[d] = op[d]
          /\ pc'[c] = "get1" /\ op'[c] = q
      BY <1>0, <2>1, <2>2, Before DEF ThreadPcs
    <2>4. Waiting(cache', c, pc'[c], op'[c])
      BY <1>2, <1>6, <2>1, <2>3 DEF Waiting, LineWaits, AtLLC
    <2> QED
      BY <1>0, <1>7, <2>3, <2>4, ThreadStep
  <1>9. L1Step(cache, cache')
    <2>1. ASSUME NEW e \in L1s, NEW u \in Ways[e] PROVE Keeps(cache, cache', e, u)
      <3>1. CASE e = c /\ u = v
        BY <1>6, <3>1 DEF Keeps
      <3>2. CASE e # c \/ u # v
        <4>1. Degraded(cache[e][u], cache'[e][u])
          BY <1>1, <1>7, <3>2, CoherenceAssumption
        <4> QED
          BY <4>1 DEF Degraded, Keeps
      <3> QED
        BY <3>1, <3>2
    <2> QED
      BY <2>1 DEF L1Step
  <1>10. DirtyInv => DirtyInv'
    BY <1>0, <1>5, <1>6 DEF DirtyInv
  <1> QED
    BY <1>0, <1>6, <1>8, <1>9, <1>10, Before DEF StepOK, IInv

\* The L2's section for a request that it can satisfy.
LEMMA GetHitsL2Step ==
    ASSUME IInv, NEW c \in L1s, GetHitsL2(c)
    PROVE  StepOK
  <1>1. pc[c] = "get1" /\ AloneAtL2(c) /\ Mid(cache, c)
    BY Before, Alone, DegradedSame DEF GetHitsL2, Mid
  <1>2. PICK w \in lookup(cache, parent[c], op[c].addr) : ProcessAtL2(cache, c, w)
    BY DEF GetHitsL2
  <1>3. w \in Ways[parent[c]] /\ cache[parent[c]][w].addr = op[c].addr
    BY <1>2 DEF lookup
  <1> QED
    BY <1>1, <1>2, <1>3, ProcessStep

\* The insertion of the address in the L2 of c.
LEMMA InsertInL2 ==
    ASSUME NEW c \in L1s, NEW h, Mid(h, c), NEW v \in Ways[parent[c]], NEW a \in Addrs, h[parent[c]][v].state = "I",
           lookup(h, parent[c], a) = {}
    PROVE  LET g == postinsert(h, parent[c], v, a)
           IN  /\ Mid(g, c) /\ g[parent[c]][v].addr = a
               /\ \A x : Modified(g, x) <=> Modified(h, x)
  <1> DEFINE p == parent[c]
             g == postinsert(h, p, v, a)
  <1>1. p \in Caches /\ p \notin Banks /\ Sound(h) /\ Typed(h)
    BY ThreadTypes DEF Mid, Sound
  <1>2. \A e \in Caches : Peers(p, e) => \A u \in Ways[e] : h[e][u].addr # a
    BY <1>1 DEF lookup, Peers
  <1>3. Sound(g)
    BY <1>1, <1>2, InsertSound
  <1>4. SameBut(h, g, p, v) /\ g[p][v].addr = a
    BY <1>1, InsertShape
  <1>5. \A x : Modified(g, x) <=> Modified(h, x)
    BY <1>1, InsertModified
  <1> HIDE DEF g
  <1>6. Mid(g, c)
    BY <1>3, <1>4 DEF Mid, SameBut, Caches
  <1> QED
    BY <1>4, <1>5, <1>6 DEF g

\* The L2's section for a request that goes on to the LLC.
LEMMA GetMissesL2Step ==
    ASSUME IInv, NEW c \in L1s, GetMissesL2(c)
    PROVE  StepOK
  <1> DEFINE p == parent[c]
             a == op[c].addr
  <1>0. /\ Sound(cache) /\ Typed(cache) /\ ThreadsOK /\ pc[c] = "get1" /\ AloneAtL2(c)
        /\ Waiting(cache, c, "get1", op[c]) /\ lookup(cache, p, a) = {}
    BY Before, Alone DEF GetMissesL2
  <1>1. /\ c \in Caches /\ p \in Caches /\ p \in L2s \cup Banks /\ p \in L2s /\ p # c /\ c \notin L2s
    BY ThreadTypes
  <1>2. a \in Addrs /\ op[c].w1 \in Ways[c] /\ LineWaits(cache[c][op[c].w1], op[c].type, op[c].i1, a)
    BY <1>0 DEF Waiting
  <1>3. PICK v \in Ways[p] :
          \/ /\ Evicted(cache, p, v)[p][v].state = "I"
             /\ ProcessAtL2(postinsert(Evicted(cache, p, v), p, v, a), c, v)
          \/ /\ Evicted(cache, p, v)[p][v].state # "I"
             /\ cache' = Evicted(cache, p, v)
             /\ pc' = [pc EXCEPT ![c] = "put2"]
             /\ op' = [op EXCEPT ![c].w2 = v, ![c].i2 = Evicted(cache, p, v)[p][v].state]
             /\ dirty' = dirty
    BY DEF GetMissesL2
  <1>4. PICK h : h = Evicted(cache, p, v)
    OBVIOUS
  <1>5. /\ Sound(h) /\ Gains(cache, h, p, v, p, v) /\ h[p][v].sharers = {}
        /\ \A x : Modified(h, x) <=> Modified(cache, x)
    BY <1>0, <1>1, <1>4, EvictedEffect
  <1>6. Mid(h, c)
    BY <1>5 DEF Mid, Gains, Caches
  <1>7. lookup(h, p, a) = {}
    BY <1>0, <1>1, <1>5 DEF lookup, Gains
  <1>8. CASE h[p][v].state = "I"
    <2>1. PICK g : g = postinsert(h, p, v, a)
      OBVIOUS
    <2>2. Mid(g, c) /\ g[p][v].addr = a /\ \A x : Modified(g, x) <=> Modified(h, x)
      BY <1>2, <1>6, <1>7, <1>8, <2>1, InsertInL2
    <2>3. ProcessAtL2(g, c, v)
      BY <1>3, <1>4, <1>8, <2>1
    <2> QED
      BY <1>0, <1>5, <2>2, <2>3, ProcessStep
  <1>9. CASE h[p][v].state # "I"
    <2>1. /\ cache' = h /\ pc' = [pc EXCEPT ![c] = "put2"]
          /\ op' = [op EXCEPT ![c].w2 = v, ![c].i2 = h[p][v].state] /\ dirty' = dirty
      BY <1>3, <1>4, <1>9
    <2> DEFINE s == h[p][v].state
               q == [op[c] EXCEPT !.w2 = v, !.i2 = s]
    <2>2. s \in MESIStates /\ v \in AllWays
      BY <1>1, <1>5, ThreadTypes, CoherenceAssumption DEF Sound, Typed, Lines, AllWays
    <2>3. /\ q \in Requests /\ q.addr = a /\ q.type = op[c].type /\ q.w1 = op[c].w1
          /\ q.i1 = op[c].i1 /\ q.w2 = v /\ q.i2 = s
      BY Before, <2>2 DEF Requests
    <2>4. op' = [op EXCEPT ![c] = q]
      BY <2>1
    <2> HIDE DEF q
    <2>5. /\ pc' \in [L1s -> ThreadPcs] /\ op' \in [L1s -> Requests]
          /\ \A d \in L1s \ {c} : pc'[d] = pc[d] /\ op'[d] = op[d]
          /\ pc'[c] = "put2" /\ op'[c] = q
      BY Before, <2>1, <2>3, <2>4 DEF ThreadPcs
    <2>6. LineWaits(h[c][op[c].w1], op[c].type, op[c].i1, a)
      <3>1. Degraded(cache[c][op[c].w1], h[c][op[c].w1])
        BY <1>1, <1>2, <1>6 DEF Mid
      <3> QED
        BY <1>2, <3>1, DegradedWaits
    <2>7. LineLeaves(h[p][v], s)
      BY <1>9, <2>2 DEF LineLeaves
    <2>8. Waiting(cache', c, pc'[c], op'[c])
      BY <1>2, <1>5, <1>7, <2>1, <2>3, <2>5, <2>6, <2>7 DEF Waiting, AtLLC
    <2>9. ThreadsOK'
      <3>1. \A e \in (L1s \cup L2s) \ {c, p} : \A u \in Ways[e] : Degraded(cache[e][u], cache'[e][u])
        BY <1>6, <2>1 DEF Mid
      <3> QED
        BY <1>0, <2>5, <2>8, <3>1, ThreadStep
    <2>10. L1Step(cache, cache')
      BY <1>1, <1>6, <2>1, CoherenceAssumption DEF L1Step, Keeps, Mid, Degraded
    <2>11. DirtyInv => DirtyInv'
      BY <1>5, <2>1 DEF DirtyInv
    <2> QED
      BY <1>5, <2>1, <2>9, <2>10, <2>11, Before DEF StepOK, IInv
  <1> QED
    BY <1>8, <1>9

\* The line of an L2 that is valid is in a bank.
LEMMA InABank ==
    ASSUME NEW h, Sound(h), NEW d \in L2s, NEW v \in Ways[d], h[d][v].state # "I"
    PROVE  InBanks(h, h[d][v].addr) # {}
  <1>1. PICK b \in Banks : \E w \in Ways[b] : Allows(h[b][w], h[d][v])
    BY CoherenceAssumption DEF Sound, Inclusive, Parents
  <1>2. PICK w \in Ways[b] : Allows(h[b][w], h[d][v])
    BY <1>1
  <1>3. <<b, w>> \in InBanks(h, h[d][v].addr)
    BY <1>2 DEF InBanks, Allows
  <1> QED
    BY <1>3

\* A place found in the banks holds the address looked for.
LEMMA BankLine ==
    ASSUME NEW h, NEW a, NEW bw \in InBanks(h, a)
    PROVE  bw[1] \in Banks /\ bw[2] \in Ways[bw[1]] /\ h[bw[1]][bw[2]].addr = a
  BY DEF InBanks

\* The LLC's section for a writeback of an L2.
LEMMA PutToLLCStep ==
    ASSUME IInv, NEW c \in L1s, PutToLLC(c)
    PROVE  StepOK
  <1> DEFINE p == parent[c]
             v == op[c].w2
             a == op[c].addr
             hits == InBanks(cache, cache[p][v].addr)
             type == CheckForMESIRace(PutType(op[c].i2), cache[p][v].state, op[c].i2)
  <1>0. /\ Sound(cache) /\ Typed(cache) /\ ThreadsOK /\ pc[c] = "put2" /\ AloneAtL2(c)
        /\ Waiting(cache, c, "put2", op[c])
    BY Before, Alone DEF PutToLLC, AtLLC
  <1>1. /\ c \in Caches /\ p \in Caches /\ p \in L2s /\ p # c /\ c \notin L2s /\ p \notin Banks
        /\ \A b \in Banks : p \in Children(b) /\ b \in Caches
    BY ThreadTypes
  <1>2. /\ a \in Addrs /\ v \in Ways[p] /\ lookup(cache, p, a) = {} /\ cache[p][v].sharers = {}
        /\ LineLeaves(cache[p][v], op[c].i2)
    BY <1>0 DEF Waiting, AtLLC
  <1>3. (type = "skip" <=> cache[p][v].state = "I") /\ (type = "PUTX" <=> cache[p][v].state = "M")
    BY <1>2, RaceCheck
  <1>4. \E h : /\ Mid(h, c) /\ h[p][v].state = "I" /\ lookup(h, p, a) = {}
               /\ \A x : Modified(h, x) <=> Modified(cache, x)
               /\ ProcessAtL2(postinsert(h, p, v, a), c, v)
    <2>1. CASE type = "skip" \/ hits = {}
      <3>1. ProcessAtL2(postinsert(cache, p, v, a), c, v)
        BY <2>1 DEF PutToLLC
      <3>2. cache[p][v].state = "I"
        BY <1>0, <1>1, <1>2, <1>3, <2>1, InABank
      <3>3. Mid(cache, c)
        BY <1>0, DegradedSame DEF Mid
      <3> QED
        BY <1>2, <3>1, <3>2, <3>3
    <2>2. CASE type # "skip" /\ hits # {}
      <3>1. PICK bw \in hits : ProcessAtL2(postinsert(PutAccess(cache, bw[1], bw[2], type, p, v), p, v, a), c, v)
        <4> HIDE DEF type, hits, v, p
        <4> QED
          BY <2>2 DEF PutToLLC, type, hits, v, p
      <3>2. PICK b : b = bw[1]
        OBVIOUS
      <3>3. PICK w : w = bw[2]
        OBVIOUS
      <3>4. b \in Banks /\ w \in Ways[b] /\ cache[b][w].addr = cache[p][v].addr
        BY <3>1, <3>2, <3>3, BankLine
      <3>5. PICK g : g = PutAccess(cache, b, w, type, p, v)
        OBVIOUS
      <3>6. /\ Sound(g) /\ Gains(cache, g, b, w, p, v) /\ g[p][v].state = "I"
            /\ \A x : Modified(g, x) <=> Modified(cache, x)
        <4> HIDE DEF type, p, v
        <4>1. cache[p][v].state # "I" /\ p \in Children(b) /\ b \in L2s \cup Banks
          BY <1>1, <1>3, <2>2, <3>4
        <4> QED
          BY <1>0, <1>2, <1>3, <3>4, <3>5, <4>1, PutEffect
      <3>7. ProcessAtL2(postinsert(g, p, v, a), c, v)
        BY <3>1, <3>2, <3>3, <3>5
      <3>8. lookup(g, p, a) = {}
        BY <1>1, <1>2, <3>6 DEF lookup, Gains
      <3>9. Mid(g, c)
        BY <3>4, <3>6, Family DEF Mid, Gains, Caches
      <3> QED
        BY <3>6, <3>7, <3>8, <3>9
    <2> QED
      BY <2>1, <2>2
  <1>5. PICK h : /\ Mid(h, c) /\ h[p][v].state = "I" /\ lookup(h, p, a) = {}
                 /\ \A x : Modified(h, x) <=> Modified(cache, x)
                 /\ ProcessAtL2(postinsert(h, p, v, a), c, v)
    BY <1>4
  <1>6. PICK g : g = postinsert(h, p, v, a)
    OBVIOUS
  <1>7. Mid(g, c) /\ g[p][v].addr = a /\ \A x : Modified(g, x) <=> Modified(h, x)
    BY <1>2, <1>5, <1>6, InsertInL2
  <1> QED
    BY <1>0, <1>2, <1>5, <1>6, <1>7, ProcessStep

\* Memory gives the bank what the request needs.
LEMMA FetchedEffect ==
    ASSUME NEW h, Sound(h), NEW b \in Banks, NEW w \in Ways[b], NEW c \in L1s, op[c].type \in {"GETS", "GETX"},
           h[b][w].addr = op[c].addr, op[c].addr \in Addrs
    PROVE  LET f == Fetched(h, b, w, c)
           IN  /\ Sound(f) /\ SameBut(h, f, b, w) /\ f[b][w].addr = op[c].addr
               /\ ~NeedsParent(f[b][w].state, op[c].type)
               /\ \A x : Modified(f, x) \/ (op[c].type = "GETX" /\ x = op[c].addr)
                         <=> Modified(h, x) \/ (op[c].type = "GETX" /\ x = op[c].addr)
  <1>0. b \in Caches /\ Typed(h) /\ op[c].addr # NoAddr
    BY CoherenceAssumption DEF Caches, Sound
  <1>1. CASE ~NeedsParent(h[b][w].state, op[c].type)
    <2>1. Fetched(h, b, w, c) = h
      BY <1>1 DEF Fetched
    <2> QED
      BY <1>1, <2>1 DEF SameBut
  <1>2. CASE NeedsParent(h[b][w].state, op[c].type)
    <2>1. PICK s : s = IF op[c].type = "GETX" THEN "M" ELSE IF c \in IFetch THEN "S" ELSE "E"
      OBVIOUS
    <2>2. s \in MESIStates \ {"I"} /\ s \in MESIStates /\ ~NeedsParent(s, op[c].type) /\ (op[c].type = "GETS" => s # "M")
      BY <2>1 DEF MESIStates, NeedsParent
    <2>3. PICK f : f = SetState(h, b, w, s)
      OBVIOUS
    <2>4. Fetched(h, b, w, c) = f
      BY <1>2, <2>1, <2>3 DEF Fetched
    <2>5. Sound(f)
      <3>1. h[b][w].state \in {"E", "M"} => s \in {"E", "M"}
        BY <1>2 DEF NeedsParent
      <3> QED
        BY <1>0, <2>2, <2>3, <3>1, SetStateSound
    <2>6. SameBut(h, f, b, w) /\ f[b][w].addr = op[c].addr /\ f[b][w].state = s
      BY <1>0, <2>2, <2>3, SetStateShape
    <2>7. h[b][w].state # "M"
      BY <1>2 DEF NeedsParent
    <2>8. \A x : Modified(f, x) \/ (op[c].type = "GETX" /\ x = op[c].addr)
                 <=> Modified(h, x) \/ (op[c].type = "GETX" /\ x = op[c].addr)
      BY <1>0, <2>2, <2>6, <2>7 DEF Modified, SameBut
    <2> QED
      BY <2>2, <2>4, <2>5, <2>6, <2>8
  <1> QED
    BY <1>1, <1>2

\* The access completes from line w of bank b.
LEMMA ServeStep ==
    ASSUME IInv, NEW c \in L1s, pc[c] = "get2", NEW h, Mid(h, c),
           \A u \in Ways[parent[c]] : Degraded(cache[parent[c]][u], h[parent[c]][u]),
           NEW b \in Banks, NEW w \in Ways[b], h[b][w].addr = op[c].addr, ServeFromLLC(h, c, b, w)
    PROVE  /\ Sound(cache') /\ ThreadsOK' /\ L1Step(cache, cache')
           /\ \A x : Modified(cache', x) <=> Modified(h, x) \/ (op[c].type = "GETX" /\ x = op[c].addr)
  <1> DEFINE p == parent[c]
             v == op[c].w2
             a == op[c].addr
  <1>0. /\ Sound(cache) /\ ThreadsOK /\ AloneAtL2(c) /\ Waiting(cache, c, "get2", op[c])
        /\ op[c].type \in {"GETS", "GETX"} /\ Sound(h)
    BY Before, Alone DEF AtLLC, Mid
  <1>1. p \in Caches /\ p \in L2s /\ p \in Children(b) /\ b \in Caches /\ p \notin Banks /\ b \notin L2s
    BY ThreadTypes, CoherenceAssumption
  <1>2. a \in Addrs /\ v \in Ways[p] /\ LineWaits(cache[p][v], op[c].type, op[c].i2, a)
    BY <1>0 DEF Waiting, AtLLC
  <1>3. PICK f : f = Fetched(h, b, w, c)
    OBVIOUS
  <1>4. /\ Sound(f) /\ SameBut(h, f, b, w) /\ f[b][w].addr = a /\ ~NeedsParent(f[b][w].state, op[c].type)
        /\ \A x : Modified(f, x) \/ (op[c].type = "GETX" /\ x = a) <=> Modified(h, x) \/ (op[c].type = "GETX" /\ x = a)
    BY <1>0, <1>2, <1>3, FetchedEffect
  <1>5. f[p][v].addr = a /\ (op[c].type = "GETS" => f[p][v].state = "I")
    <2>1. LineWaits(h[p][v], op[c].type, op[c].i2, a)
      BY <1>2, DegradedWaits
    <2>2. f[p][v] = h[p][v]
      BY <1>1, <1>2, <1>4 DEF SameBut
    <2> QED
      BY <2>1, <2>2 DEF LineWaits
  <1>6. PICK n \in BOOLEAN : n <=> c \in IFetch
    OBVIOUS
  <1>7. PICK g : g = GetAccess(f, b, w, op[c].type, n, p, v)
    OBVIOUS
  <1>8. Complete(g, c, v)
    <2>1. n = (c \in IFetch)
      BY <1>6
    <2> QED
      BY <1>3, <1>7, <2>1 DEF ServeFromLLC
  <1>9. /\ Sound(g) /\ Gains(f, g, b, w, p, v)
        /\ g[p][v].state \in IF op[c].type = "GETS" THEN {"S", "E"} ELSE {"M"}
        /\ \A x : Modified(g, x) <=> Modified(f, x) \/ (op[c].type = "GETX" /\ x = f[b][w].addr)
    <2>1. b \in L2s \cup Banks
      OBVIOUS
    <2> QED
      BY <1>0, <1>1, <1>2, <1>4, <1>5, <1>6, <1>7, <2>1, GetAccessEffect
  <1>10. ~NeedsParent(g[p][v].state, op[c].type) /\ g[p][v].addr = a
    BY <1>0, <1>1, <1>2, <1>5, <1>9 DEF NeedsParent, Gains
  <1>11. Mid(g, c)
    <2> SUFFICES ASSUME NEW e \in (L1s \cup L2s) \ {p}, NEW u \in Ways[e] PROVE Degraded(cache[e][u], g[e][u])
      BY <1>9 DEF Mid
    <2>1. e # b /\ e \in Caches
      BY Family DEF Caches
    <2>2. Degraded(cache[e][u], h[e][u]) /\ f[e][u] = h[e][u] /\ Degraded(f[e][u], g[e][u])
      BY <1>4, <1>9, <2>1 DEF Mid, SameBut, Gains
    <2> QED
      BY <2>2, DegradedTwice
  <1>12. /\ Sound(cache') /\ ThreadsOK' /\ L1Step(cache, cache')
         /\ \A x : Modified(cache', x) <=> Modified(g, x) \/ (op[c].type = "GETX" /\ x = op[c].addr)
    BY <1>0, <1>2, <1>8, <1>10, <1>11, CompleteStep
  <1> QED
    BY <1>4, <1>9, <1>12

\* The LLC's section for a request that it can satisfy.
LEMMA GetHitsLLCStep ==
    ASSUME IInv, NEW c \in L1s, NEW b \in Banks, NEW w \in Ways[b], GetHitsLLC(c, b, w)
    PROVE  StepOK
  <1>1. pc[c] = "get2" /\ Mid(cache, c) /\ dirty' = dirty \cup Written(c) /\ ServeFromLLC(cache, c, b, w)
    BY Before, DegradedSame DEF GetHitsLLC, Mid
  <1>2. cache[b][w].addr = op[c].addr
    BY DEF GetHitsLLC, InBanks
  <1>3. /\ Sound(cache') /\ ThreadsOK' /\ L1Step(cache, cache')
        /\ \A x : Modified(cache', x) <=> Modified(cache, x) \/ (op[c].type = "GETX" /\ x = op[c].addr)
    BY <1>1, <1>2, ServeStep, DegradedSame
  <1>4. op[c].addr \in Addrs
    BY <1>1, Before DEF Waiting
  <1>5. dirty' \subseteq Addrs /\ (DirtyInv => DirtyInv')
    BY <1>1, <1>3, <1>4, Before DEF Written, DirtyInv
  <1> QED
    BY <1>3, <1>5 DEF StepOK, IInv

\* A line of a bank that no L2 shares is in no other cache.
LEMMA OnlyInBank ==
    ASSUME NEW h, Sound(h), NEW b \in Banks, NEW v \in Ways[b], h[b][v].sharers = {}, h[b][v].addr # NoAddr,
           NEW e \in Caches, NEW u \in Ways[e], h[e][u].addr = h[b][v].addr, h[e][u].state # "I"
    PROVE  e = b /\ u = v
  <1>0. b \in Caches /\ b \in L2s \cup Banks
    BY DEF Caches
  <1>1. CASE e \in Banks
    BY <1>0, <1>1 DEF Sound, Unique, Peers
  <1>2. ASSUME NEW d \in L2s, NEW t \in Ways[d], h[d][t].addr = h[b][v].addr, h[d][t].state # "I" PROVE FALSE
    <2>1. d \in Children(b)
      BY Family
    <2> QED
      BY <1>0, <1>2, <2>1, LineAbove
  <1>3. CASE e \in L2s
    BY <1>2, <1>3
  <1>4. CASE e \in L1s
    <2>1. Parents(e) = {parent[e]} /\ parent[e] \in L2s
      BY <1>4, CoherenceAssumption DEF Parents
    <2>2. PICK t \in Ways[parent[e]] : Allows(h[parent[e]][t], h[e][u])
      BY <1>4, <2>1 DEF Sound, Inclusive
    <2> QED
      BY <1>2, <2>1, <2>2 DEF Allows
  <1> QED
    BY <1>1, <1>3, <1>4 DEF Caches

\* The LLC's section for a request that goes on to memory.
LEMMA GetMissesLLCStep ==
    ASSUME IInv, NEW c \in L1s, NEW b \in Banks, NEW v \in Ways[b], GetMissesLLC(c, b, v)
    PROVE  StepOK
  <1> DEFINE p == parent[c]
             a == op[c].addr
  <1>0. /\ Sound(cache) /\ Typed(cache) /\ pc[c] = "get2" /\ InBanks(cache, a) = {}
        /\ Waiting(cache, c, "get2", op[c])
    BY Before DEF GetMissesLLC
  <1>1. a \in Addrs /\ b \in Caches /\ p \in L2s
    BY <1>0, ThreadTypes DEF Waiting
  <1>2. PICK h : h = Evicted(cache, b, v)
    OBVIOUS
  <1>3. /\ Sound(h) /\ Typed(h) /\ Gains(cache, h, b, v, b, v) /\ h[b][v].sharers = {}
        /\ \A x : Modified(h, x) <=> Modified(cache, x)
    BY <1>0, <1>2, EvictedEffect DEF Sound
  <1>4. PICK k : k = SetState(h, b, v, "I")
    OBVIOUS
  <1>5. /\ Sound(k) /\ Typed(k) /\ SameBut(h, k, b, v) /\ k[b][v].addr = h[b][v].addr /\ k[b][v].state = "I"
    <2>1. Sound(k) /\ Typed(k)
      BY <1>3, <1>4, DiscardSound DEF Sound
    <2> QED
      BY <1>1, <1>3, <1>4, <2>1, SetStateShape DEF MESIStates
  <1>6. PICK g : g = postinsert(k, b, v, a)
    OBVIOUS
  <1>7. \A e \in Caches : \A u \in Ways[e] : k[e][u].addr = cache[e][u].addr
    BY <1>3, <1>5 DEF SameBut, Gains
  <1>8. \A e \in Caches : Peers(b, e) => \A u \in Ways[e] : k[e][u].addr # a
    <2> SUFFICES ASSUME NEW e \in Banks, NEW u \in Ways[e], cache[e][u].addr = a PROVE FALSE
      BY <1>7 DEF Peers, Caches
    <2>1. <<e, u>> \in InBanks(cache, a)
      BY DEF InBanks
    <2> QED
      BY <1>0, <2>1
  <1>9. Sound(g) /\ SameBut(k, g, b, v) /\ g[b][v].addr = a /\ \A x : Modified(g, x) <=> Modified(k, x)
    BY <1>1, <1>5, <1>6, <1>8, InsertSound, InsertShape, InsertModified
  <1>10. \A e \in L1s \cup L2s : \A u \in Ways[e] : Degraded(cache[e][u], g[e][u])
    <2> SUFFICES ASSUME NEW e \in L1s \cup L2s, NEW u \in Ways[e] PROVE Degraded(cache[e][u], g[e][u])
      OBVIOUS
    <2>1. e \in Caches /\ e # b
      BY Family DEF Caches
    <2> QED
      BY <2>1, <1>3, <1>5, <1>9 DEF Gains, SameBut
  <1>11. Mid(g, c) /\ \A u \in Ways[p] : Degraded(cache[p][u], g[p][u])
    BY <1>1, <1>9, <1>10 DEF Mid
  <1>12. /\ ServeFromLLC(g, c, b, v)
         /\ dirty' = (dirty \ (IF h[b][v].state = "M" THEN {h[b][v].addr} ELSE {})) \cup Written(c)
    BY <1>2, <1>4, <1>6 DEF GetMissesLLC
  <1>13. /\ Sound(cache') /\ ThreadsOK' /\ L1Step(cache, cache')
         /\ \A x : Modified(cache', x) <=> Modified(g, x) \/ (op[c].type = "GETX" /\ x = op[c].addr)
    BY <1>0, <1>9, <1>11, <1>12, ServeStep
  <1>14. \A x : Modified(k, x) <=> Modified(h, x) /\ ~(h[b][v].state = "M" /\ x = h[b][v].addr)
    <2>1. \A e \in Caches : \A u \in Ways[e] : e # b \/ u # v => k[e][u] = h[e][u]
      BY <1>5 DEF SameBut
    <2>2. CASE h[b][v].state = "M"
      <3>1. h[b][v].addr # NoAddr
        BY <1>1, <1>3, <2>2 DEF Sound, Vacant
      <3>2. ~Modified(k, h[b][v].addr)
        <4> SUFFICES ASSUME NEW e \in Caches, NEW u \in Ways[e], k[e][u].addr = h[b][v].addr, k[e][u].state = "M"
                     PROVE  FALSE
          BY DEF Modified
        <4>1. e # b \/ u # v
          BY <1>5
        <4> QED
          BY <2>1, <4>1, <3>1, <1>3, OnlyInBank
      <3> QED
        BY <1>5, <2>1, <2>2, <3>2 DEF Modified
    <2>3. CASE h[b][v].state # "M"
      BY <1>5, <2>1, <2>3 DEF Modified
    <2> QED
      BY <2>2, <2>3
  <1>15. dirty' \subseteq Addrs
    BY <1>1, <1>12, Before DEF Written
  <1>16. DirtyInv => DirtyInv'
    BY <1>3, <1>9, <1>12, <1>13, <1>14 DEF DirtyInv, Written
  <1> QED
    BY <1>13, <1>15, <1>16 DEF StepOK, IInv

-----------------------------------------------------------------------------
(***************************************************************************)
(* The inductive invariant, and the invariants that follow from it.        *)
(***************************************************************************)

\* Every step of every thread is covered.
LEMMA NextStep ==
    ASSUME IInv, Next
    PROVE  StepOK
  <1>1. PICK c \in L1s : Below(c) \/ GetFromLLC(c)
    BY DEF Next
  <1>2. ASSUME NEW a \in Addrs, SilentUpgrade(c, a) PROVE StepOK
    BY <1>2, SilentUpgradeStep
  <1>3. ASSUME NEW a \in Addrs, NEW type \in {"GETS", "GETX"},
               MissOnPermission(c, a, type) \/ MissOnLine(c, a, type)
        PROVE  StepOK
    BY <1>3, MissOnPermissionStep, MissOnLineStep
  <1>4. CASE PutToL2(c) \/ GetHitsL2(c) \/ GetMissesL2(c) \/ PutToLLC(c)
    BY <1>4, PutToL2Step, GetHitsL2Step, GetMissesL2Step, PutToLLCStep
  <1>5. CASE GetFromLLC(c)
    <2>1. PICK b \in Banks : \E w \in Ways[b] : GetHitsLLC(c, b, w) \/ GetMissesLLC(c, b, w)
      BY <1>5 DEF GetFromLLC
    <2> QED
      BY <2>1, GetHitsLLCStep, GetMissesLLCStep
  <1> QED
    BY <1>1, <1>2, <1>3, <1>4, <1>5 DEF Below

\* The invariant holds initially.
LEMMA InitSound == Init => IInv /\ DirtyInv
  <1> SUFFICES ASSUME Init PROVE IInv /\ DirtyInv
    OBVIOUS
  <1>1. \A c \in Caches : NoLine \in Lines(c)
    BY DEF NoLine, Lines, MESIStates
  <1>2. Typed(cache) /\ \A c \in Caches : \A w \in Ways[c] : cache[c][w] = NoLine
    BY <1>1 DEF Init, Typed
  <1>3. NoLine.addr = NoAddr /\ NoLine.state = "I" /\ NoLine.sharers = {} /\ NoLine.numSharers = 0
    BY DEF NoLine
  <1>4. Unique(cache) /\ Vacant(cache)
    BY <1>2, <1>3 DEF Unique, Vacant
  <1>5. Directory(cache) /\ Inclusive(cache)
    BY <1>2, <1>3, Family DEF Directory, Inclusive, Has, Caches
  <1>6. Counted(cache)
    BY <1>2, <1>3, FS_EmptySet DEF Counted
  <1>7. ThreadsOK
    <2>1. pc \in [L1s -> ThreadPcs] /\ op \in [L1s -> Requests] /\ \A c \in L1s : pc[c] = "idle"
      BY DEF Init, ThreadPcs, Requests, NoOp, MESIStates
    <2> QED
      BY <2>1 DEF ThreadsOK, Waiting, OneAtLLC, AtLLC
  <1>8. DirtyInv
    BY <1>2, <1>3 DEF DirtyInv, Modified, Init
  <1> QED
    BY <1>2, <1>4, <1>5, <1>6, <1>7, <1>8 DEF IInv, Sound, Init

\* The state in which c has a, in a value of cache.
At(h, c, a) ==
    IF \E w \in Ways[c] : h[c][w].addr = a /\ h[c][w].state # "I"
    THEN h[c][CHOOSE w \in Ways[c] : h[c][w].addr = a /\ h[c][w].state # "I"].state
    ELSE "I"

\* It is the state of the one line that has the address, if that is valid.
LEMMA AtFacts ==
    ASSUME NEW h, Sound(h), NEW c \in Caches, NEW a
    PROVE  /\ At(h, c, a) \in MESIStates
           /\ At(h, c, a) # "I" <=> Has(h, c, a)
           /\ \A w \in Ways[c] : h[c][w].addr = a /\ h[c][w].state # "I" => At(h, c, a) = h[c][w].state
  <1>1. CASE ~Has(h, c, a)
    BY <1>1 DEF Has, At, MESIStates
  <1>2. CASE Has(h, c, a)
    <2>1. PICK v : v = CHOOSE w \in Ways[c] : h[c][w].addr = a /\ h[c][w].state # "I"
      OBVIOUS
    <2>2. v \in Ways[c] /\ h[c][v].addr = a /\ h[c][v].state # "I"
      BY <1>2, <2>1 DEF Has
    <2>3. At(h, c, a) = h[c][v].state
      BY <1>2, <2>1 DEF At, Has
    <2>4. h[c][v].state \in MESIStates
      BY <2>2 DEF Sound, Typed, Lines
    <2>5. \A w \in Ways[c] : h[c][w].addr = a => w = v
      BY <2>2, ValidLine
    <2> QED
      BY <1>2, <2>2, <2>3, <2>4, <2>5
  <1> QED
    BY <1>1, <1>2

\* StateOf() is the state of the only line with the address.
LEMMA StateIsAt == \A c, a : StateOf(c, a) = At(cache, c, a)
  BY DEF StateOf, At

\* Exact directories follow from the invariant.
LEMMA DirectoryFollows ==
    ASSUME Sound(cache)
    PROVE  DirectoryExact
  <1> SUFFICES ASSUME NEW c \in L2s \cup Banks, NEW w \in Ways[c]
               PROVE  /\ cache[c][w].sharers = {d \in Children(c) : StateOf(d, cache[c][w].addr) # "I"}
                      /\ cache[c][w].numSharers = Cardinality(cache[c][w].sharers)
    BY DEF DirectoryExact
  <1>1. c \in Caches /\ \A d \in Children(c) : d \in Caches
    BY Family DEF Caches
  <1>2. cache[c][w].sharers \subseteq Children(c) /\ cache[c][w].numSharers = Cardinality(cache[c][w].sharers)
    BY <1>1 DEF Sound, Typed, Lines, Counted
  <1>3. \A d \in Children(c) : d \in cache[c][w].sharers <=> StateOf(d, cache[c][w].addr) # "I"
    BY <1>1, AtFacts, StateIsAt DEF Sound, Directory
  <1> QED
    BY <1>2, <1>3

\* Inclusion follows from the invariant.
LEMMA InclusionFollows ==
    ASSUME Sound(cache)
    PROVE  InclusionHolds
  <1>1. ASSUME NEW a \in Addrs PROVE Cardinality(InBanks(cache, a)) <= 1
    <2>0. a # NoAddr
      BY CoherenceAssumption
    <2>1. CASE InBanks(cache, a) = {}
      BY <2>1, FS_EmptySet
    <2>2. CASE InBanks(cache, a) # {}
      <3>1. PICK bw \in InBanks(cache, a) : TRUE
        BY <2>2
      <3>2. ASSUME NEW x \in InBanks(cache, a) PROVE x = bw
        <4>1. /\ x[1] \in Banks /\ x[2] \in Ways[x[1]] /\ cache[x[1]][x[2]].addr = a
              /\ bw[1] \in Banks /\ bw[2] \in Ways[bw[1]] /\ cache[bw[1]][bw[2]].addr = a
          BY BankLine
        <4>2. x[1] = bw[1] /\ x[2] = bw[2]
          BY <4>1, <2>0 DEF Sound, Unique, Peers, Caches
        <4>3. x = <<x[1], x[2]>> /\ bw = <<bw[1], bw[2]>>
          BY DEF InBanks
        <4> QED
          BY <4>2, <4>3
      <3>3. InBanks(cache, a) = {bw}
        BY <3>2
      <3> QED
        BY <3>3, FS_Singleton
    <2> QED
      BY <2>1, <2>2
  <1>2. ASSUME NEW a \in Addrs, NEW c \in L1s \cup L2s PROVE Cardinality(lookup(cache, c, a)) <= 1
    <2>0. a # NoAddr /\ c \in Caches
      BY CoherenceAssumption DEF Caches
    <2>1. CASE lookup(cache, c, a) = {}
      BY <2>1, FS_EmptySet
    <2>2. CASE lookup(cache, c, a) # {}
      <3>1. PICK w \in lookup(cache, c, a) : TRUE
        BY <2>2
      <3>2. lookup(cache, c, a) = {w}
        BY <2>0 DEF Sound, Unique, Peers, lookup
      <3> QED
        BY <3>2, FS_Singleton
    <2> QED
      BY <2>1, <2>2
  <1>3. ASSUME NEW d \in L1s \cup L2s, NEW v \in Ways[d], cache[d][v].state # "I"
        PROVE  \E c \in Parents(d) : \E w \in lookup(cache, c, cache[d][v].addr) :
                  /\ d \in cache[c][w].sharers /\ cache[c][w].state # "I"
                  /\ cache[d][v].state \in {"E", "M"} => isExclusive(cache[c][w]) /\ cache[c][w].state \in {"E", "M"}
    <2>1. PICK c \in Parents(d) : \E w \in Ways[c] : Allows(cache[c][w], cache[d][v])
      BY <1>3 DEF Sound, Inclusive
    <2>2. PICK w \in Ways[c] : Allows(cache[c][w], cache[d][v])
      BY <2>1
    <2>3. c \in L2s \cup Banks /\ d \in Children(c)
      BY Family
    <2>4. d \in cache[c][w].sharers
      BY <1>3, <2>2, <2>3, LineAbove DEF Allows
    <2> QED
      BY <2>2, <2>4 DEF Allows, lookup
  <1> QED
    BY <1>1, <1>2, <1>3 DEF InclusionHolds

\* What the run checks follows from the invariant.
LEMMA HierarchyFollows ==
    ASSUME IInv
    PROVE  HierarchySound
  <1>1. TypeOK
    <2>1. ASSUME NEW c \in Caches, NEW w \in Ways[c]
          PROVE  cache[c][w] \in [addr : Addrs \cup {NoAddr}, state : MESIStates, sharers : SUBSET Children(c),
                                  numSharers : 0..Cardinality(Children(c)), exclusive : BOOLEAN]
      <3>1. cache[c][w] \in Lines(c) /\ cache[c][w].numSharers = Cardinality(cache[c][w].sharers)
        BY DEF IInv, Sound, Typed, Counted
      <3>2. cache[c][w].numSharers \in 0..Cardinality(Children(c))
        <4>1. cache[c][w].sharers \in SUBSET Children(c) /\ IsFiniteSet(Children(c))
          BY <3>1, Family DEF Lines
        <4>2. /\ Cardinality(cache[c][w].sharers) \in Nat /\ Cardinality(Children(c)) \in Nat
              /\ Cardinality(cache[c][w].sharers) <= Cardinality(Children(c))
          BY <4>1, FS_Subset, FS_CardinalityType
        <4> QED
          BY <3>1, <4>2
      <3> QED
        BY <3>1, <3>2 DEF Lines
    <2>2. \A c \in L1s : /\ op[c].type \in {"GETS", "GETX"}
                         /\ op[c].i1 \in MESIStates /\ op[c].i2 \in MESIStates
      BY Before DEF Requests
    <2>3. \A c \in L1s : /\ pc[c] # "idle" => op[c].addr \in Addrs /\ op[c].w1 \in Ways[c]
                         /\ pc[c] \in {"put2", "get2"} => op[c].w2 \in Ways[parent[c]]
      BY Before DEF Waiting, AtLLC
    <2>4. pc \in [L1s -> ThreadPcs] /\ dirty \subseteq Addrs
      BY DEF IInv, ThreadsOK
    <2> QED
      BY <2>1, <2>2, <2>3, <2>4 DEF TypeOK
  <1>2. RacesForeseen
    <2> DEFINE Raced(put, type, initialState, state) ==
                 state # initialState =>
                     \/ put /\ (state = "I" \/ (state = "S" /\ initialState \in {"E", "M"}))
                     \/ ~put /\ type = "GETX" /\ initialState = "S" /\ state = "I"
    <2>1. ASSUME NEW line, NEW type \in {"GETS", "GETX"}, NEW i, NEW a
          PROVE  /\ LineWaits(line, type, i, a) => Raced(FALSE, type, i, line.state)
                 /\ LineLeaves(line, i) => Raced(TRUE, type, i, line.state)
      BY <2>1 DEF LineWaits, LineLeaves
    <2>2. ASSUME NEW c \in L1s
          PROVE  /\ pc[c] = "put1" => Raced(TRUE, op[c].type, op[c].i1, cache[c][op[c].w1].state)
                 /\ pc[c] = "get1" => Raced(FALSE, op[c].type, op[c].i1, cache[c][op[c].w1].state)
                 /\ pc[c] = "put2" => Raced(TRUE, op[c].type, op[c].i2, cache[parent[c]][op[c].w2].state)
                 /\ pc[c] = "get2" => Raced(FALSE, op[c].type, op[c].i2, cache[parent[c]][op[c].w2].state)
      <3> HIDE DEF Raced
      <3>1. Waiting(cache, c, pc[c], op[c]) /\ op[c].type \in {"GETS", "GETX"}
        BY Before
      <3> QED
        BY <3>1, <2>1 DEF Waiting
    <2>3. ASSUME NEW c \in L1s, pc[c] = "put2", InBanks(cache, cache[parent[c]][op[c].w2].addr) = {}
          PROVE  cache[parent[c]][op[c].w2].state # op[c].i2
      <3>1. /\ Sound(cache) /\ op[c].w2 \in Ways[parent[c]] /\ parent[c] \in L2s
            /\ LineLeaves(cache[parent[c]][op[c].w2], op[c].i2)
        BY <2>3, Before, ThreadTypes DEF Waiting, AtLLC
      <3>2. cache[parent[c]][op[c].w2].state = "I"
        BY <2>3, <3>1, InABank
      <3> QED
        BY <3>1, <3>2 DEF LineLeaves
    <2> QED
      BY <2>2, <2>3 DEF RacesForeseen
  <1> QED
    BY <1>1, <1>2, DirectoryFollows, InclusionFollows DEF HierarchySound, IInv

\* The invariant is inductive.
LEMMA IInvInductive ==
    ASSUME IInv, [Next]_vars
    PROVE  IInv' /\ (DirtyInv => DirtyInv')
  <1>1. CASE Next
    BY <1>1, NextStep DEF StepOK
  <1>2. CASE UNCHANGED vars
    BY <1>2 DEF vars, IInv, ThreadsOK, OneAtLLC, DirtyInv
  <1> QED
    BY <1>1, <1>2

\* Whatever the threads do, and wherever they are between the locks, directories
\* name exactly the holders of a line, inclusion and uniqueness hold, and the
\* races are those that CheckForMESIRace() foresees.
THEOREM HierarchyIsSound == Spec => []HierarchySound
  <1>1. Init => IInv
    BY InitSound
  <1>2. IInv /\ [Next]_vars => IInv'
    BY IInvInductive
  <1>3. IInv => HierarchySound
    BY HierarchyFollows
  <1> QED
    BY <1>1, <1>2, <1>3, PTL DEF Spec

\* No write is lost on its way down, and none is written back that was not
\* made: a line is M in some cache exactly while memory is out of date.
THEOREM WritesAreKept == Spec => []DirtyExact
  <1>1. Init => IInv /\ DirtyInv
    BY InitSound
  <1>2. IInv /\ DirtyInv /\ [Next]_vars => (IInv /\ DirtyInv)'
    BY IInvInductive
  <1>3. IInv /\ DirtyInv => DirtyExact
    <2> SUFFICES ASSUME IInv, DirtyInv, NEW a \in Addrs
                 PROVE  a \in dirty <=> \E c \in Caches : StateOf(c, a) = "M"
      BY DEF DirtyExact
    <2>1. Sound(cache)
      BY DEF IInv
    <2>2. ASSUME NEW c \in Caches
          PROVE  StateOf(c, a) = "M" <=> \E w \in Ways[c] : cache[c][w].addr = a /\ cache[c][w].state = "M"
      <3>1. /\ StateOf(c, a) # "I" <=> Has(cache, c, a)
            /\ \A w \in Ways[c] : cache[c][w].addr = a /\ cache[c][w].state # "I" => StateOf(c, a) = cache[c][w].state
        BY <2>1, AtFacts, StateIsAt
      <3> QED
        BY <3>1 DEF Has
    <2> QED
      BY <2>2 DEF DirtyInv, Modified
  <1> QED
    BY <1>1, <1>2, <1>3, PTL DEF Spec

-----------------------------------------------------------------------------
(***************************************************************************)
(* The refinement of SharedLines.                                          *)
(***************************************************************************)

\* A child that may write shares the line with no other child.
LEMMA SoleSharer ==
    ASSUME NEW h, Sound(h), NEW c \in L2s \cup Banks, NEW w \in Ways[c],
           NEW d \in Children(c), NEW v \in Ways[d], h[d][v].addr = h[c][w].addr, h[d][v].state \in {"E", "M"},
           NEW e \in Children(c), NEW u \in Ways[e], h[e][u].addr = h[c][w].addr, h[e][u].state # "I"
    PROVE  d = e
  <1>1. Allows(h[c][w], h[d][v]) /\ d \in h[c][w].sharers /\ e \in h[c][w].sharers
    BY LineAbove
  <1>2. h[c][w].numSharers = 1
    BY <1>1 DEF Allows, isExclusive
  <1>3. PICK x : h[c][w].sharers = {x}
    BY <1>2, SharerCount DEF Caches
  <1> QED
    BY <1>1, <1>3

\* An L1 that may write is the only one that has the line.
LEMMA WriterIsAlone ==
    ASSUME NEW h, Sound(h), NEW d \in L1s, NEW e \in L1s, NEW a, At(h, d, a) \in {"E", "M"}, At(h, e, a) # "I"
    PROVE  d = e
  <1>0. d \in Caches /\ e \in Caches
    BY DEF Caches
  <1>1. PICK v \in Ways[d] : h[d][v].addr = a /\ h[d][v].state = At(h, d, a)
    BY <1>0, AtFacts DEF Has
  <1>2. PICK u \in Ways[e] : h[e][u].addr = a /\ h[e][u].state # "I"
    BY <1>0, AtFacts DEF Has
  <1>3. /\ parent[d] \in L2s /\ Parents(d) = {parent[d]} /\ d \in Children(parent[d])
        /\ parent[e] \in L2s /\ Parents(e) = {parent[e]} /\ e \in Children(parent[e])
    BY CoherenceAssumption DEF Parents, Children
  <1>4. PICK w \in Ways[parent[d]] : Allows(h[parent[d]][w], h[d][v])
    BY <1>1, <1>3 DEF Sound, Inclusive
  <1>5. PICK t \in Ways[parent[e]] : Allows(h[parent[e]][t], h[e][u])
    BY <1>2, <1>3 DEF Sound, Inclusive
  <1>6. h[parent[d]][w].addr = a /\ h[parent[d]][w].state \in {"E", "M"}
    BY <1>1, <1>4 DEF Allows
  <1>7. h[parent[e]][t].addr = a /\ h[parent[e]][t].state # "I"
    BY <1>2, <1>5 DEF Allows
  <1>8. parent[d] = parent[e]
    <2>1. Parents(parent[d]) = Banks
      BY <1>3, CoherenceAssumption DEF Parents
    <2>2. PICK b \in Banks : \E x \in Ways[b] : Allows(h[b][x], h[parent[d]][w])
      BY <1>3, <1>6, <2>1 DEF Sound, Inclusive
    <2>3. PICK x \in Ways[b] : h[b][x].addr = a
      BY <1>6, <2>2 DEF Allows
    <2>4. parent[d] \in Children(b) /\ parent[e] \in Children(b)
      BY <1>3, Family
    <2> QED
      BY <1>6, <1>7, <2>3, <2>4, SoleSharer
  <1> QED
    BY <1>1, <1>2, <1>3, <1>6, <1>8, SoleSharer

\* A line that gains nothing gives its cache no better permission.
LEMMA KeptRank ==
    ASSUME NEW h, Sound(h), NEW g, Sound(g), NEW e \in L1s, NEW a,
           \A u \in Ways[e] : g[e][u].addr = a /\ g[e][u].state # "I" => Keeps(h, g, e, u)
    PROVE  Abstract!Rank(At(g, e, a)) <= Abstract!Rank(At(h, e, a))
  <1>0. e \in Caches /\ At(h, e, a) \in MESIStates
    BY AtFacts DEF Caches
  <1>1. CASE At(g, e, a) = "I"
    BY <1>0, <1>1 DEF Abstract!Rank, MESIStates
  <1>2. CASE At(g, e, a) # "I"
    <2>1. PICK u \in Ways[e] : g[e][u].addr = a /\ g[e][u].state # "I" /\ At(g, e, a) = g[e][u].state
      BY <1>0, <1>2, AtFacts DEF Has
    <2>2. /\ h[e][u].addr = a
          /\ g[e][u].state = h[e][u].state \/ (g[e][u].state = "S" /\ h[e][u].state \in {"E", "M"})
      BY <2>1 DEF Keeps
    <2>3. At(h, e, a) = h[e][u].state
      BY <1>0, <2>1, <2>2, AtFacts
    <2> QED
      BY <1>0, <2>1, <2>2, <2>3 DEF Abstract!Rank, MESIStates
  <1> QED
    BY <1>1, <1>2

\* Such a step of the L1s is a step of the abstract shared memory.
LEMMA StepRefines ==
    ASSUME Sound(cache), Sound(cache'), L1Step(cache, cache')
    PROVE  Abstract!Next
  <1>1. Sound(cache) /\ Sound(cache') /\ L1Step(cache, cache')
    OBVIOUS
  <1>2. /\ \A c \in L1s, a \in Addrs : permission[c][a] = At(cache, c, a)
        /\ \A c \in L1s, a \in Addrs : permission'[c][a] = At(cache', c, a)
    BY DEF permission, StateOf, At
  <1>3. permission' \in [L1s -> [Addrs -> Abstract!Perms]]
    <2>1. \A c \in L1s, a \in Addrs : StateOf(c, a)' \in MESIStates
      <3>1. \A c \in L1s, a \in Addrs : StateOf(c, a)' = At(cache', c, a)
        BY DEF StateOf, At
      <3>2. \A c \in L1s, a \in Addrs : At(cache', c, a) \in MESIStates
        BY <1>1, AtFacts DEF Caches
      <3> QED
        BY <3>1, <3>2
    <2>2. permission' = [c \in L1s |-> [a \in Addrs |-> StateOf(c, a)']]
      BY DEF permission
    <2> QED
      BY <2>1, <2>2 DEF Abstract!Perms, MESIStates
  <1>4. CASE \A e \in L1s : \A u \in Ways[e] : Keeps(cache, cache', e, u)
    <2>1. \A d \in L1s, b \in Addrs : Abstract!Rank(permission'[d][b]) <= Abstract!Rank(permission[d][b])
      BY <1>1, <1>2, <1>4, KeptRank
    <2> QED
      BY <1>3, <2>1 DEF Abstract!Next, Abstract!Lose
  <1>5. ASSUME NEW c \in L1s, NEW w \in Ways[c], cache'[c][w].addr \in Addrs, cache'[c][w].state # "I",
               \A e \in L1s : \A u \in Ways[e] : e # c \/ u # w => Keeps(cache, cache', e, u)
        PROVE  Abstract!Next
    <2>1. PICK a \in Addrs : a = cache'[c][w].addr
      BY <1>5
    <2>2. PICK p : p = cache'[c][w].state
      OBVIOUS
    <2>3. c \in Caches
      BY DEF Caches
    <2>4. p \in {"S", "E", "M"} /\ At(cache', c, a) = p
      <3>1. At(cache', c, a) = p /\ At(cache', c, a) \in MESIStates
        BY <1>1, <1>5, <2>1, <2>2, <2>3, AtFacts
      <3> QED
        BY <3>1, <2>2, <1>5 DEF MESIStates
    <2>5. ASSUME NEW d \in L1s, NEW b \in Addrs, <<d, b>> # <<c, a>>
          PROVE  Abstract!Rank(permission'[d][b]) <= Abstract!Rank(permission[d][b])
      <3>1. \A u \in Ways[d] : cache'[d][u].addr = b /\ cache'[d][u].state # "I" => Keeps(cache, cache', d, u)
        BY <1>5, <2>1, <2>5
      <3> QED
        BY <1>1, <1>2, <3>1, KeptRank
    <2>6. ASSUME NEW d \in L1s \ {c}
          PROVE  permission'[d][a] \in Abstract!MayKeep(p)
      <3>1. d \in Caches /\ At(cache', d, a) \in MESIStates
        BY <1>1, AtFacts DEF Caches
      <3>2. At(cache', d, a) \notin {"E", "M"}
        BY <1>1, <2>4, <2>6, WriterIsAlone
      <3>3. p \in {"E", "M"} => At(cache', d, a) = "I"
        BY <1>1, <2>4, <2>6, WriterIsAlone
      <3> QED
        BY <1>2, <2>4, <3>1, <3>2, <3>3 DEF Abstract!MayKeep, MESIStates
    <2>7. permission'[c][a] = p
      BY <1>2, <2>4
    <2>8. Abstract!Grant(c, a, p)
      BY <2>5, <2>6, <2>7 DEF Abstract!Grant
    <2> QED
      BY <1>3, <2>4, <2>8 DEF Abstract!Next
  <1> QED
    BY <1>1, <1>4, <1>5 DEF L1Step

\* The hierarchy implements the abstract shared memory.
THEOREM HierarchyImplements == Spec => AbstractSpec
  <1>1. Init => IInv /\ Abstract!Init
    <2> SUFFICES ASSUME Init PROVE Abstract!Init
      BY InitSound
    <2>1. \A c \in L1s, a \in Addrs : StateOf(c, a) = "I"
      BY DEF Init, StateOf, NoLine, Caches
    <2> QED
      BY <2>1 DEF Abstract!Init, permission
  <1>2. IInv /\ [Next]_vars => IInv'
    BY IInvInductive
  <1>3. IInv /\ [Next]_vars => [Abstract!Next]_permission
    <2>1. UNCHANGED vars => UNCHANGED permission
      BY DEF vars, permission, StateOf
    <2> QED
      BY <2>1, NextStep, StepRefines DEF StepOK, IInv
  <1> QED
    BY <1>1, <1>2, <1>3, PTL DEF Spec, AbstractSpec, Abstract!Spec

\* What a program relies on: a thread that may write a line is the only one
\* that has it, wherever the others are with their requests.
THEOREM NoStaleReader == Spec => []Abstract!Exclusive
  <1>1. Init => IInv
    BY InitSound
  <1>2. IInv /\ [Next]_vars => IInv'
    BY IInvInductive
  <1>3. IInv => Abstract!Exclusive
    <2> SUFFICES ASSUME IInv, NEW c \in L1s, NEW d \in L1s, c # d, NEW a \in Addrs,
                        permission[c][a] \in {"E", "M"}
                 PROVE  permission[d][a] = "I"
      BY DEF Abstract!Exclusive
    <2>1. permission[c][a] = At(cache, c, a) /\ permission[d][a] = At(cache, d, a)
      BY DEF permission, StateOf, At
    <2> QED
      BY <2>1, WriterIsAlone DEF IInv
  <1> QED
    BY <1>1, <1>2, <1>3, PTL DEF Spec

-----------------------------------------------------------------------------
(***************************************************************************)
(* That neither the accounting of first-time misses nor the refreshes that *)
(* move lines between the accesses of others break the hierarchy, and that *)
(* no access is counted as a first-time miss by mistake: for any number of *)
(* caches, lines and addresses.                                            *)
(***************************************************************************)


\* A bank moves a line to the place of one that nobody shares.
Moved(h, g, b, w, v) ==
    /\ Typed(g)
    /\ \A e \in Caches : \A u \in Ways[e] : e # b \/ u \notin {v, w} => g[e][u] = h[e][u]
    /\ g[b][v] = h[b][w] /\ g[b][w] = NoLine

\* That keeps the hierarchy sound.
LEMMA MoveSound ==
    ASSUME NEW h, Sound(h), NEW b \in Banks, NEW w \in Ways[b], NEW v \in Ways[b], w # v,
           h[b][v].sharers = {}, NEW g, Moved(h, g, b, w, v)
    PROVE  Sound(g)
  <1>0. b \in Caches /\ b \in L2s \cup Banks
    BY DEF Caches
  <1>1. NoLine.addr = NoAddr /\ NoLine.state = "I" /\ NoLine.sharers = {} /\ NoLine.numSharers = 0
    BY DEF NoLine
  <1>2. \A e \in L1s \cup L2s : \A u \in Ways[e] : g[e][u] = h[e][u]
    BY Family DEF Moved, Caches
  <1>3. Typed(g)
    BY DEF Moved
  <1>4. \A e \in Caches : \A u \in Ways[e] :
          g[e][u] = NoLine \/ (\E x \in Ways[e] : g[e][u] = h[e][x])
    <2> SUFFICES ASSUME NEW e \in Caches, NEW u \in Ways[e] PROVE g[e][u] = NoLine \/ (\E x \in Ways[e] : g[e][u] = h[e][x])
      OBVIOUS
    <2>1. CASE e = b /\ u \in {v, w}
      BY <2>1 DEF Moved
    <2>2. CASE e # b \/ u \notin {v, w}
      BY <2>2 DEF Moved
    <2> QED
      BY <2>1, <2>2
  <1>5. Vacant(g) /\ Counted(g)
    <2>1. Vacant(g)
      BY <1>1, <1>4 DEF Sound, Vacant
    <2>2. Cardinality({}) = 0
      BY FS_EmptySet
    <2>3. Counted(g)
      <3> SUFFICES ASSUME NEW e \in Caches, NEW u \in Ways[e]
                   PROVE  g[e][u].numSharers = Cardinality(g[e][u].sharers)
        BY DEF Counted
      <3>1. CASE g[e][u] = NoLine
        BY <1>1, <2>2, <3>1
      <3>2. ASSUME NEW x \in Ways[e], g[e][u] = h[e][x]
            PROVE  g[e][u].numSharers = Cardinality(g[e][u].sharers)
        BY <3>2 DEF Sound, Counted
      <3> QED
        BY <1>4, <3>1, <3>2
    <2> QED
      BY <2>1, <2>3
  <1>6. Unique(g)
    <2> DEFINE from(e, u) == IF e = b /\ u = v THEN w ELSE u
    <2>1. \A e \in Caches : \A u \in Ways[e] :
            g[e][u].addr # NoAddr => from(e, u) \in Ways[e] /\ g[e][u] = h[e][from(e, u)]
      BY <1>1 DEF Moved
    <2>2. \A e \in Caches : \A u \in Ways[e] : g[e][u].addr # NoAddr => ~(e = b /\ u = w)
      BY <1>1 DEF Moved
    <2> SUFFICES ASSUME NEW c \in Caches, NEW e \in Caches, Peers(c, e), NEW x \in Ways[c], NEW y \in Ways[e],
                        g[c][x].addr = g[e][y].addr, g[c][x].addr # NoAddr
                 PROVE  c = e /\ x = y
      BY DEF Unique
    <2>3. c = e /\ from(c, x) = from(e, y)
      <3> HIDE DEF from
      <3> QED
        BY <2>1 DEF Sound, Unique
    <2> QED
      BY <2>2, <2>3
  <1>7. Directory(g)
    <2> SUFFICES ASSUME NEW c \in L2s \cup Banks, NEW x \in Ways[c], NEW d \in Children(c)
                 PROVE  d \in g[c][x].sharers <=> Has(g, d, g[c][x].addr)
      BY DEF Directory
    <2>1. d \in L1s \cup L2s /\ d \in Caches /\ c \in Caches
      BY Family DEF Caches
    <2>2. \A a : Has(g, d, a) <=> Has(h, d, a)
      BY <1>2, <2>1 DEF Has
    <2>3. ~Has(h, d, NoAddr)
      BY <2>1 DEF Has, Sound, Vacant
    <2>4. PICK y \in Ways[c] : g[c][x] = NoLine \/ g[c][x] = h[c][y]
      BY <1>4, <2>1
    <2> QED
      BY <1>1, <2>2, <2>3, <2>4 DEF Sound, Directory
  <1>8. Inclusive(g)
    <2> SUFFICES ASSUME NEW d \in L1s \cup L2s, NEW y \in Ways[d], g[d][y].state # "I"
                 PROVE  \E c \in Parents(d) : \E x \in Ways[c] : Allows(g[c][x], g[d][y])
      BY DEF Inclusive
    <2>1. g[d][y] = h[d][y]
      BY <1>2
    <2>2. PICK c \in Parents(d) : \E x \in Ways[c] : Allows(h[c][x], h[d][y])
      BY <2>1 DEF Sound, Inclusive
    <2>3. PICK x \in Ways[c] : Allows(h[c][x], h[d][y])
      BY <2>2
    <2>4. c \in L2s \cup Banks /\ d \in Children(c) /\ c \in Caches
      BY Family DEF Caches
    <2>5. c # b \/ x # v
      BY <2>1, <2>3, <2>4, LineAbove DEF Allows
    <2>6. CASE c = b /\ x = w
      BY <2>1, <2>3, <2>6 DEF Moved
    <2>7. CASE c # b \/ x # w
      BY <2>1, <2>3, <2>4, <2>5, <2>7 DEF Moved
    <2> QED
      BY <2>6, <2>7
  <1> QED
    BY <1>3, <1>5, <1>6, <1>7, <1>8 DEF Sound

\* evictAddr(): the caches that are reached lose the line, and the entry is
\* as it was.
LEMMA DroppedShape ==
    ASSUME NEW h, Typed(h), NEW b \in Caches, NEW v \in Ways[b]
    PROVE  LET g == Dropped(h, b, v)
               Hit(e, u) == e \in Reached(h, b, v, "INV") /\ h[e][u].addr = h[b][v].addr
           IN  /\ Typed(g)
               /\ \A e \in Caches : \A u \in Ways[e] :
                    /\ g[e][u].addr = h[e][u].addr
                    /\ Hit(e, u) => g[e][u].state = "I" /\ g[e][u].sharers = {} /\ g[e][u].numSharers = 0
                    /\ ~Hit(e, u) => g[e][u] = h[e][u]
  <1> DEFINE g == Dropped(h, b, v)
             R == Reached(h, b, v, "INV")
             Inv(e) == [InvLine(e, "INV") EXCEPT !.exclusive = FALSE]
  <1>1. ASSUME NEW d \in Caches, NEW e \in Lines(d)
        PROVE  /\ Inv(e) \in Lines(d) /\ Inv(e).addr = e.addr /\ Inv(e).state = "I" /\ Inv(e).sharers = {}
               /\ Inv(e).numSharers = 0
    BY <1>1 DEF InvLine, InvDirectory, Lines, MESIStates
  <1>2. /\ DOMAIN g = Caches
        /\ \A e \in Caches : /\ DOMAIN g[e] = Ways[e]
                             /\ \A u \in Ways[e] : g[e][u] = IF e \in R /\ h[e][u].addr = h[b][v].addr
                                                             THEN Inv(h[e][u]) ELSE h[e][u]
    BY DEF Dropped
  <1> HIDE DEF g, R, Inv
  <1>3. ASSUME NEW e \in Caches, NEW u \in Ways[e]
        PROVE  /\ g[e][u] \in Lines(e) /\ g[e][u].addr = h[e][u].addr
               /\ e \in R /\ h[e][u].addr = h[b][v].addr =>
                    g[e][u].state = "I" /\ g[e][u].sharers = {} /\ g[e][u].numSharers = 0
               /\ ~(e \in R /\ h[e][u].addr = h[b][v].addr) => g[e][u] = h[e][u]
    <2>1. h[e][u] \in Lines(e)
      BY DEF Typed
    <2> QED
      BY <1>1, <1>2, <2>1
  <1>4. Typed(g)
    BY <1>2, <1>3 DEF Typed
  <1> QED
    BY <1>3, <1>4 DEF g, R

\* A refresh keeps the hierarchy sound, and lines of other caches only degrade.
LEMMA RefreshEffect ==
    ASSUME Sound(cache), NEW b \in Banks, NEW w \in Ways[b], NEW v \in Ways[b], Refresh(b, w, v)
    PROVE  /\ Sound(cache')
           /\ \A e \in L1s \cup L2s : \A u \in Ways[e] : Degraded(cache[e][u], cache'[e][u])
  <1>0. b \in Caches /\ b \in L2s \cup Banks /\ Typed(cache) /\ w # v
    BY DEF Caches, Sound, Refresh
  <1>1. PICK h : h = Dropped(cache, b, v)
    OBVIOUS
  <1>2. PICK R : R = Reached(cache, b, v, "INV")
    OBVIOUS
  <1>3. /\ Typed(h)
        /\ \A e \in Caches : \A u \in Ways[e] :
             /\ h[e][u].addr = cache[e][u].addr
             /\ e \in R /\ cache[e][u].addr = cache[b][v].addr =>
                  h[e][u].state = "I" /\ h[e][u].sharers = {} /\ h[e][u].numSharers = 0
             /\ ~(e \in R /\ cache[e][u].addr = cache[b][v].addr) => h[e][u] = cache[e][u]
    BY <1>0, <1>1, <1>2, DroppedShape
  <1>4. R \subseteq (L1s \cup L2s) \ {b} /\ Spreads(cache, cache[b][v].addr, cache[b][v].sharers, R, "INV")
    <2>1. Targets(cache[b][v], "INV") = cache[b][v].sharers
      BY DEF Targets
    <2> QED
      BY <1>0, <1>2, <2>1, ReachedSpreads DEF SameBut
  <1> DEFINE P == [d \in Caches |-> [u \in Ways[d] |->
                     IF d = b /\ u = v
                     THEN [addr |-> cache[b][v].addr, state |-> cache[b][v].state, sharers |-> {},
                           numSharers |-> 0, exclusive |-> cache[b][v].exclusive]
                     ELSE h[d][u]]]
  <1>5. /\ DOMAIN P = Caches /\ \A d \in Caches : DOMAIN P[d] = Ways[d]
        /\ \A d \in Caches : \A u \in Ways[d] : d # b \/ u # v => P[d][u] = h[d][u]
        /\ P[b][v] \in Lines(b) /\ P[b][v].addr = cache[b][v].addr /\ P[b][v].state = cache[b][v].state
        /\ P[b][v].sharers = {} /\ P[b][v].numSharers = 0
    <2>1. cache[b][v] \in Lines(b)
      BY <1>0 DEF Typed
    <2> QED
      BY <1>0, <2>1 DEF Lines
  <1> HIDE DEF P
  <1>6. Typed(P)
    BY <1>3, <1>5 DEF Typed
  <1>7. Sound(P)
    <2>1. Purged(cache, P, b, v, R, {})
      <3>1. Cardinality({}) = 0
        BY FS_EmptySet
      <3>2. \A e \in Caches : \A u \in Ways[e] :
             /\ P[e][u].addr = cache[e][u].addr
             /\ e \in R /\ cache[e][u].addr = cache[b][v].addr =>
                  P[e][u].state = "I" /\ P[e][u].sharers = {} /\ P[e][u].numSharers = 0
             /\ ~(e \in R /\ cache[e][u].addr = cache[b][v].addr) /\ (e # b \/ u # v) => P[e][u] = cache[e][u]
        BY <1>3, <1>4, <1>5
      <3> QED
        BY <1>0, <1>5, <1>6, <3>1, <3>2 DEF Purged
    <2>2. cache[b][v].sharers \ {} = cache[b][v].sharers /\ R \cap {} = {} /\ {} \in SUBSET Children(b)
      OBVIOUS
    <2>3. PICK X : X = {}
      OBVIOUS
    <2> QED
      BY <1>0, <1>4, <2>1, <2>2, <2>3, PurgeSound
  <1>8. Moved(P, cache', b, w, v)
    <2>1. cache' = [h EXCEPT ![b][v] = h[b][w], ![b][w] = NoLine]
      BY <1>1 DEF Refresh
    <2>2. PICK row : row = [h[b] EXCEPT ![v] = h[b][w], ![w] = NoLine]
      OBVIOUS
    <2>3. cache' = [h EXCEPT ![b] = row]
      BY <1>0, <1>3, <2>1, <2>2 DEF Typed
    <2>4. /\ DOMAIN row = Ways[b] /\ row[v] = h[b][w] /\ row[w] = NoLine
          /\ \A u \in Ways[b] \ {v, w} : row[u] = h[b][u]
      BY <1>0, <1>3, <2>2 DEF Typed
    <2>5. DOMAIN cache' = Caches /\ cache'[b] = row /\ \A e \in Caches \ {b} : cache'[e] = h[e]
      BY <1>0, <1>3, <2>3 DEF Typed
    <2>6. NoLine \in Lines(b)
      BY DEF NoLine, Lines, MESIStates
    <2>7. Typed(cache')
      BY <1>0, <1>3, <2>4, <2>5, <2>6 DEF Typed
    <2> QED
      BY <1>0, <1>5, <2>4, <2>5, <2>7 DEF Moved
  <1>9. Sound(cache')
    BY <1>0, <1>5, <1>7, <1>8, MoveSound
  <1>10. ASSUME NEW e \in L1s \cup L2s, NEW u \in Ways[e] PROVE Degraded(cache[e][u], cache'[e][u])
    <2>1. e \in Caches /\ e # b
      BY Family DEF Caches
    <2>2. cache'[e][u] = h[e][u]
      BY <1>5, <1>8, <2>1 DEF Moved
    <2> QED
      BY <1>3, <2>1, <2>2 DEF Degraded
  <1> QED
    BY <1>9, <1>10

\* Pending accesses tolerate it.
LEMMA RefreshStep ==
    ASSUME IInv, NEW b \in Banks, NEW w \in Ways[b], NEW v \in Ways[b], Refresh(b, w, v)
    PROVE  IInv' /\ L1Step(cache, cache')
  <1>1. /\ Sound(cache')
        /\ \A e \in L1s \cup L2s : \A u \in Ways[e] : Degraded(cache[e][u], cache'[e][u])
    BY RefreshEffect DEF IInv
  <1>2. PICK c \in L1s : pc[c] = "idle"
    BY DEF Refresh
  <1>3. pc' = pc /\ op' = op /\ dirty' = dirty
    BY DEF Refresh
  <1>4. Waiting(cache', c, pc'[c], op'[c]) /\ pc'[c] \notin AtLLC
    BY <1>2, <1>3 DEF Waiting, AtLLC
  <1>5. ThreadsOK'
    BY <1>1, <1>3, <1>4, ThreadStep, Before, ThreadTypes
  <1>6. L1Step(cache, cache')
    BY <1>1 DEF L1Step, Keeps, Degraded
  <1> QED
    BY <1>1, <1>3, <1>5, <1>6 DEF IInv

-----------------------------------------------------------------------------
(***************************************************************************)
(* The owner bits.                                                         *)
(***************************************************************************)

\* A set per line of every bank.
PerLine(o) == DOMAIN o = Banks /\ \A b \in Banks : DOMAIN o[b] = Ways[b]

\* Whoever has used a line since it came is one of its owners.
UsersOwn ==
    /\ PerLine(owners) /\ PerLine(users)
    /\ \A b \in Banks : \A w \in Ways[b] : users[b][w] \subseteq owners[b][w]

FtmInv == IInv /\ UsersOwn

SetOwners(o, b, w, S) == [o EXCEPT ![b][w] = S]

\* The owners of one line, or of two, are changed and the others stay.
LEMMA OneLineSet ==
    ASSUME NEW o, PerLine(o), NEW b \in Banks, NEW w \in Ways[b], NEW S
    PROVE  LET n == SetOwners(o, b, w, S)
           IN  /\ PerLine(n) /\ n[b][w] = S
               /\ \A e \in Banks : \A u \in Ways[e] : e # b \/ u # w => n[e][u] = o[e][u]
  BY DEF PerLine, SetOwners

\* A refresh moves the owners of a line with it.
LEMMA OwnersMove ==
    ASSUME NEW o, PerLine(o), NEW b \in Banks, NEW w \in Ways[b], NEW v \in Ways[b], w # v
    PROVE  LET n == MoveOwners(o, b, w, v)
           IN  /\ PerLine(n) /\ n[b][v] = o[b][w] /\ n[b][w] = {}
               /\ \A e \in Banks : \A u \in Ways[e] : e # b \/ u \notin {v, w} => n[e][u] = o[e][u]
  <1> DEFINE n == MoveOwners(o, b, w, v)
  <1>1. PICK row : row = [o[b] EXCEPT ![v] = o[b][w], ![w] = {}]
    OBVIOUS
  <1>2. n = [o EXCEPT ![b] = row]
    BY <1>1 DEF PerLine, MoveOwners
  <1>3. /\ DOMAIN row = Ways[b] /\ row[v] = o[b][w] /\ row[w] = {}
        /\ \A u \in Ways[b] \ {v, w} : row[u] = o[b][u]
    BY <1>1 DEF PerLine
  <1> HIDE DEF n
  <1>4. DOMAIN n = Banks /\ n[b] = row /\ \A e \in Banks \ {b} : n[e] = o[e]
    BY <1>2 DEF PerLine
  <1>5. /\ PerLine(n) /\ n[b][v] = o[b][w] /\ n[b][w] = {}
        /\ \A e \in Banks : \A u \in Ways[e] : e # b \/ u \notin {v, w} => n[e][u] = o[e][u]
    BY <1>3, <1>4 DEF PerLine
  <1> QED
    BY <1>5 DEF n

\* An access, a miss that takes the place of another line, and a refresh that
\* moves one keep every user an owner.
LEMMA FtmStep ==
    ASSUME FtmInv, FtmNext
    PROVE  FtmInv' /\ L1Step(cache, cache')
  <1>0. IInv /\ UsersOwn
    BY DEF FtmInv
  <1>1. ASSUME NEW c \in L1s, Below(c), UNCHANGED <<owners, counted, users>>
        PROVE  FtmInv' /\ L1Step(cache, cache')
    <2>1. IInv' /\ L1Step(cache, cache')
      BY <1>0, <1>1, NextStep DEF Next, StepOK
    <2> QED
      BY <1>0, <1>1, <2>1 DEF FtmInv, UsersOwn
  <1>2. ASSUME NEW c \in L1s, NEW b \in Banks, NEW w \in Ways[b], FtmHit(c, b, w) \/ FtmMiss(c, b, w)
        PROVE  FtmInv' /\ L1Step(cache, cache')
    <2>1. IInv' /\ L1Step(cache, cache')
      <3>1. GetFromLLC(c)
        BY <1>2 DEF FtmHit, FtmMiss, GetFromLLC
      <3> QED
        BY <1>0, <3>1, NextStep DEF Next, StepOK
    <2>2. PICK S : S = owners[b][w] \cup {parent[c]}
      OBVIOUS
    <2>3. PICK T : T = users'[b][w]
      OBVIOUS
    <2>4. owners' = SetOwners(owners, b, w, S)
      BY <1>2, <2>2 DEF FtmHit, FtmMiss, AddOwner, SetOwners
    <2>5. /\ PerLine(owners') /\ owners'[b][w] = S
          /\ \A e \in Banks : \A u \in Ways[e] : e # b \/ u # w => owners'[e][u] = owners[e][u]
      BY <1>0, <2>4, OneLineSet DEF UsersOwn
    <2>6. /\ PerLine(users') /\ users'[b][w] \subseteq users[b][w] \cup {parent[c]}
          /\ \A e \in Banks : \A u \in Ways[e] : e # b \/ u # w => users'[e][u] = users[e][u]
      <3>1. PerLine(users)
        BY <1>0 DEF UsersOwn
      <3>2. CASE FtmHit(c, b, w)
        <4>1. PICK U : U = users[b][w] \cup {parent[c]}
          OBVIOUS
        <4>2. users' = SetOwners(users, b, w, U)
          BY <3>2, <4>1 DEF FtmHit, AddOwner, SetOwners
        <4> QED
          BY <3>1, <4>1, <4>2, OneLineSet
      <3>3. CASE FtmMiss(c, b, w)
        <4>1. users' = SetOwners(users, b, w, {parent[c]})
          BY <3>3 DEF FtmMiss, SetOwners
        <4> QED
          BY <3>1, <4>1, OneLineSet
      <3> QED
        BY <1>2, <3>2, <3>3
    <2>7. UsersOwn'
      BY <1>0, <2>2, <2>5, <2>6 DEF UsersOwn
    <2> QED
      BY <2>1, <2>7 DEF FtmInv
  <1>3. ASSUME NEW b \in Banks, NEW w \in Ways[b], NEW v \in Ways[b], FtmRefresh(b, w, v)
        PROVE  FtmInv' /\ L1Step(cache, cache')
    <2>1. Refresh(b, w, v) /\ w # v
      BY <1>3 DEF FtmRefresh, Refresh
    <2>2. IInv' /\ L1Step(cache, cache')
      BY <1>0, <2>1, RefreshStep
    <2>3. /\ PerLine(owners') /\ owners'[b][v] = owners[b][w] /\ owners'[b][w] = {}
          /\ \A e \in Banks : \A u \in Ways[e] : e # b \/ u \notin {v, w} => owners'[e][u] = owners[e][u]
      <3>1. owners' = MoveOwners(owners, b, w, v)
        BY <1>3 DEF FtmRefresh
      <3> QED
        BY <1>0, <2>1, <3>1, OwnersMove DEF UsersOwn
    <2>4. /\ PerLine(users') /\ users'[b][v] = users[b][w] /\ users'[b][w] = {}
          /\ \A e \in Banks : \A u \in Ways[e] : e # b \/ u \notin {v, w} => users'[e][u] = users[e][u]
      <3>1. users' = MoveOwners(users, b, w, v)
        BY <1>3 DEF FtmRefresh, MoveOwners
      <3> QED
        BY <1>0, <2>1, <3>1, OwnersMove DEF UsersOwn
    <2>5. UsersOwn'
      <3> SUFFICES ASSUME NEW e \in Banks, NEW u \in Ways[e] PROVE users'[e][u] \subseteq owners'[e][u]
        BY <2>3, <2>4 DEF UsersOwn
      <3>1. \A x \in Banks : \A y \in Ways[x] : users[x][y] \subseteq owners[x][y]
        BY <1>0 DEF UsersOwn
      <3>2. CASE e = b /\ u \in {v, w}
        BY <2>3, <2>4, <3>1, <3>2
      <3>3. CASE e # b \/ u \notin {v, w}
        BY <2>3, <2>4, <3>1, <3>3
      <3> QED
        BY <3>2, <3>3
    <2> QED
      BY <2>2, <2>5 DEF FtmInv
  <1> QED
    BY <1>1, <1>2, <1>3 DEF FtmNext

\* Every step, refreshes included, keeps the invariant.
LEMMA FtmInductive ==
    ASSUME FtmInv, [FtmNext]_ftmVars
    PROVE  FtmInv'
  <1>1. CASE FtmNext
    BY <1>1, FtmStep
  <1>2. CASE UNCHANGED ftmVars
    BY <1>2 DEF ftmVars, vars, FtmInv, IInv, ThreadsOK, OneAtLLC, UsersOwn
  <1> QED
    BY <1>1, <1>2

\* The invariant holds initially.
LEMMA FtmInitSound == FtmInit => FtmInv
  BY InitSound DEF FtmInit, FtmInv, UsersOwn, PerLine

\* No L2 that has accessed a line is charged a first-time miss on it again, and
\* the hierarchy stays sound, although refreshes move lines of the LLC while
\* accesses of others are pending.
THEOREM AccountingIsSound == FtmSpec => []AccountingSound
  <1>1. FtmInv => AccountingSound
    <2> SUFFICES ASSUME FtmInv PROVE NoSpuriousMiss
      BY DirectoryFollows, InclusionFollows DEF FtmInv, IInv, AccountingSound
    <2> SUFFICES ASSUME NEW r \in Hitting, IsFirstTimeMiss(r[1], r[2][1], r[2][2])
                 PROVE  parent[r[1]] \notin users[r[2][1]][r[2][2]]
      BY DEF NoSpuriousMiss
    <2>1. r[2] \in InBanks(cache, op[r[1]].addr)
      BY DEF Hitting
    <2>2. r[2][1] \in Banks /\ r[2][2] \in Ways[r[2][1]]
      BY <2>1, BankLine
    <2> QED
      BY <2>2 DEF IsFirstTimeMiss, checkSameOwner, FtmInv, UsersOwn
  <1> QED
    BY <1>1, FtmInitSound, FtmInductive, PTL DEF FtmSpec

\* With refreshes, too, the hierarchy implements the abstract shared memory.
THEOREM RefreshedImplements == FtmSpec => AbstractSpec
  <1>1. FtmInit => FtmInv /\ Abstract!Init
    <2>1. Init => Abstract!Init
      <3> SUFFICES ASSUME Init PROVE Abstract!Init
        OBVIOUS
      <3>1. \A c \in L1s, a \in Addrs : StateOf(c, a) = "I"
        BY DEF Init, StateOf, NoLine, Caches
      <3> QED
        BY <3>1 DEF Abstract!Init, permission
    <2> QED
      BY <2>1, FtmInitSound DEF FtmInit
  <1>2. FtmInv /\ [FtmNext]_ftmVars => FtmInv'
    BY FtmInductive
  <1>3. FtmInv /\ [FtmNext]_ftmVars => [Abstract!Next]_permission
    <2>1. UNCHANGED ftmVars => UNCHANGED permission
      BY DEF ftmVars, vars, permission, StateOf
    <2>2. FtmInv /\ FtmNext => Abstract!Next
      BY FtmStep, StepRefines DEF FtmInv, IInv
    <2> QED
      BY <2>1, <2>2
  <1> QED
    BY <1>1, <1>2, <1>3, PTL DEF FtmSpec, AbstractSpec, Abstract!Spec
=============================================================================
