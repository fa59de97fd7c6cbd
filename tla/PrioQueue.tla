------------------------------ MODULE PrioQueue ------------------------------
(***************************************************************************)
(* The priority queue of a simulation domain (src/src/prio_queue.h): a     *)
(* ring of B blocks of W cycles each, which starts at block curBlock, and  *)
(* a sorted map of the elements that are farther away.  Within a cycle the *)
(* elements of the ring are a stack.  The code has W = 64 (one bit of an   *)
(* occupancy word per cycle) and B = PQ_BLOCKS.                            *)
(***************************************************************************)
EXTENDS Integers, Sequences, SequencesExt, FiniteSets, FiniteSetsExt

CONSTANTS B, W

ASSUME QueueAssumption == B \in Nat /\ B > 0 /\ B % 2 = 0 /\ W \in Nat \ {0}

\* blocks[i][o]: the elements at offset o of block i, the top of the stack first.
EmptyQueue ==
    [blocks |-> [i \in 0 .. B - 1 |-> [o \in 0 .. W - 1 |-> <<>>]],
     feMap |-> <<>>, curBlock |-> 0]

Occupied(q, b) == {o \in 0 .. W - 1 : q.blocks[b % B][o] # <<>>}

Push(q, obj, cycle) ==
    [q EXCEPT !.blocks[(cycle \div W) % B][cycle % W] = <<obj>> \o @]

\* A multimap keeps the elements with equal keys in the order of insertion.
InsertFar(q, obj, cycle) ==
    LET n == Cardinality({i \in DOMAIN q.feMap : q.feMap[i].cycle <= cycle})
    IN  [q EXCEPT !.feMap = InsertAt(@, n + 1, [cycle |-> cycle, obj |-> obj])]

enqueue(q, obj, cycle) ==
    IF cycle \div W < q.curBlock + B THEN Push(q, obj, cycle) ELSE InsertFar(q, obj, cycle)

MoveNear(q) ==
    LET near == SelectSeq(q.feMap, LAMBDA f : f.cycle < (q.curBlock + B) * W)
    IN  FoldLeft(LAMBDA r, f : Push(r, f.obj, f.cycle),
                 [q EXCEPT !.feMap = SubSeq(@, Len(near) + 1, Len(@))], near)

\* One round of the loop at the start of dequeue().
Advance(q) ==
    LET r == [q EXCEPT !.curBlock = @ + 1]
    IN  IF r.curBlock % (B \div 2) = 0 THEN MoveNear(r) ELSE r

\* The queue when the loop has reached a block with elements.
AtFirst(q) ==
    LET loop[n \in Nat] == IF n = 0 THEN q
                           ELSE LET r == loop[n - 1]
                                IN  IF Occupied(r, r.curBlock) = {} THEN Advance(r) ELSE r
    IN  loop[IF q.feMap = <<>> THEN B ELSE B + (q.feMap[1].cycle \div W) - q.curBlock]

First(q) == Min(Occupied(q, q.curBlock))

dequeue(q) ==
    LET r == AtFirst(q)
        o == First(r)
    IN  [cycle |-> r.curBlock * W + o,
         obj |-> Head(r.blocks[r.curBlock % B][o]),
         queue |-> [r EXCEPT !.blocks[r.curBlock % B][o] = Tail(@)]]

BugFirstCycle(q) ==                                     \* the ring comes first
    LET hit == {i \in 0 .. B - 1 : Occupied(q, q.curBlock + i) # {}}
    IN  IF hit = {} THEN q.feMap[1].cycle
        ELSE (q.curBlock + Min(hit)) * W + Min(Occupied(q, q.curBlock + Min(hit)))

\* Beyond half of the ring a far element may come earlier.
firstCycle(q) ==
    LET hit == {i \in 0 .. B - 1 : Occupied(q, q.curBlock + i) # {}}
        near == (q.curBlock + Min(hit)) * W + Min(Occupied(q, q.curBlock + Min(hit)))
    IN  CASE hit = {} -> q.feMap[1].cycle
          [] hit # {} /\ (Min(hit) < B \div 2 \/ q.feMap = <<>>) -> near
          [] OTHER -> Min({near, q.feMap[1].cycle})

\* What the queue holds, as pairs of a cycle and an element.
Contents(q) ==
    LET ring == UNION {{<<i, o>> : o \in Occupied(q, i)} : i \in q.curBlock .. q.curBlock + B - 1}
    IN  UNION {{<<s[1] * W + s[2], x>> : x \in ToSet(q.blocks[s[1] % B][s[2]])} : s \in ring}
        \cup {<<f.cycle, f.obj>> : f \in ToSet(q.feMap)}

size(q) == Cardinality(Contents(q))

\* The queue's promise: firstCycle() is the cycle of its earliest element,
\* wherever that element is kept, and dequeue() returns an element of that cycle
\* and leaves the others; the ring and the map together never lose, reorder or
\* pass over an element, although elements move from the map only every half turn.
QueueExact(q) ==
    Contents(q) # {} =>
        LET first == Min({p[1] : p \in Contents(q)})
            d == dequeue(q)
        IN  /\ firstCycle(q) = first
            /\ d.cycle = first
            /\ Contents(d.queue) = Contents(q) \ {<<d.cycle, d.obj>>}
=============================================================================
