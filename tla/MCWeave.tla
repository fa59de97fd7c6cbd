------------------------------ MODULE MCWeave ------------------------------
(***************************************************************************)
(* Small instances of Weave for TLC: the core is in domain 0, the timing   *)
(* cache in domain 1 or 0, and there are memory controllers in both.       *)
(***************************************************************************)
EXTENDS Weave

AllInZero == [r \in Cores |-> 0]

AllCores(k) == [r \in Cores |-> k]

\* A thread for each domain, or one for all of them.
Apart == {{d} : d \in Domains}
Together == {Domains}

Acc(what, wb, lat, mem, wbMem) == [what |-> what, wb |-> wb, lat |-> lat, mem |-> mem, wbMem |-> wbMem]

\* A cache of two ways; lines come from memory in the domain of the core.  Dirty ones
\* are written back to it, or to memory in the domain of the cache.
Crossings(k, wbMem) ==
    [kind |-> AllCores(k), threads |-> Apart, cands |-> 2,
     accesses |-> {Acc("none", TRUE, 0, 0, 0), Acc("clean", FALSE, 3, 0, 0), Acc("dirty", FALSE, 0, 0, wbMem)}]

\* A cache that looks for a third candidate, with memory in its own domain.
Candidates == [kind |-> AllCores("Timing"), threads |-> Apart, cands |-> 3,
               accesses |-> {Acc("none", TRUE, 0, 0, 0), Acc("clean", FALSE, 3, 1, 1), Acc("dirty", FALSE, 0, 1, 1)}]

Mixed == {Crossings("OOO", 0), Candidates, [Crossings("Timing", 1) EXCEPT !.threads = Together]}

\* A dirty line is evicted, and memory is in another domain than core and cache.
BothCross == {[Crossings("OOO", 1) EXCEPT !.accesses = {Acc("dirty", FALSE, 0, 1, 1)}]}
=============================================================================
