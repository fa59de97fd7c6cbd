----------------------------- MODULE SharedLines -----------------------------
(***************************************************************************)
(* What the MESI hierarchy promises to those who access lines through it:  *)
(* permissions on single lines are granted one at a time, a grant takes    *)
(* from the others whatever is incompatible with it, and permissions may   *)
(* otherwise only be lost.                                                 *)
(***************************************************************************)
EXTENDS Integers

CONSTANTS Readers, Lines

VARIABLE perm       \* perm[c][a]: the permission of c on line a

Perms == {"I", "S", "E", "M"}

Rank(p) == CASE p = "I" -> 0 [] p = "S" -> 1 [] p = "E" -> 2 [] p = "M" -> 3

Init == perm = [c \in Readers |-> [a \in Lines |-> "I"]]

\* What others may keep on a line on which p is granted.
MayKeep(p) == IF p = "S" THEN {"I", "S"} ELSE {"I"}

\* c is granted p on line a; all others, and c on other lines, may only lose.
Grant(c, a, p) ==
    /\ perm'[c][a] = p
    /\ \A d \in Readers, b \in Lines :
         <<d, b>> # <<c, a>> => Rank(perm'[d][b]) <= Rank(perm[d][b])
    /\ \A d \in Readers \ {c} : perm'[d][a] \in MayKeep(p)

Lose == \A d \in Readers, b \in Lines : Rank(perm'[d][b]) <= Rank(perm[d][b])

Next ==
    /\ perm' \in [Readers -> [Lines -> Perms]]
    /\ \/ Lose
       \/ \E c \in Readers, a \in Lines, p \in {"S", "E", "M"} : Grant(c, a, p)

Spec == Init /\ [][Next]_perm

\* What clients rely on: a right to write excludes every other right.
Exclusive ==
    \A c, d \in Readers : c # d =>
        \A a \in Lines : perm[c][a] \in {"E", "M"} => perm[d][a] = "I"
=============================================================================
