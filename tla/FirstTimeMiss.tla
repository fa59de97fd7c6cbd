---------------------------- MODULE FirstTimeMiss ----------------------------
(***************************************************************************)
(* The first-time-miss (FTM) accounting of the last-level cache            *)
(* (src/src/cache.cpp, coherence_ctrls.h/.cpp): a hit by an L2 that is not *)
(* yet an owner of the line is counted, and delayed, like a miss.  The     *)
(* owner bits are part of the directory entries of the LLC; everything     *)
(* else is as in Coherence.                                                *)
(***************************************************************************)
EXTENDS Coherence

VARIABLES
    owners,     \* owners[b][w]: the owner bits of line w of bank b
    counted,    \* the last access to the LLC: was it a first-time miss?
    users       \* history: the L2s that have accessed the line since it came

ftmVars == <<vars, owners, counted, users>>

FtmInit ==
    /\ Init
    /\ owners = [b \in Banks |-> [w \in Ways[b] |-> {}]]
    /\ users = [b \in Banks |-> [w \in Ways[b] |-> {}]]
    /\ counted = FALSE

\* With one core per L2 the srcId that is looked up is the childId that was set.
checkSameOwner(c, b, w) == parent[c] \in owners[b][w]

IsFirstTimeMiss(c, b, w) == op[c].type \in FtmTypes /\ ~checkSameOwner(c, b, w)

AddOwner(o, c, b, w) == [o EXCEPT ![b][w] = @ \cup {parent[c]}]

\* accessSkew(), when the line is there: the owners are looked up first.
FtmHit(c, b, w) ==
    /\ GetHitsLLC(c, b, w)
    /\ counted' = IsFirstTimeMiss(c, b, w)
    /\ owners' = AddOwner(owners, c, b, w)
    /\ users' = AddOwner(users, c, b, w)

\* accessSkew(), when it is not: no accounting, and the owners of the line that
\* was replaced remain.
FtmMiss(c, b, w) ==
    /\ GetMissesLLC(c, b, w)
    /\ counted' = FALSE
    /\ owners' = AddOwner(owners, c, b, w)
    /\ users' = [users EXCEPT ![b][w] = {parent[c]}]

BugMoveOwners(o, b, w, v) == o                          \* they stay where they are

\* moveAddr() of the directory.
MoveOwners(o, b, w, v) == [o EXCEPT ![b][v] = o[b][w], ![b][w] = {}]

FtmRefresh(b, w, v) ==
    /\ Refresh(b, w, v)
    /\ owners' = MoveOwners(owners, b, w, v)
    /\ users' = [users EXCEPT ![b][v] = users[b][w], ![b][w] = {}]
    /\ UNCHANGED counted

FtmNext ==
    \/ \E c \in L1s : Below(c) /\ UNCHANGED <<owners, counted, users>>
    \/ \E c \in L1s, b \in Banks : \E w \in Ways[b] : FtmHit(c, b, w) \/ FtmMiss(c, b, w)
    \/ \E b \in Banks : \E w, v \in Ways[b] : FtmRefresh(b, w, v)

FtmSpec == FtmInit /\ [][FtmNext]_ftmVars

-----------------------------------------------------------------------------
\* The requests that are about to hit in the LLC, with the line they hit.
Hitting == {r \in L1s \X UNION {{b} \X Ways[b] : b \in Banks} :
                pc[r[1]] = "get2" /\ r[2] \in InBanks(cache, op[r[1]].addr)}

\* No access is counted as a first-time miss, and slowed down, if its L2 has
\* accessed the line before: neither evictions in the L2s nor refreshes of the
\* LLC lose the owner bits.
NoSpuriousMiss ==
    \A r \in Hitting : IsFirstTimeMiss(r[1], r[2][1], r[2][2])
                          => parent[r[1]] \notin users[r[2][1]][r[2][2]]

\* Nor do they break the hierarchy: refreshes move lines at any time, with the
\* accesses of others between their sections.
AccountingSound == NoSpuriousMiss /\ DirectoryExact /\ InclusionHolds

\* "Number of first time misses on shared data": the first access of an L2 to a
\* line that others have brought to the LLC is counted as one.
EveryFirstTimeCounts ==
    \A r \in Hitting : /\ op[r[1]].type \in FtmTypes
                       /\ parent[r[1]] \notin users[r[2][1]][r[2][2]]
                       => IsFirstTimeMiss(r[1], r[2][1], r[2][2])
=============================================================================
