------------------------------- MODULE Barrier -------------------------------
(***************************************************************************)
(* The phase barrier of the simulator (src/src/barrier.h).                 *)
(*                                                                         *)
(* A participant (a "tid" of the barrier, which the scheduler uses for a   *)
(* hardware context) runs until it calls sync() at the end of its phase or *)
(* leave() for a syscall; at most parallelThreads participants run at a    *)
(* time.  The barrier is always entered with schedLock held, so each       *)
(* operation up to its futex_unlock is one atomic action; the futex wait   *)
(* that follows it is the participant being in state WAITING.              *)
(*                                                                         *)
(* Run-list indices are those of the C array, from 0.                      *)
(***************************************************************************)
EXTENDS BarrierParams, Functions

VARIABLES
    state,           \* threadList[tid].state
    futexWord,       \* threadList[tid].futexWord
    lastIdx,         \* threadList[tid].lastIdx
    runList,         \* runList[0 .. runListSize-1]; what is beyond is garbage
    runListSize,
    curThreadIdx,    \* the first index the next wakeup looks at
    runningThreads,
    leftThreads,
    phaseCount,      \* modulo CleanupPeriod, which divides 2^32
    synced           \* history: who has called sync() in the current phase

listVars == <<runList, runListSize, curThreadIdx>>
vars == <<state, futexWord, lastIdx, listVars, runningThreads, leftThreads,
          phaseCount, synced>>

States == {"OFFLINE", "WAITING", "RUNNING", "LEFT"}

Init ==
    /\ state = [t \in Tids |-> "OFFLINE"]
    /\ futexWord = [t \in Tids |-> 0]
    /\ lastIdx \in [Tids -> Uninit]
    /\ runListSize = 0
    /\ runList \in [0..(runListSize - 1) -> Tids]
    /\ curThreadIdx = 0
    /\ runningThreads = 0
    /\ leftThreads = 0
    /\ phaseCount = 0
    /\ synced = {}

-----------------------------------------------------------------------------
(***************************************************************************)
(* The private helpers.  Their arguments are the values the caller has     *)
(* already assigned: st, fw and last for the per-thread fields, list and   *)
(* size for the run list, cur and run for curThreadIdx and runningThreads. *)
(***************************************************************************)

\* The WAITING participants at the indices from .. to-1 of the run list.
WaitingIn(st, list, from, to) ==
    {list[i] : i \in {j \in from..(to - 1) : st[list[j]] = "WAITING"}}

\* checkRunList's loop, begun at cur with run running, ends with curThreadIdx = k.
LoopEndsAt(st, list, size, cur, run, k) ==
    LET running(j) == run + Cardinality(WaitingIn(st, list, cur, j))
    IN  /\ \A j \in cur..(k - 1) : running(j) < parallelThreads
        /\ k = size \/ running(k) >= parallelThreads

checkRunList(st, fw, last, list, size, cur, run) ==
    \E k \in cur..size :
        LET woken == WaitingIn(st, list, cur, k)
        IN  /\ LoopEndsAt(st, list, size, cur, run, k)
            /\ state' = [t \in Tids |-> IF t \in woken THEN "RUNNING" ELSE st[t]]
            /\ futexWord' = [t \in Tids |-> IF t \in woken /\ fw[t] = 1 THEN 0 ELSE fw[t]]
            /\ lastIdx' = [t \in Tids |->
                             IF t \in woken
                             THEN CHOOSE i \in cur..(k - 1) : list[i] = t
                             ELSE last[t]]
            /\ runList' = list
            /\ runListSize' = size
            /\ curThreadIdx' = k
            /\ runningThreads' = run + Cardinality(woken)

\* Who stays on the run list at the end of a phase: the pass made once per
\* CleanupPeriod phases drops the participants that have left.
Kept(st, list) == {t \in Range(list) : ~(phaseCount = 0 /\ st[t] = "LEFT")}

Offlined(st, gone) == [t \in Tids |-> IF t \in gone THEN "OFFLINE" ELSE st[t]]

BugRewound(n) == IF n > parallelThreads THEN 1 ELSE 0   \* the first one is passed over
Rewound(n) == 0

NextPhase(n) == (n + 1) % CleanupPeriod

\* The end of a phase: rewind, drop the LEFT participants if it is time to
\* (survivors from the tail fill the holes), shuffle if not everybody can run
\* at once, then wake up the first participants.  What the cleanup loop writes
\* in the lastIdx of a participant it drops is some index of the list.
endPhase(st, fw, last, list, size, left) ==
    LET kept     == Kept(st, list)
        gone     == Range(list) \ kept
        n        == Cardinality(kept)
        shuffled == parallelThreads < n
    IN  \E new \in Bijection(0..(n - 1), kept), junk \in [gone -> 0..(size - 1)] :
          /\ \/ shuffled
             \/ \A i \in 0..(n - 1) : list[i] \in kept => new[i] = list[i]
          /\ LET last2 == [t \in Tids |->
                             IF t \in kept
                             THEN LET i == CHOOSE i \in 0..(n - 1) : new[i] = t
                                  IN  IF new[i] # list[i] \/ (shuffled /\ i > 0) THEN i ELSE last[t]
                             ELSE IF t \in gone THEN junk[t] ELSE last[t]]
             IN  checkRunList(Offlined(st, gone), fw, last2, new, n, Rewound(n), 0)
          /\ leftThreads' = IF phaseCount = 0 THEN 0 ELSE left
          /\ phaseCount' = NextPhase(phaseCount)
          /\ synced' = {}

\* checkRunList, checkEndPhase, checkRunList.  The phase ends when the first
\* pass reaches the end of the list, nobody runs and not everybody has left.
tryWakeNext(st, fw, last, list, size, cur, run, left, syn) ==
    \/ /\ checkRunList(st, fw, last, list, size, cur, run)
       /\ ~(curThreadIdx' = size /\ runningThreads' = 0 /\ left # size)
       /\ leftThreads' = left
       /\ synced' = syn
       /\ UNCHANGED phaseCount
    \/ /\ run = 0
       /\ WaitingIn(st, list, cur, size) = {}
       /\ left # size
       /\ endPhase(st, fw, last, list, size, left)

-----------------------------------------------------------------------------
(***************************************************************************)
(* The operations.                                                         *)
(***************************************************************************)

\* join() by a participant that was dropped from the run list, or never was on it.
JoinOffline(t) ==
    /\ state[t] = "OFFLINE"
    /\ tryWakeNext([state EXCEPT ![t] = "WAITING"],
                   [futexWord EXCEPT ![t] = 1],
                   lastIdx,
                   [i \in 0..runListSize |-> IF i = runListSize THEN t ELSE runList[i]],
                   runListSize + 1, curThreadIdx, runningThreads, leftThreads, synced)

\* Has the current phase already passed the place where t last ran?
BugPassed(t) == FALSE
Passed(t) == curThreadIdx > lastIdx[t]

Exchanged(t, cur) == [[runList EXCEPT ![lastIdx[t]] = runList[cur]] EXCEPT ![cur] = t]

BugExchangedIdx(t, cur) == [lastIdx EXCEPT ![t] = cur]
ExchangedIdx(t, cur) ==
    [[lastIdx EXCEPT ![runList[cur]] = lastIdx[t]] EXCEPT ![t] = cur]

\* join() by a participant still on the list.  If the current phase has
\* already passed it, it swaps places with the last one passed, to run next.
\* (The exchange trusts lastIdx; see LastIdxAssert.)
JoinLeft(t) ==
    LET cur == IF Passed(t) THEN curThreadIdx - 1 ELSE curThreadIdx
    IN  /\ state[t] = "LEFT"
        /\ tryWakeNext([state EXCEPT ![t] = "WAITING"],
                       [futexWord EXCEPT ![t] = 1],
                       IF Passed(t) THEN ExchangedIdx(t, cur) ELSE lastIdx,
                       IF Passed(t) THEN Exchanged(t, cur) ELSE runList,
                       runListSize, cur, runningThreads, leftThreads - 1, synced)

Join(t) == JoinOffline(t) \/ JoinLeft(t)

\* leave() by a running participant, which may end the phase.
Leave(t) ==
    /\ state[t] = "RUNNING"
    /\ tryWakeNext([state EXCEPT ![t] = "LEFT"], futexWord, lastIdx,
                   runList, runListSize, curThreadIdx,
                   runningThreads - 1, leftThreads + 1, synced)

Sync(t) ==
    /\ state[t] = "RUNNING"
    /\ tryWakeNext([state EXCEPT ![t] = "WAITING"],
                   [futexWord EXCEPT ![t] = 1], lastIdx,
                   runList, runListSize, curThreadIdx,
                   runningThreads - 1, leftThreads, synced \cup {t})

Next == \E t \in Tids : Join(t) \/ Leave(t) \/ Sync(t)

Spec == Init /\ [][Next]_vars

\* A participant that runs comes to the end of its phase, in sync(), or leaves;
\* and it does not leave and rejoin for ever within a phase, because the
\* instructions between two syscalls advance its cycle count to the phase's end.
Fairness == \A t \in Tids : WF_vars(Leave(t) \/ Sync(t)) /\ SF_vars(Sync(t))

FairSpec == Spec /\ Fairness

-----------------------------------------------------------------------------
(***************************************************************************)
(* Properties.                                                             *)
(***************************************************************************)

\* Every field has its type; the run list holds participants.
TypeOK ==
    /\ state \in [Tids -> States]
    /\ futexWord \in [Tids -> {0, 1}]
    /\ lastIdx \in [Tids -> Nat]
    /\ runListSize \in Nat
    /\ runList \in [0..(runListSize - 1) -> Tids]
    /\ curThreadIdx \in 0..runListSize
    /\ runningThreads \in Nat
    /\ leftThreads \in Nat
    /\ phaseCount \in 0..(CleanupPeriod - 1)
    /\ synced \subseteq Tids

In(s) == {t \in Tids : state[t] = s}

\* The run list holds exactly the participants that are not OFFLINE, each
\* once, through joins, same-phase exchanges, cleanups and shuffles.
RunListExact ==
    runList \in Bijection(0..(runListSize - 1), Tids \ In("OFFLINE"))

\* The counters are the numbers of participants in the states they name
\* (the cleanup pass asserts this of leftThreads), and the parallelism
\* control holds: never more than parallelThreads run.
ParallelismControl ==
    /\ runningThreads = Cardinality(In("RUNNING"))
    /\ leftThreads = Cardinality(In("LEFT"))
    /\ runningThreads <= parallelThreads

\* join()'s assertion "tid == runList[lastIdx]", in every state where a
\* same-phase rejoin would read lastIdx.
LastIdxAssert ==
    \A t \in In("LEFT") :
        curThreadIdx > lastIdx[t] => runList[lastIdx[t]] = t

\* No lost wakeup: a participant is never left waiting while a slot is free,
\* and when nobody runs nobody waits (the last one to stop ended the phase
\* and woke the next ones, or everybody has left).
NoLostWakeup ==
    /\ runningThreads < parallelThreads => \A i \in curThreadIdx..(runListSize - 1) :
                                              state[runList[i]] # "WAITING"
    /\ runningThreads = 0 => In("WAITING") = {}

\* The futex word of a waiting participant is 1, so that the waker's
\* compare-and-swap succeeds ("Wakeup race in barrier?"), and that of a
\* running one is 0, so that it cannot sleep through its wakeup.
FutexWordAgrees ==
    \A t \in Tids : /\ state[t] = "WAITING" => futexWord[t] = 1
                    /\ state[t] = "RUNNING" => futexWord[t] = 0

\* Every operation leaves the barrier sound: the run list, the counters, the
\* places that join() relies on, the slots and the futex words, together.
BarrierSafe ==
    /\ TypeOK /\ RunListExact /\ ParallelismControl
    /\ LastIdxAssert /\ NoLostWakeup /\ FutexWordAgrees

\* "You can't cause a phase to end here": no join ends a phase.
JoinEndsNoPhase ==
    [][(\E t \in Tids : state[t] \in {"LEFT", "OFFLINE"} /\ state'[t] \in {"WAITING", "RUNNING"})
            => phaseCount' = phaseCount]_vars

\* A phase skips nobody: it ends only when every participant that waits has
\* called sync() in it (the caller that ends it is still RUNNING before the step).
PhaseSkipsNobody ==
    [][phaseCount' # phaseCount => In("WAITING") \subseteq synced]_vars

\* Nobody runs a phase twice: who has called sync() in a phase is not woken
\* again before the phase ends, whatever joins, leaves and exchanges happen.
RunsOncePerPhase ==
    [][phaseCount' = phaseCount => synced \cap {t \in Tids : state'[t] = "RUNNING"} = {}]_vars

\* In each phase everybody who takes part runs exactly once.
PhasesExact == PhaseSkipsNobody /\ RunsOncePerPhase

\* Every participant that waits eventually runs.
WaiterRuns == \A t \in Tids : state[t] = "WAITING" ~> state[t] = "RUNNING"

=============================================================================
