------------------------------ MODULE FutexMatch ------------------------------
(***************************************************************************)
(* Matching of futex wakes with the joins of the threads they wake         *)
(* (src/src/scheduler.cpp, virt/timeout.cpp).  A thread that made a futex  *)
(* wake is kept out of the simulation, at its join(), until as many woken  *)
(* threads have come back as it woke up, so that they do not lose phases.  *)
(* The two counters are shared by all futexes and protected by schedLock;  *)
(* each critical section is one action.                                    *)
(***************************************************************************)
EXTENDS Integers, FiniteSets, FiniteSetsExt, Functions

CONSTANTS Threads,
          Width,        \* the integers are uint32_t: 2^32
          MaxWakes,     \* the cap on the wakes of one call: 2^24
          Vals,         \* the third arguments programs pass to futex wakes; as ints
                        \* (PostPatchFutex() would turn a negative one into a large count)
          MaxLeaked     \* bound: the allowance lost to failed wakes

ASSUME FutexAssumption ==
    /\ IsFiniteSet(Threads)
    /\ Width \in Nat /\ MaxWakes \in 1..(Width - 1)
    /\ Vals \subseteq 1..(Width \div 2 - 1)
    /\ MaxLeaked \in Nat

\* No wake can wake up more threads than the cap allows for (2048 threads in
\* all, MAX_THREADS), and the counters do not wrap: with the cap at 2^24, that
\* is so as long as fewer than 256 threads are in capped wakes at a time.
ASSUME FutexRoom ==
    /\ Cardinality(Threads) <= MaxWakes + 1
    /\ Cardinality(Threads) * MaxWakes + MaxLeaked < Width

VARIABLES
    maxAllowedFutexWakeups,
    unmatchedFutexWakeups,
    maxWakes,       \* th->futexJoin.maxWakes; 0 when it is stale
    wokenUp,        \* th->futexJoin.wokenUp; before the wake ends, the third argument
    pc,             \* see Pcs
    leaked,         \* history: the allowance of the wakes that failed
    disturbed       \* history: a wake has timed out or come from outside

vars == <<maxAllowedFutexWakeups, unmatchedFutexWakeups, maxWakes, wokenUp, pc, leaked, disturbed>>

\* "app" simulated;  a waker is then in "wake" (the syscall), "woke" (before
\* notifyFutexWakeEnd), "wakeJoin" (before join()), "matching" (in the inner
\* loop of futexWakeJoin) and "rechecking" (after it), a waiter in "wait",
\* "woken" and "waitJoin".
Pcs == {"app", "wake", "woke", "wakeJoin", "matching", "rechecking", "wait", "woken", "waitJoin"}

Init ==
    /\ maxAllowedFutexWakeups = 0
    /\ unmatchedFutexWakeups = 0
    /\ maxWakes = [t \in Threads |-> 0]
    /\ wokenUp = [t \in Threads |-> 0]
    /\ pc = [t \in Threads |-> "app"]
    /\ leaked = 0
    /\ disturbed = FALSE

Go(t, here, there) == pc[t] = here /\ pc' = [pc EXCEPT ![t] = there]

Forget(t) ==
    /\ maxWakes' = [maxWakes EXCEPT ![t] = 0]
    /\ wokenUp' = [wokenUp EXCEPT ![t] = 0]

Sub(a, b) == (a - b) % Width                        \* uint32_t subtraction

-----------------------------------------------------------------------------
notifyFutexWakeStart(t, val) ==
    LET n == Min({val, MaxWakes})
    IN  /\ Go(t, "app", "wake")
        /\ maxAllowedFutexWakeups' = (maxAllowedFutexWakeups + n) % Width
        /\ maxWakes' = [maxWakes EXCEPT ![t] = n]
        /\ wokenUp' = [wokenUp EXCEPT ![t] = val]
        /\ UNCHANGED <<unmatchedFutexWakeups, leaked, disturbed>>

\* The kernel wakes up some of the waiting threads, at most the number asked
\* for; PostPatchFutex() takes the minimum of the two numbers.
KernelWakes(t) ==
    /\ pc[t] = "wake"
    /\ \E S \in SUBSET {u \in Threads : pc[u] = "wait"} :
        /\ Cardinality(S) <= wokenUp[t]
        /\ pc' = [u \in Threads |-> IF u = t THEN "woke" ELSE IF u \in S THEN "woken" ELSE pc[u]]
        /\ wokenUp' = [wokenUp EXCEPT ![t] = Min({Cardinality(S), @})]
    /\ UNCHANGED <<maxAllowedFutexWakeups, unmatchedFutexWakeups, maxWakes, leaked, disturbed>>

\* The syscall fails (-EAGAIN of FUTEX_CMP_REQUEUE): PostPatchFutex() calls
\* nobody, and the allowance is never given back.
KernelFails(t) ==
    /\ Go(t, "wake", "app")
    /\ leaked' = leaked + maxWakes[t]
    /\ leaked' <= MaxLeaked
    /\ Forget(t)
    /\ UNCHANGED <<maxAllowedFutexWakeups, unmatchedFutexWakeups, disturbed>>

notifyFutexWakeEnd(t) ==
    /\ Go(t, "woke", "wakeJoin")
    /\ UNCHANGED <<maxAllowedFutexWakeups, unmatchedFutexWakeups, maxWakes, wokenUp, leaked, disturbed>>

\* What futexWakeJoin() makes of the allowance.
Adjusted(t) == Sub(maxAllowedFutexWakeups, Sub(maxWakes[t], wokenUp[t]))

BugWakeJoinStarts(t) ==                             \* the allowance kept until the match
    /\ Go(t, "wakeJoin", "matching")
    /\ UNCHANGED <<maxAllowedFutexWakeups, unmatchedFutexWakeups, maxWakes, wokenUp, leaked, disturbed>>

\* futexWakeJoin(), up to the first futex_unlock: give back the allowance for
\* the wakes that woke nobody up.
WakeJoinStarts(t) ==
    /\ Go(t, "wakeJoin", "matching")
    /\ maxAllowedFutexWakeups' = Adjusted(t)
    /\ UNCHANGED <<unmatchedFutexWakeups, maxWakes, wokenUp, leaked, disturbed>>

\* The inner loop's exit: the counter, read without the lock, suffices.
MatchSeen(t) ==
    /\ Go(t, "matching", "rechecking")
    /\ wokenUp[t] <= unmatchedFutexWakeups
    /\ UNCHANGED <<maxAllowedFutexWakeups, unmatchedFutexWakeups, maxWakes, wokenUp, leaked, disturbed>>

\* With the lock, it still does.
WakeMatched(t) ==
    /\ Go(t, "rechecking", "app")
    /\ wokenUp[t] <= unmatchedFutexWakeups
    /\ unmatchedFutexWakeups' = Sub(unmatchedFutexWakeups, wokenUp[t])
    /\ maxAllowedFutexWakeups' = Sub(maxAllowedFutexWakeups, wokenUp[t])
    /\ Forget(t)
    /\ UNCHANGED <<leaked, disturbed>>

\* Another waker was faster: the loop, and its two seconds, start again.
MatchLost(t) ==
    /\ Go(t, "rechecking", "matching")
    /\ wokenUp[t] > unmatchedFutexWakeups
    /\ UNCHANGED <<maxAllowedFutexWakeups, unmatchedFutexWakeups, maxWakes, wokenUp, leaked, disturbed>>

BugWakeTimesOut(t) == FALSE /\ UNCHANGED vars

\* The inner loop has run for two seconds.  The timeout takes the lock after
\* it has read the counter, so that the threads waited for may just have come.
WakeTimesOut(t) ==
    /\ Go(t, "matching", "app")
    /\ wokenUp[t] > 0
    /\ unmatchedFutexWakeups' = 0
    /\ maxAllowedFutexWakeups' = Sub(maxAllowedFutexWakeups, wokenUp[t])
    /\ Forget(t)
    /\ disturbed' = TRUE
    /\ UNCHANGED leaked

-----------------------------------------------------------------------------
FutexWait(t) ==
    /\ Go(t, "app", "wait")
    /\ UNCHANGED <<maxAllowedFutexWakeups, unmatchedFutexWakeups, maxWakes, wokenUp, leaked, disturbed>>

\* A process that is not simulated (fast-forwarding, external) wakes t up.
ExternalWakes(t) ==
    /\ Go(t, "wait", "woken")
    /\ disturbed' = TRUE
    /\ UNCHANGED <<maxAllowedFutexWakeups, unmatchedFutexWakeups, maxWakes, wokenUp, leaked>>

notifyFutexWaitWoken(t) ==
    /\ Go(t, "woken", "waitJoin")
    /\ UNCHANGED <<maxAllowedFutexWakeups, unmatchedFutexWakeups, maxWakes, wokenUp, leaked, disturbed>>

futexWaitJoin(t) ==
    /\ Go(t, "waitJoin", "app")
    /\ unmatchedFutexWakeups' = IF unmatchedFutexWakeups >= maxAllowedFutexWakeups
                                THEN unmatchedFutexWakeups
                                ELSE unmatchedFutexWakeups + 1
    /\ UNCHANGED <<maxAllowedFutexWakeups, maxWakes, wokenUp, leaked, disturbed>>

\* futexWakeJoin() and what leads to it.
WakeStep(t) ==
    \/ KernelWakes(t) \/ notifyFutexWakeEnd(t) \/ WakeJoinStarts(t)
    \/ MatchSeen(t) \/ WakeMatched(t) \/ MatchLost(t) \/ WakeTimesOut(t)

Step(t) ==
    \/ \E val \in Vals : notifyFutexWakeStart(t, val)
    \/ WakeStep(t) \/ KernelFails(t)
    \/ FutexWait(t) \/ ExternalWakes(t) \/ notifyFutexWaitWoken(t) \/ futexWaitJoin(t)

Next == \E t \in Threads : Step(t)

FutexSpec == Init /\ [][Next]_vars

\* A waker proceeds: the kernel's wake is not blocking, and the inner loop of
\* futexWakeJoin() ends one way or the other within two seconds.  Nothing is
\* assumed of the threads that wait or are woken up.
Fairness == \A t \in Threads : WF_vars(WakeStep(t))

-----------------------------------------------------------------------------
\* What a waker has added to the allowance and not yet taken back.
Allowance(t) == CASE pc[t] \in {"wake", "woke", "wakeJoin"} -> maxWakes[t]
                  [] pc[t] \in {"matching", "rechecking"} -> wokenUp[t]
                  [] OTHER -> 0

\* The allowance is exactly what the wakers in flight account for, and what
\* failed wakes have leaked: it never underflows, whatever the order of the joins.
AllowanceExact ==
    maxAllowedFutexWakeups = SumFunction([t \in Threads |-> Allowance(t)]) + leaked

\* What a waker waits for, and the woken threads that have not joined.
Pending(t) == IF pc[t] \in {"woke", "wakeJoin", "matching", "rechecking"} THEN wokenUp[t] ELSE 0
Joining == {t \in Threads : pc[t] \in {"woken", "waitJoin"}}

\* Nobody's wake is lost or counted twice: the joins not yet matched and the
\* woken threads still to join are together what the wakers still wait for
\* (hence a waker never waits for a thread that has been matched already).
WakesConserved ==
    unmatchedFutexWakeups + Cardinality(Joining) = SumFunction([t \in Threads |-> Pending(t)])

\* futexWakeJoin()'s "assert(unmatchedFutexWakeups <= maxAllowedFutexWakeups)",
\* of the adjusted allowance, in every state where a waker may call it.
UnmatchedAssert == \A t \in Threads : pc[t] = "wakeJoin" => unmatchedFutexWakeups <= Adjusted(t)

\* The allowance is always exact; wakes are conserved and the assertion holds
\* until a waker gives up or a thread is woken up from outside.
WakesMatched == AllowanceExact /\ (~disturbed => WakesConserved /\ UnmatchedAssert)

\* A waker other than t ends its futexWakeJoin().
OtherReturns(t) == \E u \in Threads \ {t} : pc[u] \in {"matching", "rechecking"} /\ pc'[u] = "app"

\* A waker comes back to the application, even if the threads it woke up never
\* join or their joins are counted for another waker; only other wakers that
\* keep coming back can hold it, as each may take the joins it has just seen
\* and so restart its two seconds.  Hence futexWakeJoin() never stops all.
WakerReturns ==
    \A t \in Threads : (pc[t] = "wake" ~> pc[t] = "app") \/ []<><<OtherReturns(t)>>_vars

=============================================================================
