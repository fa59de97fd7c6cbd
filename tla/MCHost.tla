-------------------------------- MODULE MCHost --------------------------------
(***************************************************************************)
(* The host interface: each behaviour is about virtual time, about ports,  *)
(* about the maps, or about futexes.  The setups of virtual time:          *)
(* clocks and fast-forward; sleeps and timed waits, with fast-forward,     *)
(* with events and signals that end timed waits early, and with signals    *)
(* that interrupt sleeps.  A sleep interrupted in fast-forward, or whose   *)
(* program wants the time that remains, fails assertions: see the README.  *)
(***************************************************************************)
EXTENDS SyscallVirt, PortVirt, AddressMaps, FutexMatch

CONSTANTS p1, p2, p3, d1, d2

VARIABLE kind

hostVars == <<kind, timeVars, portVars, mapVars, vars>>

Call(k, ns) == [kind |-> k, ns |-> ns]

Quiet == [callers |-> Procs, args |-> {}, vdso |-> {}, rem |-> FALSE, signals |-> FALSE, events |-> FALSE,
          backToBack |-> FALSE, calls |-> 0, toggles |-> 0, phases |-> 0, lead |-> 0, cpu |-> 0]

McTimeSetups ==
    {Quiet,
     [Quiet EXCEPT !.args = {Call("monotonic", 0)}, !.vdso = {"monotonic"},
                   !.calls = 2, !.toggles = 2, !.phases = 1, !.lead = 1],
     [Quiet EXCEPT !.args = {Call("cputime", 0), Call("realtime", 0)}, !.calls = 2, !.toggles = 1, !.lead = 1, !.cpu = 1],
     [Quiet EXCEPT !.args = {Call("gettimeofday", 0)}, !.vdso = {"time"},
                   !.calls = 2, !.toggles = 1, !.phases = 1, !.lead = 2],
     [Quiet EXCEPT !.args = {Call("nanosleep", 3), Call("futex", 7), Call("futex", 0), Call("clock_nanosleep", 6)},
                   !.rem = TRUE, !.callers = {p1}, !.calls = 2, !.toggles = 1, !.phases = 6],
     [Quiet EXCEPT !.args = {Call("futex_realtime", 7), Call("poll", 3)}, !.signals = TRUE, !.events = TRUE,
                   !.callers = {p1}, !.calls = 2, !.toggles = 1, !.phases = 5],
     [Quiet EXCEPT !.args = {Call("nanosleep", 5), Call("clock_nanosleep", 3), Call("realtime", 0)}, !.signals = TRUE,
                   !.calls = 2, !.phases = 6]}

\* A thread that sleeps twice before it has joined.
McBackToBack ==
    {Quiet, [Quiet EXCEPT !.args = {Call("nanosleep", 1)}, !.signals = TRUE, !.backToBack = TRUE,
                          !.callers = {p1}, !.calls = 2, !.phases = 2]}

McDomain == [p \in Binders |-> IF p = p3 THEN d2 ELSE d1]

McMapCalls == [m \in Modes |-> IF m = "shared" THEN 3 ELSE 1]

HostInit ==
    /\ kind \in {"time", "ports", "maps", "futex"}
    /\ TimeInit /\ PortInit /\ MapInit /\ Init
    /\ (kind = "time") = (prog # Quiet)
    /\ kind # "maps" => mode = "shared"

HostNext ==
    \/ kind = "time"  /\ TimeNext /\ UNCHANGED <<kind, portVars, mapVars, vars>>
    \/ kind = "ports" /\ PortNext /\ UNCHANGED <<kind, timeVars, mapVars, vars>>
    \/ kind = "maps"  /\ MapNext  /\ UNCHANGED <<kind, timeVars, portVars, vars>>
    \/ kind = "futex" /\ Next     /\ UNCHANGED <<kind, timeVars, portVars, mapVars>>

\* The kernel answers, threads go on, and phases end.
HostFairness ==
    /\ WF_timeVars(kind = "time" /\ EndPhase)
    /\ \A p \in Procs : WF_timeVars(kind = "time" /\ TimeStep(p))
    /\ Fairness

HostSpec == HostInit /\ [][HostNext]_hostVars /\ HostFairness

==============================================================================
