---------------------------- MODULE MCFastForward ----------------------------
(***************************************************************************)
(* Small instances of FastForward for TLC: process 0 and one that is       *)
(* launched or forked.                                                     *)
(***************************************************************************)
EXTENDS FastForward

CONSTANTS p0, p1

\* Two processes in which nothing happens.
Plain ==
    [launched |-> {p0, p1}, startFF |-> {}, ffi |-> {}, mode |-> "Never",
     restarts |-> [p \in Procs |-> 0], terminates |-> FALSE,
     hooks |-> {}, mortal |-> {}, forkers |-> {}, toggled |-> {}]

\* Process 0 forks the other one, which is toggled, and exits.
Toggles == [Plain EXCEPT !.launched = {p0}, !.hooks = {p0}, !.mortal = {p0},
                         !.forkers = {p0}, !.toggled = {p1}]

\* Synced fast-forward: process 0 has FFI points, the other one hooks and a restart.
Synced == [Plain EXCEPT !.mode = "Always", !.startFF = {p0, p1}, !.ffi = {p0}, !.hooks = {p1},
                        !.restarts = [p \in Procs |-> IF p = p1 THEN 1 ELSE 0],
                        !.mortal = {p0, p1}]

\* A termination condition, with a process that is toggled and one that uses hooks.
Ending == [Plain EXCEPT !.startFF = {p0}, !.hooks = {p0}, !.toggled = {p1}, !.terminates = TRUE]

\* fftoggle is called for both processes.
BothToggled == {[Plain EXCEPT !.toggled = {p0, p1}]}

All == {Toggles, Synced, Ending}

=============================================================================
