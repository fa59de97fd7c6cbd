------------------------------ MODULE PortVirt ------------------------------
(***************************************************************************)
(* Port virtualization (src/src/virt/ports.cpp, port_virtualizer.h).       *)
(* Programs that are simulated together may bind the same port: bind()     *)
(* asks the system for any free one and registers the translation, and     *)
(* connect() and getsockname() translate.  Each process has one thread;    *)
(* domain[p] is the port domain of process p.                              *)
(***************************************************************************)
EXTENDS Integers, FiniteSets

CONSTANTS Binders, Domains, domain,
          VirtPorts, RealPorts,     \* what programs ask for, and what the system assigns; a
                                    \* number may be both
          AnyPort,                  \* port 0; also: no translation (-1)
          MaxSockets                \* bound: bind() calls

Nobody == "nobody"                  \* the holder of a lock that is free

ASSUME PortsAssumption ==
    /\ domain \in [Binders -> Domains]
    /\ AnyPort \notin VirtPorts \cup RealPorts
    /\ MaxSockets \in Nat
    /\ Nobody \notin Binders

VARIABLES
    virtToReal, realToVirt,     \* of each domain
    pvLock,                     \* pvLock[d]: who holds it
    bind,                       \* bind[p]: the bind() that p is in: virtual and requested port, answer
    sockets,                    \* the open sockets that are bound
    binds                       \* how many bind() calls there have been

portVars == <<virtToReal, realToVirt, pvLock, bind, sockets, binds>>

NoBind == [pc |-> "idle", virt |-> AnyPort, real |-> AnyPort]

PortInit ==
    /\ virtToReal = [d \in Domains |-> [v \in VirtPorts |-> AnyPort]]
    /\ realToVirt = [d \in Domains |-> [r \in RealPorts |-> AnyPort]]
    /\ pvLock = [d \in Domains |-> Nobody]
    /\ bind = [p \in Binders |-> NoBind]
    /\ sockets = {}
    /\ binds = 0

BugLookupReal(d, v) == AnyPort                          \* a new port each time

lookupReal(d, v) == virtToReal[d][v]
lookupVirt(d, r) == realToVirt[d][r]

\* The lock that a bind() of p holds from its entry to its exit.
LockPort(p) == pvLock[domain[p]] = Nobody

\* PatchBind(): a port that has had a translation is given the same again.
EnterBind(p, v) ==
    /\ bind[p].pc = "idle" /\ binds < MaxSockets
    /\ binds' = binds + 1
    /\ \/ /\ v = AnyPort
          /\ bind' = [bind EXCEPT ![p] = [NoBind EXCEPT !.pc = "kernel"]]
          /\ UNCHANGED pvLock
       \/ /\ v # AnyPort /\ LockPort(p)
          /\ pvLock' = [pvLock EXCEPT ![domain[p]] = p]
          /\ bind' = [bind EXCEPT ![p] = [pc |-> "kernel", virt |-> v, real |-> lookupReal(domain[p], v)]]
    /\ UNCHANGED <<virtToReal, realToVirt, sockets>>

\* The kernel gives the port that is asked for, or any free one; AnyPort: it
\* is taken, and the bind() fails.
KernelBind(p) ==
    LET free == RealPorts \ {s.real : s \in sockets}
        can  == IF bind[p].real = AnyPort THEN free ELSE free \cap {bind[p].real}
    IN  /\ bind[p].pc = "kernel"
        /\ \/ \E r \in can : /\ bind' = [bind EXCEPT ![p].pc = "bound", ![p].real = r]
                             /\ sockets' = sockets \cup {[proc |-> p, virt |-> bind[p].virt, real |-> r]}
           \/ /\ can = {}
              /\ bind' = [bind EXCEPT ![p].pc = "refused"]
              /\ UNCHANGED sockets
        /\ UNCHANGED <<virtToReal, realToVirt, pvLock, binds>>

registerBind(d, v, r) ==
    /\ virtToReal' = [virtToReal EXCEPT ![d][v] = r]
    /\ realToVirt' = [realToVirt EXCEPT ![d][r] = v]

\* The post-patch function of bind(), unless the port was 0.
ExitBind(p) ==
    /\ bind[p].pc \in {"bound", "refused"}
    /\ bind' = [bind EXCEPT ![p] = NoBind]
    /\ \/ /\ bind[p].virt # AnyPort /\ bind[p].pc = "bound"
          /\ registerBind(domain[p], bind[p].virt, bind[p].real)
       \/ /\ bind[p].virt = AnyPort \/ bind[p].pc = "refused"
          /\ UNCHANGED <<virtToReal, realToVirt>>
    /\ pvLock' = IF bind[p].virt = AnyPort THEN pvLock ELSE [pvLock EXCEPT ![domain[p]] = Nobody]
    /\ UNCHANGED <<sockets, binds>>

\* close() is not patched: the translation stays.
Close(s) ==
    /\ bind[s.proc].pc = "idle"
    /\ sockets' = sockets \ {s}
    /\ UNCHANGED <<virtToReal, realToVirt, pvLock, bind, binds>>

PortNext ==
    \/ \E p \in Binders : \/ \E v \in VirtPorts \cup {AnyPort} : EnterBind(p, v)
                          \/ KernelBind(p) \/ ExitBind(p)
    \/ \E s \in sockets : Close(s)

PortSpec == PortInit /\ [][PortNext]_portVars

-----------------------------------------------------------------------------

\* What PatchGetsockname() reports of a socket, and the real port to which
\* PatchConnect() in the same domain turns a port.
PatchGetsockname(d, r) == IF lookupVirt(d, r) = AnyPort THEN r ELSE lookupVirt(d, r)

PatchConnect(d, v) == IF v \notin VirtPorts \/ lookupReal(d, v) = AnyPort THEN v ELSE lookupReal(d, v)

\* The system has given out, to a bind() of port 0, a number that a program of
\* the domain has bound: it is reported, and connect() takes it for the other.
Mistaken(d, r) == lookupVirt(d, r) = AnyPort /\ PatchConnect(d, r) # r

\* A socket is known by the port its program bound it to, no two sockets of a
\* domain are bound to the same port, and a connect() to the port that a
\* socket reports reaches that socket, whichever ports were closed, reused by
\* the system or bound at the same time before.  The one exception is a socket
\* bound to port 0 whose number is another's: never one that chose its port.
PortsExact ==
    /\ \A s, u \in sockets : domain[s.proc] = domain[u.proc] /\ s.virt = u.virt /\ s.virt # AnyPort => s = u
    /\ \A s \in {u \in sockets : bind[u.proc].pc = "idle"} :
         LET d == domain[s.proc]
             reported == PatchGetsockname(d, s.real)
         IN  /\ s.virt # AnyPort => reported = s.virt /\ ~Mistaken(d, s.real)
             /\ ~Mistaken(d, s.real) => PatchConnect(d, reported) = s.real

==============================================================================
