----------------------------- MODULE AddressMaps -----------------------------
(***************************************************************************)
(* Shared libraries (src/src/zsim.cpp, virt/cpu.cpp, filter_cache.h).  So  *)
(* that processes share the cached lines of a library, which each maps at  *)
(* addresses of its own, the simulator keeps a copy of every process's     *)
(* /proc/<pid>/maps and a table of libraries, and translates an access to  *)
(* a read-only page of a library into the range of that library.  Patches  *)
(* of mmap() and mprotect() and the end of the phase renew the copies.     *)
(*                                                                         *)
(* Addresses are pages; a mapped page is one region of the maps, and the   *)
(* thread of a process accesses memory only between its system calls.  The *)
(* first four letters of the libraries' names are different.               *)
(***************************************************************************)
EXTENDS Integers, FiniteSets, FiniteSetsExt, SequencesExt

CONSTANTS MapProcs, Libs,
          NumPages,         \* pages of an address space
          SlotPages,        \* size of the range of a library: 4 GB
          MaxMapCalls       \* bound: system calls, in each mode

Modes == {"shared", "noSharing", "scatterCache"}

ASSUME MapsAssumption ==
    /\ IsFiniteSet(Libs) /\ {"0", "none"} \cap Libs = {}
    /\ NumPages \in Nat /\ SlotPages \in Nat
    /\ MaxMapCalls \in [Modes -> Nat]

\* The segments of a library: text, read-only data, data.
Segments == <<"r-xp", "r--p", "rw-p">>

ASSUME SegmentsFit == NumPages >= Len(Segments) /\ SlotPages >= NumPages

VARIABLES
    mode,                   \* what of the memory is shared
    maps,                   \* maps[p][a]: the page at a, as the kernel has it
    procList,               \* the processes that have started
    perProcessInfo,         \* perProcessInfo[p]: the copy of maps[p]
    libSlot,                \* sharedLibInfo: the range of each library, 0 if none
    firstPhase, remakePmap, \* flags of zinfo
    phaseEnd,               \* where EndOfPhaseActions() is; other than "idle", it has global_lock
    mapCall,                \* mapCall[p]: the system call whose post-patch is due, or where that is
    mapCalls,               \* how many there have been
    missed                  \* history: the processes with a permission changed while the first
                            \* phase ended, after the copies were taken

mapVars == <<mode, maps, procList, perProcessInfo, libSlot, firstPhase, remakePmap, phaseEnd, mapCall, mapCalls, missed>>

Pages == 0..NumPages - 1

\* An anonymous page, or none.
Anon == [lib |-> "0", off |-> 0, perm |-> "rw-p"]
NoPage == [lib |-> "none", off |-> 0, perm |-> "none"]

\* A process begins with an anonymous page, its stack.
MapInit ==
    /\ mode \in Modes
    /\ maps = [p \in MapProcs |-> [a \in Pages |-> IF a = 0 THEN Anon ELSE NoPage]]
    /\ procList = {}
    /\ perProcessInfo = [p \in MapProcs |-> [a \in Pages |-> NoPage]]
    /\ libSlot = [l \in Libs |-> 0]
    /\ firstPhase = FALSE /\ remakePmap = TRUE /\ phaseEnd = "idle"
    /\ mapCall = [p \in MapProcs |-> "none"]
    /\ mapCalls = 0 /\ missed = {}

PagesOf(map, l) == {a \in Pages : map[a].lib = l}

\* populateProcessMaps(): the copies of all processes that have started.
populateProcessMaps == perProcessInfo' = [p \in MapProcs |-> IF p \in procList THEN maps[p] ELSE perProcessInfo[p]]

\* addSharedLib(): a library gets the next range when it is first seen.
addSharedLib ==
    LET seen == {l \in Libs : \E p \in procList : PagesOf(maps[p], l) # {}}
        new  == SetToSeq({l \in seen : libSlot[l] = 0})
        used == Cardinality({l \in Libs : libSlot[l] # 0})
    IN  libSlot' = [l \in Libs |-> IF \E i \in DOMAIN new : new[i] = l
                                   THEN used + CHOOSE i \in DOMAIN new : new[i] = l
                                   ELSE libSlot[l]]

\* Both, under global_lock, which accesses need too.
Renew == phaseEnd = "idle" /\ populateProcessMaps /\ addSharedLib /\ missed' = {}

-----------------------------------------------------------------------------

\* main(): a process that starts once the copies of the first phase are taken
\* has none and cannot be translated for; see the README.
StartProcess(p) ==
    /\ p \notin procList /\ ~firstPhase /\ phaseEnd = "idle"
    /\ procList' = procList \cup {p}
    /\ UNCHANGED <<mode, maps, perProcessInfo, libSlot, firstPhase, remakePmap, phaseEnd, mapCall, mapCalls, missed>>

\* The kernel's part of a system call of p, and the page table it leaves.
MapSyscall(p, call, map) ==
    /\ p \in procList /\ mapCall[p] = "none" /\ mapCalls < MaxMapCalls[mode]
    /\ maps' = [maps EXCEPT ![p] = map]
    /\ mapCall' = [mapCall EXCEPT ![p] = call]
    /\ mapCalls' = mapCalls + 1
    /\ UNCHANGED <<mode, procList, perProcessInfo, libSlot, firstPhase, remakePmap, phaseEnd, missed>>

Mmap(p, l, base) ==
    /\ PagesOf(maps[p], l) = {}
    /\ \A i \in DOMAIN Segments : base + i - 1 \in Pages /\ maps[p][base + i - 1] = NoPage
    /\ MapSyscall(p, "mmap", [a \in Pages |->
            IF a - base + 1 \in DOMAIN Segments
            THEN [lib |-> l, off |-> a - base, perm |-> Segments[a - base + 1]] ELSE maps[p][a]])

\* A whole library, or a segment of it other than its first.
Munmap(p, S) ==
    /\ S # {}
    /\ \E l \in Libs : S = PagesOf(maps[p], l)
                       \/ \E a \in PagesOf(maps[p], l) : S = {a} /\ maps[p][a].off # 0
    /\ MapSyscall(p, "munmap", [a \in Pages |-> IF a \in S THEN NoPage ELSE maps[p][a]])

\* The loader write-protects the relocated data, and a program unprotects text.
Mprotect(p, a, perm) ==
    /\ maps[p][a].lib \in Libs /\ maps[p][a].perm # perm
    /\ MapSyscall(p, "mprotect", [maps[p] EXCEPT ![a].perm = perm])

\* The post-patch functions PatchMmap(), PatchMprotect() and PatchMunmap(): they
\* set the flag without the lock; the first one goes on to renew the copies, the
\* second one to see whether it has to.
MapPostPatch(p) ==
    /\ mapCall[p] \in {"mmap", "mprotect", "munmap"}
    /\ mapCall' = [mapCall EXCEPT ![p] = CASE @ = "mmap" -> "renew" [] @ = "mprotect" -> "test" [] OTHER -> "none"]
    /\ remakePmap' = TRUE
    /\ UNCHANGED <<mode, maps, procList, perProcessInfo, libSlot, firstPhase, phaseEnd, mapCalls, missed>>

\* PatchMprotect(): in the first phase the copies are left to its end, even if
\* that has begun.
TestFirstPhase(p) ==
    /\ mapCall[p] = "test"
    /\ mapCall' = [mapCall EXCEPT ![p] = IF firstPhase THEN "renew" ELSE "none"]
    /\ missed' = IF ~firstPhase /\ phaseEnd # "idle" /\ perProcessInfo[p] # maps[p] THEN missed \cup {p} ELSE missed
    /\ UNCHANGED <<mode, maps, procList, perProcessInfo, libSlot, firstPhase, remakePmap, phaseEnd, mapCalls>>

RenewMaps(p) ==
    /\ mapCall[p] = "renew"
    /\ mapCall' = [mapCall EXCEPT ![p] = "none"]
    /\ Renew
    /\ UNCHANGED <<mode, maps, procList, firstPhase, remakePmap, phaseEnd, mapCalls>>

\* EndOfPhaseActions() takes the copies, and then writes the two flags.
EndOfPhaseActions ==
    /\ remakePmap /\ mode # "noSharing"
    /\ Renew
    /\ phaseEnd' = "copied"
    /\ UNCHANGED <<mode, maps, procList, firstPhase, remakePmap, mapCall, mapCalls>>

ClearRemake ==
    /\ phaseEnd = "copied"
    /\ phaseEnd' = "cleared" /\ remakePmap' = FALSE
    /\ UNCHANGED <<mode, maps, procList, perProcessInfo, libSlot, firstPhase, mapCall, mapCalls, missed>>

SetFirstPhase ==
    /\ phaseEnd = "cleared"
    /\ phaseEnd' = "idle" /\ firstPhase' = TRUE
    /\ UNCHANGED <<mode, maps, procList, perProcessInfo, libSlot, remakePmap, mapCall, mapCalls, missed>>

MapNext ==
    \/ \E p \in MapProcs :
         \/ StartProcess(p) \/ MapPostPatch(p) \/ TestFirstPhase(p) \/ RenewMaps(p)
         \/ \E l \in Libs, base \in Pages : Mmap(p, l, base)
         \/ \E l \in Libs : Munmap(p, PagesOf(maps[p], l))
         \/ \E a \in Pages : Munmap(p, {a}) \/ \E perm \in {"r--p", "rwxp"} : Mprotect(p, a, perm)
    \/ EndOfPhaseActions \/ ClearRemake \/ SetFirstPhase

MapSpec == MapInit /\ [][MapNext]_mapVars

-----------------------------------------------------------------------------
(***************************************************************************)
(* FilterCache::replace(): the line that process p accesses at page a.     *)
(***************************************************************************)

ReadOnly == {"r-xp", "r--p"}

BugBaseline(map, a) == a                                \* the start of the region itself

\* The address of the first region with the same name.
baseline(map, a) == Min(PagesOf(map, map[a].lib))

checkSharedLib(p, a) ==
    LET map == perProcessInfo[p]
    IN  <<"shared", libSlot[map[a].lib] * SlotPages + a - baseline(map, a)>>

\* protection() and the choice it leads to.
LineOf(p, a) ==
    IF firstPhase /\ mode = "shared" /\ perProcessInfo[p][a].lib \in Libs
       /\ perProcessInfo[p][a].perm \in ReadOnly
    THEN checkSharedLib(p, a)
    ELSE <<"private", p, a>>

\* What is there, as the kernel has it.
Content(p, a) ==
    IF firstPhase /\ mode = "shared" /\ maps[p][a].lib \in Libs /\ maps[p][a].perm \in ReadOnly
    THEN <<"file", maps[p][a].lib, maps[p][a].off>>
    ELSE <<"memory", p, a>>

Accesses == {pa \in MapProcs \X Pages : /\ pa[1] \in procList /\ mapCall[pa[1]] = "none"
                                        /\ maps[pa[1]][pa[2]] # NoPage}

\* Two accesses go to the same line if and only if they are to the same page of
\* a library, read-only, or to the same page of the same process: whatever was
\* mapped, unmapped and protected in whichever process and order, while the
\* copies are taken and the flags written or later, and although unmapped
\* regions stay in the copies until the end of the phase.  Only a process that
\* changed a permission between the copy and the flag of the end of the first
\* phase has a stale copy, until somebody's next renewal.
LinesExact ==
    \A x, y \in {pa \in Accesses : pa[1] \notin missed} :
        (LineOf(x[1], x[2]) = LineOf(y[1], y[2])) = (Content(x[1], x[2]) = Content(y[1], y[2]))

==============================================================================
