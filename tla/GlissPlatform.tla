--------------------------- MODULE GlissPlatform ---------------------------
(***************************************************************************)
(* The life times of the objects of a generated simulator (api.c) and the  *)
(* system calls of the simulated programs (syscall-linux.c).               *)
(*                                                                         *)
(* A platform holds the memories, the descriptors and the break of a       *)
(* program.  It counts its users: the states built on it and the locks of  *)
(* the client.  When the count comes back to zero the platform frees       *)
(* itself and closes the host files its program left open.  A simulator    *)
(* owns its state and deletes it.  Nothing tells an unlock that gives back *)
(* a lock from one that gives back the user of a state: unheld has the     *)
(* platforms where the client did the latter.                              *)
(*                                                                         *)
(* Several platforms share the descriptors of the one host process.  A     *)
(* program names a file by an index of the table of its platform, which    *)
(* gives the number of the host descriptor.                                *)
(***************************************************************************)
EXTENDS Integers, FiniteSets

CONSTANTS
    Platforms,      \* the platforms a client builds, each once
    States,         \* the states a client can hold at the same time
    Sims,           \* the simulators a client can hold at the same time
    NULL,           \* no object
    FdCount,        \* GLISS_FD_COUNT, the length of the table of descriptors
    HostCount,      \* how many descriptors the host gives to the platforms
    PageSize,       \* GLISS_PAGE_SIZE
    Top,            \* bound: the last address a break is put on
    Ends,           \* where the programs end that are loaded
    Asked,          \* the breaks a program asks for
    Tried,          \* the indexes of files a program tries
    MaxLocks,       \* bound: the locks and the lost states of one platform
    MaxUnheld,      \* bound: the unlocks of a platform beyond its locks
    MaxClosed       \* bound: the calls of close

ASSUME PlatformAssumption ==
    /\ IsFiniteSet(States)
    /\ NULL \notin Platforms \cup States
    /\ FdCount \in Nat /\ FdCount >= 3
    /\ HostCount \in Nat
    /\ PageSize \in Nat \ {0}
    /\ Top \in Nat
    /\ Ends \subseteq 0..Top /\ Asked \subseteq 0..Top
    /\ Tried \subseteq Int
    /\ MaxLocks \in Nat
    /\ MaxUnheld \in Nat
    /\ MaxClosed \in Nat

NONE == -1                      \* a free entry of a table of descriptors
Slot == 0..FdCount - 1
HostFd == 0..HostCount - 1
Address == 0..Top

VARIABLES
    life,       \* the life of each platform: "none", "live", "freed"
    usage,      \* usage: the count of its users
    fds,        \* fds: the table of its descriptors
    brk,        \* brk_base: the break of its program
    state,      \* the platform of each live state, NULL for no state
    sim,        \* the state of each live simulator, NULL for no simulator
    own,        \* the platform that opened each host descriptor, NULL if closed
    halted,     \* why the host process is gone: "no", "exit", "abort", or
                \* "freed" when it used a platform that is freed
    reply,      \* whether the last call succeeded (CR0.SO for a system call)
    locks,      \* history: the locks of the client less its unlocks
    unheld,     \* history: the platforms the client unlocked with no lock
    lost,       \* history: the states forked whose address was lost
    used,       \* history: the platforms that had a user
    image,      \* history: the end of the program loaded in each platform
    closed      \* history: how often a program called close

vars == <<life, usage, fds, brk, state, sim, own, halted, reply,
          locks, unheld, lost, used, image, closed>>
holders == <<state, sim, locks, unheld, lost>>
files == <<fds, own, closed>>
break == <<brk, image>>

StatesOf(p) == {s \in States : state[s] = p}
Owned(s) == \E m \in Sims : sim[m] = s

\* Within the bound: no platform has MaxLocks locks and lost states.
Room == \A p \in Platforms : locks[p] + lost[p] < MaxLocks

Runs == halted = "no"
Live(p) == Runs /\ life[p] = "live"
Running(s) == Runs /\ state[s] # NULL /\ life[state[s]] = "live"

Init ==
    /\ life = [p \in Platforms |-> "none"]
    /\ usage = [p \in Platforms |-> 0]
    /\ fds = [p \in Platforms |-> [i \in Slot |-> NONE]]
    /\ brk = [p \in Platforms |-> 0]
    /\ state = [s \in States |-> NULL]
    /\ sim = [m \in Sims |-> NULL]
    /\ own = [h \in HostFd |-> NULL]
    /\ halted = "no"
    /\ reply = TRUE
    /\ locks = [p \in Platforms |-> 0]
    /\ unheld = {}
    /\ lost = [p \in Platforms |-> 0]
    /\ used = {}
    /\ image = [p \in Platforms |-> 0]
    /\ closed = 0

-----------------------------------------------------------------------------
(* The table of descriptors *)

\* The host gives its lowest free descriptor, if it has one.
Free == {h \in HostFd : own[h] = NULL}
LowestOf(S) == CHOOSE x \in S : \A y \in S : x <= y
Given == IF Free = {} THEN NONE ELSE LowestOf(Free)

FreeSlots(table) == {i \in Slot : table[i] = NONE}

\* fd_new: the first free entry takes the host descriptor.
FdNew(table, h) ==
    IF h = NONE THEN table ELSE [table EXCEPT ![LowestOf(FreeSlots(table))] = h]

\* gliss_syscall_init: the three standard descriptors are duplicated, as far
\* as the host has descriptors to give.
SyscallInit(p) ==
    \E S \in SUBSET Free :
        /\ Cardinality(S) <= 3
        /\ \A h \in S, k \in Free \ S : h < k
        /\ Cardinality(S) < 3 => S = Free
        /\ own' = [h \in HostFd |-> IF h \in S THEN p ELSE own[h]]
        /\ fds' = [fds EXCEPT ![p] = [i \in Slot |->
                     IF i >= Cardinality(S) THEN NONE
                     ELSE CHOOSE h \in S : Cardinality({k \in S : k < h}) = i]]
        /\ brk' = [brk EXCEPT ![p] = 0]

\* Variant: the standard descriptors only are closed.
SyscallDestroyStandard(p) ==
    own' = [h \in HostFd |->
              IF \E i \in 0..2 : fds[p][i] = h THEN NULL ELSE own[h]]

\* gliss_syscall_destroy: every descriptor of the table is closed.
SyscallDestroy(p) ==
    own' = [h \in HostFd |->
              IF \E i \in Slot : fds[p][i] = h THEN NULL ELSE own[h]]

\* The platform is freed: what its memory held is gone.
Forget(p) ==
    /\ life' = [life EXCEPT ![p] = "freed"]
    /\ fds' = [fds EXCEPT ![p] = [i \in Slot |-> NONE]]
    /\ brk' = [brk EXCEPT ![p] = 0]
    /\ image' = [image EXCEPT ![p] = 0]
    /\ used' = used \ {p}

-----------------------------------------------------------------------------
(* The client: platforms *)

NewPlatform(p) ==
    /\ Runs
    /\ life[p] = "none"
    /\ life' = [life EXCEPT ![p] = "live"]
    /\ usage' = [usage EXCEPT ![p] = 0]
    /\ SyscallInit(p)
    /\ reply' = TRUE
    /\ UNCHANGED <<holders, halted, used, image, closed>>

\* lock_platform: one more user.
Lock(p) ==
    /\ usage' = [usage EXCEPT ![p] = @ + 1]
    /\ used' = used \cup {p}

\* unlock_platform: one user less; the platform frees itself with the last.
Unlock(p) ==
    /\ usage' = [usage EXCEPT ![p] = @ - 1]
    /\ IF usage[p] = 1
       THEN SyscallDestroy(p) /\ Forget(p)
       ELSE UNCHANGED <<life, fds, own, break, used>>

LockPlatform(p) ==
    /\ Live(p) /\ Room
    /\ Lock(p)
    /\ locks' = [locks EXCEPT ![p] = @ + 1]
    /\ reply' = TRUE
    /\ UNCHANGED <<life, files, break, state, sim, unheld, lost, halted>>

\* The client unlocks, whether it holds a lock or not.
UnlockPlatform(p) ==
    /\ Live(p) /\ locks[p] > -MaxUnheld
    /\ Unlock(p)
    /\ locks' = [locks EXCEPT ![p] = @ - 1]
    /\ unheld' = IF locks[p] > 0 THEN unheld ELSE unheld \cup {p}
    /\ reply' = TRUE
    /\ UNCHANGED <<closed, state, sim, lost, halted>>

\* The client unlocks a platform that is freed: so is released, as api.c:54
\* says, a platform whose states are deleted.
UnlockFreed(p) ==
    /\ Runs /\ life[p] = "freed"
    /\ halted' = "freed"
    /\ unheld' = unheld \cup {p}
    /\ UNCHANGED <<life, usage, files, break, state, sim, locks, lost, used, reply>>

\* set_brk: the break is put on the page boundary above the program.
PageUp(a) == ((a + PageSize - 1) \div PageSize) * PageSize
SetBrk(p, a) == brk' = [brk EXCEPT ![p] = PageUp(a)]

\* load_platform: a program that ends at e is loaded, or cannot be opened.
LoadPlatform(p, e) ==
    /\ Live(p)
    /\ \/ /\ PageUp(e) <= Top
          /\ SetBrk(p, e)
          /\ image' = [image EXCEPT ![p] = e]
          /\ reply' = TRUE
       \/ reply' = FALSE /\ UNCHANGED break
    /\ UNCHANGED <<life, usage, files, holders, halted, used>>

-----------------------------------------------------------------------------
(* The client: states and simulators *)

\* new_state: the state locks its platform.
NewState(p, s) ==
    /\ Live(p) /\ state[s] = NULL
    /\ Lock(p)
    /\ state' = [state EXCEPT ![s] = p]
    /\ reply' = TRUE
    /\ UNCHANGED <<life, files, break, sim, locks, unheld, lost, halted>>

\* Variant: the copy does not lock the platform.
CopyStateUnlocked(s, t) ==
    /\ Running(s) /\ state[t] = NULL
    /\ state' = [state EXCEPT ![t] = state[s]]
    /\ reply' = TRUE
    /\ UNCHANGED <<life, usage, files, break, sim, locks, unheld, lost, used, halted>>

\* copy_state: the copy locks the platform too.
CopyState(s, t) ==
    /\ Running(s) /\ state[t] = NULL
    /\ Lock(state[s])
    /\ state' = [state EXCEPT ![t] = state[s]]
    /\ reply' = TRUE
    /\ UNCHANGED <<life, files, break, sim, locks, unheld, lost, halted>>

\* fork_state has no return statement: the client gets the new state when the
\* build leaves its address in the result register; otherwise it is lost.
ForkState(s, t) ==
    LET p == state[s] IN
    /\ Running(s) /\ state[t] = NULL
    /\ Lock(p)
    /\ \/ /\ state' = [state EXCEPT ![t] = p]
          /\ UNCHANGED lost
       \/ /\ Room
          /\ lost' = [lost EXCEPT ![p] = @ + 1]
          /\ UNCHANGED state
    /\ reply' = TRUE
    /\ UNCHANGED <<life, files, break, sim, locks, unheld, halted>>

\* delete_state: the state unlocks its platform.
FreeState(s) ==
    /\ Unlock(state[s])
    /\ state' = [state EXCEPT ![s] = NULL]

DeleteState(s) ==
    /\ Running(s) /\ ~Owned(s)
    /\ FreeState(s)
    /\ reply' = TRUE
    /\ UNCHANGED <<closed, sim, locks, unheld, lost, halted>>

\* new_sim: the simulator takes the state, or has no memory for a decoder.
NewSim(m, s) ==
    /\ Running(s) /\ ~Owned(s) /\ sim[m] = NULL
    /\ \/ sim' = [sim EXCEPT ![m] = s] /\ reply' = TRUE
       \/ reply' = FALSE /\ UNCHANGED sim
    /\ UNCHANGED <<life, usage, files, break, state, locks, unheld, lost, halted, used>>

\* delete_sim: the state goes with the simulator.
DeleteSim(m) ==
    /\ sim[m] # NULL /\ Running(sim[m])
    /\ FreeState(sim[m])
    /\ sim' = [sim EXCEPT ![m] = NULL]
    /\ reply' = TRUE
    /\ UNCHANGED <<closed, locks, unheld, lost, halted>>

\* A state, its simulator or its program is used: it leads to a freed platform.
UseFreed(s) ==
    /\ Runs /\ state[s] # NULL /\ ~Running(s)
    /\ halted' = "freed"
    /\ UNCHANGED <<life, usage, files, break, holders, used, reply>>

-----------------------------------------------------------------------------
(* The system calls of a program, run by a state of the platform p *)

Calls(p) == Live(p) /\ StatesOf(p) # {}
Quiet == UNCHANGED <<life, usage, fds, own, break, holders, used>>

\* _fd: an index outside of the table stops the simulator on an assertion.
InTable(i) == i \in Slot
HostOf(p, i) == fds[p][i]
IsOpen(h) == h # NONE /\ own[h] # NULL

BadFd(p, i) ==
    /\ Calls(p) /\ ~InTable(i)
    /\ halted' = "abort"
    /\ Quiet /\ UNCHANGED <<reply, closed>>

\* A call on a file that leaves the tables as they are: it fails on a closed
\* descriptor, and may fail on an open one.
OnFile(p, i) ==
    /\ Calls(p) /\ InTable(i)
    /\ reply' \in IF IsOpen(HostOf(p, i)) THEN BOOLEAN ELSE {FALSE}
    /\ Quiet /\ UNCHANGED <<halted, closed>>

SysRead(p, i) == OnFile(p, i) \/ BadFd(p, i)
SysWrite(p, i) == OnFile(p, i) \/ BadFd(p, i)
SysLseek(p, i) == OnFile(p, i) \/ BadFd(p, i)
SysFstat(p, i) == OnFile(p, i) \/ BadFd(p, i)
SysFstat64(p, i) == OnFile(p, i) \/ BadFd(p, i)

\* _llseek: an offset above 32 bits is refused, after the index is looked up.
SysLlseek(p, i, high) ==
    \/ high = 0 /\ OnFile(p, i)
    \/ high # 0 /\ OnFile(p, i) /\ ~reply'
    \/ BadFd(p, i)

\* open: the host gives a descriptor or refuses.  A full table stops the
\* simulator.
SysOpen(p) ==
    LET h == Given
        full == FreeSlots(fds[p]) = {}
    IN
    /\ Calls(p)
    /\ \/ /\ reply' = FALSE
          /\ UNCHANGED <<fds, own, halted>>
       \/ /\ h # NONE /\ ~full
          /\ own' = [own EXCEPT ![h] = p]
          /\ fds' = [fds EXCEPT ![p] = FdNew(@, h)]
          /\ reply' = TRUE
          /\ UNCHANGED halted
       \/ /\ h # NONE /\ full
          /\ halted' = "exit"
          /\ UNCHANGED <<fds, own, reply>>
    /\ UNCHANGED <<life, usage, break, holders, used, closed>>

\* close: the host descriptor is closed and the entry stays.
SysClose(p, i) ==
    \/ /\ Calls(p) /\ InTable(i)
       /\ LET h == HostOf(p, i) IN
          IF IsOpen(h)
          THEN own' = [own EXCEPT ![h] = NULL] /\ reply' = TRUE
          ELSE UNCHANGED own /\ reply' = FALSE
       /\ closed < MaxClosed
       /\ closed' = closed + 1
       /\ UNCHANGED <<life, usage, fds, break, holders, used, halted>>
    \/ BadFd(p, i)

\* Variant: the break goes where the program asks.
SysBrkAnywhere(p, a) ==
    /\ Calls(p)
    /\ brk' = [brk EXCEPT ![p] = a]
    /\ reply' = TRUE
    /\ UNCHANGED <<life, usage, files, holders, used, image, halted>>

\* Variant: the answer is the old test, turned round.
SysBrkReports(p, a) ==
    /\ Calls(p)
    /\ brk' = [brk EXCEPT ![p] = IF a > @ THEN a ELSE @]
    /\ reply' = (a <= brk[p])
    /\ UNCHANGED <<life, usage, files, holders, used, image, halted>>

\* brk: the break only goes up.
SysBrk(p, a) ==
    /\ Calls(p)
    /\ IF a > brk[p]
       THEN brk' = [brk EXCEPT ![p] = a] /\ reply' = TRUE
       ELSE UNCHANGED brk /\ reply' = FALSE
    /\ UNCHANGED <<life, usage, files, holders, used, image, halted>>

\* A call that is answered and changes nothing.
Answered(p) ==
    /\ Calls(p)
    /\ reply' = TRUE
    /\ Quiet /\ UNCHANGED <<halted, closed>>

\* A call that answers -1 and nothing else.
Refused(p) ==
    /\ Calls(p)
    /\ reply' = FALSE
    /\ Quiet /\ UNCHANGED <<halted, closed>>

\* exit: the flag it clears is one that nobody sets.
SysExit(p) == Answered(p)
SysGetpid(p) == Answered(p)
SysGetuid(p) == Answered(p)
SysTimes(p) == Answered(p)
SysGetgid(p) == Answered(p)
SysGeteuid(p) == Answered(p)
SysGetegid(p) == Answered(p)
SysPersonality(p) == Answered(p)

SysNeutral(p) ==
    \/ SysExit(p) \/ SysGetpid(p) \/ SysGetuid(p) \/ SysTimes(p)
    \/ SysGetgid(p) \/ SysGeteuid(p) \/ SysGetegid(p) \/ SysPersonality(p)

\* The calls that are not supported, in the order of their numbers.
SysWaitpidToOldstat(p) == Refused(p)
SysStimeToPipe(p) == Refused(p)
SysAcctToIoctl(p) == Refused(p)
SysFcntlToLstat(p) == Refused(p)
SysOldunameToSysfs(p) == Refused(p)
SysGetdentsToLstat64(p) == Refused(p)
SysLchown32ToFcntl64(p) == Refused(p)

\* fork and the like, which stand alone between those, and the unknown numbers.
SysOther(p) == Refused(p)

SysUnsupported(p) ==
    \/ SysWaitpidToOldstat(p) \/ SysStimeToPipe(p) \/ SysAcctToIoctl(p)
    \/ SysFcntlToLstat(p) \/ SysOldunameToSysfs(p) \/ SysGetdentsToLstat64(p)
    \/ SysLchown32ToFcntl64(p) \/ SysOther(p)

\* gliss_syscall: the program chooses the call and its arguments.
Syscall(p) ==
    \/ SysOpen(p) \/ SysNeutral(p) \/ SysUnsupported(p)
    \/ \E a \in Asked : SysBrk(p, a)
    \/ \E i \in Tried :
        \/ SysRead(p, i) \/ SysWrite(p, i) \/ SysClose(p, i)
        \/ SysLseek(p, i) \/ SysFstat(p, i) \/ SysFstat64(p, i)
        \/ \E high \in {0, 1} : SysLlseek(p, i, high)

Client ==
    \/ \E p \in Platforms :
        \/ NewPlatform(p) \/ LockPlatform(p) \/ UnlockPlatform(p) \/ UnlockFreed(p)
        \/ \E e \in Ends : LoadPlatform(p, e)
        \/ \E s \in States : NewState(p, s)
    \/ \E s \in States :
        \/ DeleteState(s) \/ UseFreed(s)
        \/ \E t \in States : CopyState(s, t) \/ ForkState(s, t)
        \/ \E m \in Sims : NewSim(m, s)
    \/ \E m \in Sims : DeleteSim(m)

Next == Client \/ \E p \in Platforms : Syscall(p)

Spec == Init /\ [][Next]_vars

-----------------------------------------------------------------------------
(* The variables keep their types. *)
TypeOK ==
    /\ life \in [Platforms -> {"none", "live", "freed"}]
    /\ usage \in [Platforms -> Int]
    /\ fds \in [Platforms -> [Slot -> HostFd \cup {NONE}]]
    /\ brk \in [Platforms -> Address]
    /\ state \in [States -> Platforms \cup {NULL}]
    /\ sim \in [Sims -> States \cup {NULL}]
    /\ own \in [HostFd -> Platforms \cup {NULL}]
    /\ halted \in {"no", "exit", "abort", "freed"}
    /\ reply \in BOOLEAN
    /\ locks \in [Platforms -> Int]
    /\ unheld \subseteq Platforms
    /\ lost \in [Platforms -> Nat]
    /\ used \subseteq Platforms
    /\ image \in [Platforms -> Address]
    /\ closed \in Nat

\* The platform of a live state is live: nobody frees it before the state.
StateHasPlatform ==
    \A s \in States :
        state[s] # NULL /\ state[s] \notin unheld => life[state[s]] = "live"

\* The count of users is what the client can see: its locks and its states.
UsageCounts ==
    \A p \in Platforms \ unheld : life[p] = "live" =>
        usage[p] = locks[p] + lost[p] + Cardinality(StatesOf(p))

\* A platform that had a user and has none any more was freed.
Reclaimed ==
    \A p \in used \ unheld : life[p] = "live" => usage[p] > 0

\* A platform the client unlocks as often as it has locked it, and no more,
\* lives exactly as long as somebody holds it, whatever the order in which
\* states are copied, forked and deleted and locks given back; and no freed
\* platform is used unless the client unlocked one it had not locked.
Held ==
    /\ StateHasPlatform /\ UsageCounts /\ Reclaimed
    /\ halted = "freed" => unheld # {}

\* Every host descriptor a platform opened is in the table of a live
\* platform: unlocking the last user closes it.  And until a program calls
\* close, an entry of a table is an open file of that platform and of no other
\* entry, so that no program reads or writes the file of another.
FilesKept ==
    /\ \A h \in HostFd : own[h] # NULL =>
         life[own[h]] = "live" /\ \E i \in Slot : fds[own[h]][i] = h
    /\ closed = 0 => \A p \in Platforms : life[p] = "live" =>
         \A i \in Slot : fds[p][i] # NONE =>
            /\ own[fds[p][i]] = p
            /\ \A j \in Slot \ {i} : fds[p][j] # fds[p][i]

\* The break stays above the program, whatever several states of the platform
\* ask for, so that the memory a program gets by brk is not its own code.
BreakAboveImage ==
    \A p \in Platforms : life[p] = "live" => brk[p] >= image[p]

\* A call that reports a failure left files, break and users as they were.
FailedIsHarmless ==
    [][~reply' => UNCHANGED <<fds, own, brk, usage, life, state, sim>>]_vars

=============================================================================
