------------------------ MODULE GlissPlatformProofs ------------------------
(***************************************************************************)
(* For any number of platforms, states, simulators and descriptors: a      *)
(* platform whose client unlocks it no more than it has locked it lives    *)
(* exactly as long as somebody holds it (Held), the files of a platform as *)
(* long as it does (FilesKept), its break stays above its program          *)
(* (BreakAboveImage) and calls that fail change nothing.                   *)
(*                                                                         *)
(* Held is inductive with the types of the variables it reads, as what     *)
(* Sound says of each platform.  The heart of the argument is the count: a *)
(* step that adds or removes one state changes the number of states of one *)
(* platform by one, so that the count reaches zero with the last holder    *)
(* and not before.  The two parts of FilesKept need each other: a          *)
(* descriptor opened is one that no table leads to, because what tables    *)
(* lead to is open.                                                        *)
(***************************************************************************)
EXTENDS GlissPlatform, FiniteSetTheorems, FunctionTheorems, WellFoundedInduction, TLAPS

\* The types of what the count is about.
HolderTypes ==
    /\ life \in [Platforms -> {"none", "live", "freed"}]
    /\ usage \in [Platforms -> Int]
    /\ state \in [States -> Platforms \cup {NULL}]
    /\ sim \in [Sims -> States \cup {NULL}]
    /\ locks \in [Platforms -> Int]
    /\ unheld \subseteq Platforms
    /\ lost \in [Platforms -> Nat]
    /\ used \subseteq Platforms

Holders(q) == locks[q] + lost[q] + Cardinality(StatesOf(q))

\* Of a platform the client did not unlock too often: it has as many users as
\* holders, and none when it is not there.
Sound(q) ==
    /\ locks[q] >= 0
    /\ life[q] = "live" => usage[q] = Holders(q)
    /\ life[q] = "live" /\ q \in used => usage[q] > 0
    /\ life[q] # "live" => Holders(q) = 0 /\ q \notin used

Inv ==
    /\ HolderTypes
    /\ \A q \in Platforms : q \in unheld \/ Sound(q)
    /\ halted = "freed" => unheld # {}

-----------------------------------------------------------------------------
(* Counting states *)

\* The states of a platform are finitely many.
LEMMA StatesFinite ==
    ASSUME NEW p
    PROVE  IsFiniteSet(StatesOf(p)) /\ Cardinality(StatesOf(p)) \in Nat
BY PlatformAssumption, FS_Subset, FS_CardinalityType DEF StatesOf

LEMMA StatesFiniteNext ==
    ASSUME NEW p
    PROVE  IsFiniteSet(StatesOf(p)') /\ Cardinality(StatesOf(p)') \in Nat
BY PlatformAssumption, FS_Subset, FS_CardinalityType DEF StatesOf

\* A platform with a state has a holder.
LEMMA StateHolds ==
    ASSUME HolderTypes, NEW s \in States, state[s] \in Platforms,
           locks[state[s]] >= 0
    PROVE  Holders(state[s]) > 0
<1> DEFINE n == Cardinality(StatesOf(state[s]))
<1>1. s \in StatesOf(state[s])
  BY DEF StatesOf
<1>2. n \in Nat /\ n # 0
  BY <1>1, StatesFinite, FS_EmptySet
<1>3. locks[state[s]] \in Int /\ lost[state[s]] \in Nat
  BY DEF HolderTypes
<1> HIDE DEF n
<1>4. locks[state[s]] + lost[state[s]] + n > 0
  BY <1>2, <1>3
<1> QED
  BY <1>4 DEF Holders, n

\* A new state counts for its platform only.
LEMMA StateAdded ==
    ASSUME HolderTypes, NEW s \in States, state[s] = NULL, NEW p \in Platforms,
           state' = [state EXCEPT ![s] = p]
    PROVE  \A q \in Platforms :
             Cardinality(StatesOf(q)')
               = Cardinality(StatesOf(q)) + (IF q = p THEN 1 ELSE 0)
<1> SUFFICES ASSUME NEW q \in Platforms
    PROVE Cardinality(StatesOf(q)')
            = Cardinality(StatesOf(q)) + (IF q = p THEN 1 ELSE 0)
  OBVIOUS
<1>1. CASE q = p
  <2>1. StatesOf(q)' = StatesOf(q) \cup {s}
    BY <1>1 DEF StatesOf, HolderTypes
  <2>2. s \notin StatesOf(q)
    BY PlatformAssumption DEF StatesOf
  <2> QED
    BY <1>1, <2>1, <2>2, StatesFinite, FS_AddElement
<1>2. CASE q # p
  <2>1. StatesOf(q)' = StatesOf(q)
    BY <1>2, PlatformAssumption DEF StatesOf, HolderTypes
  <2> QED
    BY <1>2, <2>1, StatesFinite
<1> QED
  BY <1>1, <1>2

\* A deleted state counts for its platform no more.
LEMMA StateRemoved ==
    ASSUME HolderTypes, NEW s \in States, state[s] \in Platforms,
           state' = [state EXCEPT ![s] = NULL]
    PROVE  \A q \in Platforms :
             Cardinality(StatesOf(q)')
               = Cardinality(StatesOf(q)) - (IF q = state[s] THEN 1 ELSE 0)
<1> SUFFICES ASSUME NEW q \in Platforms
    PROVE Cardinality(StatesOf(q)')
            = Cardinality(StatesOf(q)) - (IF q = state[s] THEN 1 ELSE 0)
  OBVIOUS
<1>1. CASE q = state[s]
  <2>1. StatesOf(q)' = StatesOf(q) \ {s}
    BY <1>1, PlatformAssumption DEF StatesOf, HolderTypes
  <2>2. s \in StatesOf(q)
    BY <1>1 DEF StatesOf
  <2> QED
    BY <1>1, <2>1, <2>2, StatesFinite, FS_RemoveElement
<1>2. CASE q # state[s]
  <2>1. StatesOf(q)' = StatesOf(q)
    BY <1>2, PlatformAssumption DEF StatesOf, HolderTypes
  <2> QED
    BY <1>2, <2>1, StatesFinite
<1> QED
  BY <1>1, <1>2

\* States that nobody touches are counted as before.
LEMMA StatesSame ==
    ASSUME state' = state
    PROVE  \A q : Cardinality(StatesOf(q)') = Cardinality(StatesOf(q))
<1>1. \A q : StatesOf(q)' = StatesOf(q)
  BY DEF StatesOf
<1> QED
  BY <1>1

-----------------------------------------------------------------------------
(* The ways the holders of a platform change *)

\* A platform the step does not touch.
LEMMA SoundSame ==
    ASSUME NEW q, Sound(q), Cardinality(StatesOf(q)') = Cardinality(StatesOf(q)),
           life'[q] = life[q], usage'[q] = usage[q], locks'[q] = locks[q],
           lost'[q] = lost[q], q \in used' => q \in used
    PROVE  Sound(q)'
BY DEF Sound, Holders

\* One holder more: a new state, a lost one or a lock of the client.
LEMMA SoundMore ==
    ASSUME HolderTypes, HolderTypes', NEW p \in Platforms, Sound(p),
           life[p] = "live", life'[p] = "live", usage'[p] = usage[p] + 1,
           locks'[p] >= 0, Holders(p)' = Holders(p) + 1
    PROVE  Sound(p)'
<1>1. usage'[p] = Holders(p)'
  BY DEF Sound
<1>2. locks'[p] \in Nat /\ lost'[p] \in Nat /\ Cardinality(StatesOf(p)) \in Nat
      /\ locks[p] \in Nat /\ lost[p] \in Nat
  BY StatesFinite DEF HolderTypes, Sound
<1>3. usage'[p] > 0
  <2>1. Holders(p) \in Nat
    BY <1>2 DEF Holders
  <2> QED
    BY <1>1, <2>1
<1> QED
  BY <1>1, <1>3 DEF Sound

\* One holder less: a deleted state or a lock given back.  With the last one
\* the platform is freed.
LEMMA SoundLess ==
    ASSUME HolderTypes, HolderTypes', NEW p \in Platforms, Sound(p),
           life[p] = "live", Unlock(p), locks'[p] >= 0,
           Holders(p)' = Holders(p) - 1
    PROVE  Sound(p)'
<1>1. usage[p] = Holders(p) /\ usage[p] \in Int
  BY DEF Sound, HolderTypes
<1>2. usage'[p] = usage[p] - 1
  BY DEF Unlock, HolderTypes
<1>3. CASE usage[p] = 1
  <2>1. life'[p] = "freed" /\ p \notin used'
    BY <1>3 DEF Unlock, Forget, HolderTypes
  <2> QED
    BY <1>1, <1>3, <2>1 DEF Sound
<1>4. CASE usage[p] # 1
  <2>1. life' = life
    BY <1>4 DEF Unlock
  <2>2. locks'[p] \in Nat /\ lost'[p] \in Nat /\ Cardinality(StatesOf(p)') \in Nat
    BY StatesFiniteNext DEF HolderTypes
  <2>3. Holders(p)' \in Nat
    BY <2>2 DEF Holders
  <2>4. usage'[p] = Holders(p)' /\ usage'[p] > 0
    BY <1>1, <1>2, <1>4, <2>3
  <2> QED
    BY <2>1, <2>4 DEF Sound
<1> QED
  BY <1>3, <1>4

\* What Unlock leaves alone.
LEMMA UnlockOthers ==
    ASSUME HolderTypes, NEW p \in Platforms, Unlock(p)
    PROVE  \A q \in Platforms : q # p =>
             /\ life'[q] = life[q] /\ usage'[q] = usage[q]
             /\ q \in used' => q \in used
<1>1. usage' = [usage EXCEPT ![p] = @ - 1]
  BY DEF Unlock
<1>2. CASE usage[p] = 1
  BY <1>1, <1>2 DEF Unlock, Forget, HolderTypes
<1>3. CASE usage[p] # 1
  BY <1>1, <1>3 DEF Unlock, HolderTypes
<1> QED
  BY <1>2, <1>3

\* A step that leaves the holders alone.
LEMMA NoneChanges ==
    ASSUME Inv, HolderTypes', UNCHANGED <<life, usage, state, locks, lost, used>>,
           unheld \subseteq unheld', halted' = "freed" => unheld' # {}
    PROVE  Inv'
<1>1. \A q \in Platforms : q \in unheld' \/ Sound(q)'
  BY StatesSame, SoundSame DEF Inv
<1> QED
  BY <1>1 DEF Inv

-----------------------------------------------------------------------------
(* The steps of the client *)

\* A new platform has no holder.
LEMMA NewPlatformKeeps ==
    ASSUME Inv, NEW p \in Platforms, NewPlatform(p)
    PROVE  Inv'
<1>1. /\ life[p] = "none"
      /\ life' = [life EXCEPT ![p] = "live"]
      /\ usage' = [usage EXCEPT ![p] = 0]
      /\ UNCHANGED <<state, sim, locks, unheld, lost, used, halted>>
  BY DEF NewPlatform, holders
<1>2. HolderTypes'
  BY <1>1 DEF Inv, HolderTypes
<1>3. ASSUME NEW q \in Platforms, q \notin unheld PROVE Sound(q)'
  <2>1. Sound(q)
    BY <1>3 DEF Inv
  <2>2. CASE q # p
    BY <1>1, <2>1, <2>2, StatesSame, SoundSame DEF Inv, HolderTypes
  <2>3. CASE q = p
    BY <1>1, <2>1, <2>3, StatesSame DEF Inv, HolderTypes, Sound, Holders
  <2> QED
    BY <2>2, <2>3
<1> QED
  BY <1>1, <1>2, <1>3 DEF Inv

\* One holder more.
LEMMA LockKeeps ==
    ASSUME Inv, HolderTypes', NEW p \in Platforms, life[p] = "live", Lock(p),
           UNCHANGED <<life, unheld, halted>>,
           \A q \in Platforms \ {p} :
             /\ locks'[q] = locks[q] /\ lost'[q] = lost[q]
             /\ Cardinality(StatesOf(q)') = Cardinality(StatesOf(q)),
           locks'[p] >= locks[p], Holders(p)' = Holders(p) + 1
    PROVE  Inv'
<1>1. \A q \in Platforms :
        /\ usage'[q] = usage[q] + (IF q = p THEN 1 ELSE 0)
        /\ q # p /\ q \in used' => q \in used
  BY DEF Lock, Inv, HolderTypes
<1>2. ASSUME NEW q \in Platforms, q \notin unheld PROVE Sound(q)'
  <2>1. Sound(q)
    BY <1>2 DEF Inv
  <2>2. CASE q # p
    <3>1. usage'[q] = usage[q]
      BY <1>1, <2>2 DEF Inv, HolderTypes
    <3> QED
      BY <1>1, <2>1, <2>2, <3>1, SoundSame
  <2>3. CASE q = p
    <3>1. locks[p] \in Int /\ locks'[p] \in Int /\ locks'[p] >= 0
      BY <2>1, <2>3 DEF Inv, HolderTypes, Sound
    <3> QED
      BY <1>1, <2>1, <2>3, <3>1, SoundMore DEF Inv
  <2> QED
    BY <2>2, <2>3
<1> QED
  BY <1>2 DEF Inv

LEMMA LockPlatformKeeps ==
    ASSUME Inv, NEW p \in Platforms, LockPlatform(p)
    PROVE  Inv'
<1>1. /\ life[p] = "live" /\ life' = life
      /\ Lock(p)
      /\ locks' = [locks EXCEPT ![p] = @ + 1]
      /\ UNCHANGED <<state, sim, unheld, lost, halted>>
  BY DEF LockPlatform, Live
<1>2. HolderTypes'
  BY <1>1 DEF Inv, HolderTypes, Lock
<1>3. /\ locks'[p] = locks[p] + 1 /\ locks[p] \in Int /\ lost[p] \in Nat
      /\ \A q \in Platforms \ {p} : locks'[q] = locks[q]
  BY <1>1 DEF Inv, HolderTypes
<1>4. Holders(p)' = Holders(p) + 1
  BY <1>1, <1>3, StatesSame, StatesFinite DEF Holders
<1> QED
  BY <1>1, <1>2, <1>3, <1>4, StatesSame, LockKeeps

\* The client gives back a lock, or the platform is one it unlocked too often.
LEMMA UnlockPlatformKeeps ==
    ASSUME Inv, NEW p \in Platforms, UnlockPlatform(p)
    PROVE  Inv'
<1>1. /\ life[p] = "live"
      /\ Unlock(p)
      /\ locks' = [locks EXCEPT ![p] = @ - 1]
      /\ unheld' = IF locks[p] > 0 THEN unheld ELSE unheld \cup {p}
      /\ UNCHANGED <<state, sim, lost, halted>>
  BY DEF UnlockPlatform, Live
<1>2. HolderTypes'
  BY <1>1 DEF Inv, HolderTypes, Unlock, Forget
<1>3. ASSUME NEW q \in Platforms, q \notin unheld' PROVE Sound(q)'
  <2>1. Sound(q)
    BY <1>1, <1>3 DEF Inv
  <2>2. CASE q # p
    <3>1. locks'[q] = locks[q]
      BY <1>1, <2>2 DEF Inv, HolderTypes
    <3> QED
      BY <1>1, <2>1, <2>2, <3>1, UnlockOthers, StatesSame, SoundSame DEF Inv
  <2>3. CASE q = p
    <3>1. locks[p] > 0 /\ locks[p] \in Int /\ locks'[p] = locks[p] - 1 /\ lost[p] \in Nat
      BY <1>1, <1>3, <2>3 DEF Inv, HolderTypes
    <3>2. Holders(p)' = Holders(p) - 1
      BY <1>1, <3>1, StatesSame, StatesFinite DEF Holders
    <3> QED
      BY <1>1, <1>2, <2>1, <2>3, <3>1, <3>2, SoundLess DEF Inv
  <2> QED
    BY <2>2, <2>3
<1>4. halted' = "freed" => unheld' # {}
  BY <1>1 DEF Inv
<1> QED
  BY <1>2, <1>3, <1>4 DEF Inv

\* A state put on a live platform.
LEMMA StateAddedKeeps ==
    ASSUME Inv, NEW p \in Platforms, life[p] = "live", life' = life, Lock(p),
           NEW s \in States, state[s] = NULL, state' = [state EXCEPT ![s] = p],
           UNCHANGED <<sim, locks, unheld, lost, halted>>
    PROVE  Inv'
<1>1. HolderTypes'
  BY DEF Inv, HolderTypes, Lock
<1>2. \A q \in Platforms : Cardinality(StatesOf(q)')
                 = Cardinality(StatesOf(q)) + (IF q = p THEN 1 ELSE 0)
  BY StateAdded DEF Inv
<1>3. \A q \in Platforms \ {p} : Cardinality(StatesOf(q)') = Cardinality(StatesOf(q))
  BY <1>2, StatesFinite
<1>4. locks[p] \in Int /\ lost[p] \in Nat /\ locks'[p] >= locks[p]
  BY DEF Inv, HolderTypes
<1>5. Holders(p)' = Holders(p) + 1
  BY <1>2, <1>4, StatesFinite DEF Holders
<1> QED
  BY <1>1, <1>3, <1>4, <1>5, LockKeeps

\* A fork whose address is lost holds its platform for ever.
LEMMA StateLostKeeps ==
    ASSUME Inv, NEW p \in Platforms, life[p] = "live", life' = life, Lock(p),
           lost' = [lost EXCEPT ![p] = @ + 1],
           UNCHANGED <<state, sim, locks, unheld, halted>>
    PROVE  Inv'
<1>1. HolderTypes'
  BY DEF Inv, HolderTypes, Lock
<1>2. /\ lost'[p] = lost[p] + 1 /\ lost[p] \in Nat
      /\ locks[p] \in Int /\ locks'[p] >= locks[p]
      /\ \A q \in Platforms \ {p} : lost'[q] = lost[q]
  BY DEF Inv, HolderTypes
<1>3. Holders(p)' = Holders(p) + 1
  BY <1>2, StatesSame, StatesFinite DEF Holders
<1> QED
  BY <1>1, <1>2, <1>3, StatesSame, LockKeeps

\* A state deleted, alone or with its simulator.
LEMMA FreeStateKeeps ==
    ASSUME Inv, NEW s \in States, state[s] # NULL, life[state[s]] = "live",
           FreeState(s), sim' \in [Sims -> States \cup {NULL}],
           UNCHANGED <<locks, unheld, lost, halted>>
    PROVE  Inv'
<1>1. PICK p \in Platforms : p = state[s] /\ life[p] = "live"
  BY DEF Inv, HolderTypes
<1>2. Unlock(p) /\ state' = [state EXCEPT ![s] = NULL]
  BY <1>1 DEF FreeState
<1>3. HolderTypes'
  BY <1>1, <1>2 DEF Inv, HolderTypes, Unlock, Forget
<1>4. \A q \in Platforms : Cardinality(StatesOf(q)')
                 = Cardinality(StatesOf(q)) - (IF q = p THEN 1 ELSE 0)
  BY <1>1, <1>2, StateRemoved DEF Inv
<1>5. ASSUME NEW q \in Platforms, q \notin unheld PROVE Sound(q)'
  <2>1. Sound(q)
    BY <1>5 DEF Inv
  <2>2. CASE q # p
    <3>1. Cardinality(StatesOf(q)') = Cardinality(StatesOf(q))
      BY <1>4, <2>2, StatesFinite
    <3> QED
      BY <1>1, <1>2, <2>1, <2>2, <3>1, UnlockOthers, SoundSame DEF Inv
  <2>3. CASE q = p
    <3>1. locks[p] \in Int /\ lost[p] \in Nat /\ locks'[p] >= 0
      BY <2>1, <2>3 DEF Inv, HolderTypes, Sound
    <3>2. Holders(p)' = Holders(p) - 1
      BY <1>1, <1>4, <3>1, StatesFinite DEF Holders
    <3> QED
      BY <1>1, <1>2, <1>3, <2>1, <2>3, <3>1, <3>2, SoundLess DEF Inv
  <2> QED
    BY <2>2, <2>3
<1> QED
  BY <1>3, <1>5 DEF Inv

\* A state on a platform that is not there means that the client unlocked the
\* platform too often.
LEMMA StateOfGone ==
    ASSUME Inv, NEW s \in States, state[s] # NULL, life[state[s]] # "live"
    PROVE  state[s] \in unheld
<1> SUFFICES ASSUME state[s] \notin unheld PROVE FALSE
  OBVIOUS
<1>1. state[s] \in Platforms /\ Sound(state[s])
  BY DEF Inv, HolderTypes
<1>2. Holders(state[s]) > 0 /\ Holders(state[s]) = 0
  BY <1>1, StateHolds DEF Inv, Sound
<1> QED
  BY <1>2

\* The calls that are answered or refused change nothing.
LEMMA Uneventful ==
    ASSUME NEW p \in Platforms, SysNeutral(p) \/ SysUnsupported(p)
    PROVE  /\ Calls(p) /\ Quiet
           /\ UNCHANGED <<halted, closed>>
           /\ reply' \in BOOLEAN
<1>1. Answered(p) \/ Refused(p)
  BY DEF SysNeutral, SysUnsupported, SysExit, SysGetpid, SysGetuid, SysTimes,
         SysGetgid, SysGeteuid, SysGetegid, SysPersonality, SysWaitpidToOldstat,
         SysStimeToPipe, SysAcctToIoctl, SysFcntlToLstat, SysOldunameToSysfs,
         SysGetdentsToLstat64, SysLchown32ToFcntl64, SysOther
<1> QED
  BY <1>1 DEF Answered, Refused

\* No system call takes or gives back a platform.
LEMMA SyscallKeeps ==
    ASSUME Inv, NEW p \in Platforms, Syscall(p)
    PROVE  Inv'
<1>1. /\ UNCHANGED <<life, usage, state, sim, locks, unheld, lost, used>>
      /\ halted' # halted => halted' \in {"exit", "abort"}
  BY Uneventful DEF Syscall, SysOpen, SysBrk, SysRead, SysWrite,
         SysClose, SysLseek, SysFstat, SysFstat64, SysLlseek, OnFile, BadFd,
         Quiet, holders
<1>2. HolderTypes' /\ (halted' = "freed" => unheld' # {})
  BY <1>1 DEF Inv, HolderTypes
<1> QED
  BY <1>1, <1>2, NoneChanges

-----------------------------------------------------------------------------
LEMMA InitHeld == Init => Inv
<1> SUFFICES ASSUME Init PROVE Inv
  OBVIOUS
<1>1. HolderTypes
  BY DEF Init, HolderTypes
<1>2. \A q \in Platforms : Cardinality(StatesOf(q)) = 0
  <2>1. \A q \in Platforms : StatesOf(q) = {}
    BY PlatformAssumption DEF Init, StatesOf
  <2> QED
    BY <2>1, FS_EmptySet
<1>3. \A q \in Platforms : Sound(q)
  BY <1>2 DEF Init, Sound, Holders
<1> QED
  BY <1>1, <1>3 DEF Inv, Init

LEMMA NextHeld == Inv /\ [Next]_vars => Inv'
<1> SUFFICES ASSUME Inv, [Next]_vars PROVE Inv'
  OBVIOUS
<1>1. CASE UNCHANGED vars
  <2>1. HolderTypes' /\ (halted' = "freed" => unheld' # {})
    BY <1>1 DEF vars, Inv, HolderTypes
  <2> QED
    BY <1>1, <2>1, NoneChanges DEF vars
<1>2. ASSUME NEW p \in Platforms, NewPlatform(p) PROVE Inv'
  BY <1>2, NewPlatformKeeps
<1>3. ASSUME NEW p \in Platforms, LockPlatform(p) PROVE Inv'
  BY <1>3, LockPlatformKeeps
<1>4. ASSUME NEW p \in Platforms, UnlockPlatform(p) PROVE Inv'
  BY <1>4, UnlockPlatformKeeps
<1>5. ASSUME NEW p \in Platforms, NEW e \in Ends, LoadPlatform(p, e) PROVE Inv'
  <2>1. UNCHANGED <<life, usage, state, sim, locks, unheld, lost, used, halted>>
    BY <1>5 DEF LoadPlatform, holders
  <2>2. HolderTypes' /\ (halted' = "freed" => unheld' # {})
    BY <2>1 DEF Inv, HolderTypes
  <2> QED
    BY <2>1, <2>2, NoneChanges
<1>6. ASSUME NEW p \in Platforms, NEW s \in States, NewState(p, s) PROVE Inv'
  BY <1>6, StateAddedKeeps DEF NewState, Live
<1>7. ASSUME NEW s \in States, DeleteState(s) PROVE Inv'
  <2>1. /\ state[s] # NULL /\ life[state[s]] = "live" /\ FreeState(s)
        /\ sim' = sim /\ UNCHANGED <<locks, unheld, lost, halted>>
    BY <1>7 DEF DeleteState, Running
  <2> QED
    BY <2>1, FreeStateKeeps DEF Inv, HolderTypes
<1>8. ASSUME NEW s \in States, NEW t \in States, CopyState(s, t) PROVE Inv'
  <2>1. state[s] \in Platforms
    BY <1>8 DEF CopyState, Running, Inv, HolderTypes
  <2> QED
    BY <1>8, <2>1, StateAddedKeeps DEF CopyState, Running
<1>9. ASSUME NEW s \in States, NEW t \in States, ForkState(s, t) PROVE Inv'
  <2>1. state[s] \in Platforms
    BY <1>9 DEF ForkState, Running, Inv, HolderTypes
  <2>2. CASE state' = [state EXCEPT ![t] = state[s]] /\ UNCHANGED lost
    BY <1>9, <2>1, <2>2, StateAddedKeeps DEF ForkState, Running
  <2>3. CASE lost' = [lost EXCEPT ![state[s]] = @ + 1] /\ UNCHANGED state
    BY <1>9, <2>1, <2>3, StateLostKeeps DEF ForkState, Running
  <2> QED
    BY <1>9, <2>2, <2>3 DEF ForkState
<1>10. ASSUME NEW m \in Sims, NEW s \in States, NewSim(m, s) PROVE Inv'
  <2>1. /\ UNCHANGED <<life, usage, state, locks, unheld, lost, used, halted>>
        /\ sim' \in [Sims -> States \cup {NULL}]
    BY <1>10 DEF NewSim, Inv, HolderTypes
  <2>2. HolderTypes' /\ (halted' = "freed" => unheld' # {})
    BY <2>1 DEF Inv, HolderTypes
  <2> QED
    BY <2>1, <2>2, NoneChanges
<1>11. ASSUME NEW m \in Sims, DeleteSim(m) PROVE Inv'
  <2>1. /\ sim[m] \in States /\ state[sim[m]] # NULL
        /\ life[state[sim[m]]] = "live" /\ FreeState(sim[m])
        /\ sim' = [sim EXCEPT ![m] = NULL]
        /\ UNCHANGED <<locks, unheld, lost, halted>>
    BY <1>11 DEF DeleteSim, Running, Inv, HolderTypes
  <2> QED
    BY <2>1, FreeStateKeeps DEF Inv, HolderTypes
<1>12. ASSUME NEW p \in Platforms, Syscall(p) PROVE Inv'
  BY <1>12, SyscallKeeps
<1>13. ASSUME NEW p \in Platforms, UnlockFreed(p) PROVE Inv'
  <2>1. /\ UNCHANGED <<life, usage, state, sim, locks, lost, used>>
        /\ unheld' = unheld \cup {p}
    BY <1>13 DEF UnlockFreed
  <2>2. HolderTypes' /\ unheld' # {}
    BY <2>1 DEF Inv, HolderTypes
  <2> QED
    BY <2>1, <2>2, NoneChanges
<1>14. ASSUME NEW s \in States, UseFreed(s) PROVE Inv'
  <2>1. /\ UNCHANGED <<life, usage, state, sim, locks, unheld, lost, used>>
        /\ state[s] # NULL /\ life[state[s]] # "live"
    BY <1>14 DEF UseFreed, Running, holders
  <2>2. HolderTypes' /\ unheld' # {}
    BY <2>1, StateOfGone DEF Inv, HolderTypes
  <2> QED
    BY <2>1, <2>2, NoneChanges
<1> QED
  BY <1>1, <1>2, <1>3, <1>4, <1>5, <1>6, <1>7, <1>8, <1>9, <1>10, <1>11, <1>12,
     <1>13, <1>14
     DEF Next, Client

\* Whatever the order of locks, unlocks, states and simulators: no state is left
\* on a freed platform, and no platform stays that nobody holds, unless the
\* client unlocked that platform more often than it had locked it.
THEOREM HeldAlways == Spec => []Held
<1>1. Inv => Held
  <2> SUFFICES ASSUME Inv PROVE Held
    OBVIOUS
  <2>1. StateHasPlatform
    BY StateOfGone DEF StateHasPlatform
  <2>2. UsageCounts /\ Reclaimed
    BY DEF Inv, HolderTypes, Sound, Holders, UsageCounts, Reclaimed
  <2> QED
    BY <2>1, <2>2 DEF Held, Inv
<1> QED
  BY <1>1, InitHeld, NextHeld, PTL DEF Spec

-----------------------------------------------------------------------------
(* The break *)

\* A page boundary above an address is not below it.
LEMMA PageUpAbove ==
    ASSUME NEW a \in Nat
    PROVE  PageUp(a) \in Nat /\ a <= PageUp(a)
<1> DEFINE n == a + PageSize - 1
           q == n \div PageSize
<1>1. n \in Nat /\ PageSize \in Nat \ {0}
  BY PlatformAssumption
<1>2. q \in Nat
  BY <1>1
<1>3. n <= q * PageSize + PageSize - 1
  BY <1>1, SMTT(30)
<1>4. q * PageSize \in Nat
  BY <1>1, <1>2
<1> HIDE DEF q
<1>5. a <= q * PageSize
  BY <1>1, <1>3, <1>4
<1> QED
  BY <1>4, <1>5 DEF PageUp, q

\* A platform that is not there has no program.
BreakInv ==
    /\ brk \in [Platforms -> Nat]
    /\ image \in [Platforms -> Nat]
    /\ BreakAboveImage
    /\ \A p \in Platforms : life[p] # "live" => image[p] = 0

LEMMA InitBreak == Init => BreakInv
BY DEF Init, BreakInv, BreakAboveImage

\* The last user takes the program with the platform.
LEMMA UnlockBreak ==
    ASSUME BreakInv, HolderTypes, NEW p \in Platforms, Unlock(p)
    PROVE  BreakInv'
<1>1. CASE usage[p] = 1
  BY <1>1 DEF Unlock, Forget, HolderTypes, BreakInv, BreakAboveImage
<1>2. CASE usage[p] # 1
  BY <1>2 DEF Unlock, break, BreakInv, BreakAboveImage
<1> QED
  BY <1>1, <1>2

LEMMA SyscallBreak ==
    ASSUME BreakInv, NEW p \in Platforms, Syscall(p)
    PROVE  BreakInv'
<1>1. life' = life /\ image' = image
  BY Uneventful DEF Syscall, SysOpen, SysBrk, SysRead, SysWrite,
         SysClose, SysLseek, SysFstat, SysFstat64, SysLlseek, OnFile, BadFd,
         Quiet, break
<1>2. brk' = brk \/ \E a \in Asked : a > brk[p] /\ brk' = [brk EXCEPT ![p] = a]
  BY Uneventful DEF Syscall, SysOpen, SysBrk, SysRead, SysWrite,
         SysClose, SysLseek, SysFstat, SysFstat64, SysLlseek, OnFile, BadFd,
         Quiet, break
<1>3. CASE brk' = brk
  BY <1>1, <1>3 DEF BreakInv, BreakAboveImage
<1>4. ASSUME NEW a \in Asked, a > brk[p], brk' = [brk EXCEPT ![p] = a]
      PROVE  BreakInv'
  <2>1. a \in Nat
    BY PlatformAssumption
  <2> QED
    BY <1>1, <1>4, <2>1 DEF BreakInv, BreakAboveImage
<1> QED
  BY <1>2, <1>3, <1>4

LEMMA NextBreak == Inv /\ BreakInv /\ [Next]_vars => BreakInv'
<1> SUFFICES ASSUME Inv, BreakInv, [Next]_vars PROVE BreakInv'
  OBVIOUS
<1>1. CASE UNCHANGED <<life, brk, image>>
  BY <1>1 DEF BreakInv, BreakAboveImage
<1>2. ASSUME NEW p \in Platforms, NewPlatform(p) PROVE BreakInv'
  <2>1. /\ life[p] = "none" /\ life' = [life EXCEPT ![p] = "live"]
        /\ brk' = [brk EXCEPT ![p] = 0] /\ image' = image
    BY <1>2 DEF NewPlatform, SyscallInit
  <2> QED
    BY <2>1 DEF BreakInv, BreakAboveImage, Inv, HolderTypes
<1>3. ASSUME NEW p \in Platforms, NEW e \in Ends, LoadPlatform(p, e)
      PROVE  BreakInv'
  <2>1. PageUp(e) \in Nat /\ e <= PageUp(e) /\ e \in Nat
    BY PageUpAbove, PlatformAssumption
  <2>2. CASE SetBrk(p, e) /\ image' = [image EXCEPT ![p] = e]
    BY <1>3, <2>1, <2>2 DEF LoadPlatform, SetBrk, Live, BreakInv, BreakAboveImage
  <2>3. CASE UNCHANGED break
    BY <1>3, <2>3, <1>1 DEF LoadPlatform, break
  <2> QED
    BY <1>3, <2>2, <2>3 DEF LoadPlatform
<1>4. ASSUME NEW p \in Platforms, UnlockPlatform(p) PROVE BreakInv'
  BY <1>4, UnlockBreak DEF UnlockPlatform, Inv
<1>5. ASSUME NEW s \in States, DeleteState(s) PROVE BreakInv'
  BY <1>5, UnlockBreak DEF DeleteState, FreeState, Running, Inv, HolderTypes
<1>6. ASSUME NEW m \in Sims, DeleteSim(m) PROVE BreakInv'
  <2>1. sim[m] \in States /\ Unlock(state[sim[m]]) /\ state[sim[m]] \in Platforms
    BY <1>6 DEF DeleteSim, FreeState, Running, Inv, HolderTypes
  <2> QED
    BY <2>1, UnlockBreak DEF Inv
<1>7. ASSUME NEW p \in Platforms, Syscall(p) PROVE BreakInv'
  BY <1>7, SyscallBreak
<1> QED
  BY <1>1, <1>2, <1>3, <1>4, <1>5, <1>6, <1>7
     DEF Next, Client, vars, LockPlatform, UnlockFreed, NewState, CopyState, ForkState,
         UseFreed, NewSim, break

\* The break of a program stays above it, whatever the states on its platform
\* ask for and however often programs are loaded.
THEOREM BreakAlways == Spec => []BreakAboveImage
<1>1. Inv /\ BreakInv => BreakAboveImage
  BY DEF BreakInv
<1> QED
  BY <1>1, InitHeld, NextHeld, InitBreak, NextBreak, PTL DEF Spec

-----------------------------------------------------------------------------
(* Calls that fail *)

\* A call that reports a failure changed no file, no break and no user.
THEOREM FailuresHarmless == Spec => FailedIsHarmless
<1> DEFINE Kept == ~reply' => UNCHANGED <<fds, own, brk, usage, life, state, sim>>
<1>1. [Next]_vars => [Kept]_vars
  <2> SUFFICES ASSUME Next, ~reply'
      PROVE UNCHANGED <<fds, own, brk, usage, life, state, sim>>
    OBVIOUS
  <2>1. ASSUME NEW p \in Platforms, Syscall(p)
        PROVE  UNCHANGED <<fds, own, brk, usage, life, state, sim>>
    BY <2>1, Uneventful DEF Syscall, SysOpen, SysBrk, SysRead,
                SysWrite, SysClose, SysLseek, SysFstat, SysFstat64, SysLlseek,
                OnFile, BadFd, Quiet, holders, break, files
  <2>2. ASSUME NEW p \in Platforms, NEW e \in Ends, LoadPlatform(p, e)
        PROVE  UNCHANGED <<fds, own, brk, usage, life, state, sim>>
    BY <2>2 DEF LoadPlatform, holders, break, files
  <2>3. ASSUME NEW m \in Sims, NEW s \in States, NewSim(m, s)
        PROVE  UNCHANGED <<fds, own, brk, usage, life, state, sim>>
    BY <2>3 DEF NewSim, break, files
  <2> QED
    BY <2>1, <2>2, <2>3
       DEF Next, Client, NewPlatform, LockPlatform, UnlockPlatform, UnlockFreed,
           NewState, DeleteState, CopyState, ForkState, DeleteSim, UseFreed, holders,
           break, files
<1> QED
  BY <1>1, PTL DEF Spec, FailedIsHarmless

-----------------------------------------------------------------------------
(* Descriptors *)

\* A set of indexes has a least one.
LEMMA Lowest ==
    ASSUME NEW S \in SUBSET Nat, S # {}
    PROVE  LowestOf(S) \in S
<1> DEFINE R == {ss \in Nat \X Nat : ss[1] < ss[2]}
<1>1. IsWellFoundedOn(R, Nat)
  BY NatLessThanWellFounded DEF OpToRel
<1> HIDE DEF R
<1>2. PICK x \in S : \A y \in S : ~ (<<y, x>> \in R)
  BY <1>1, WFMin
<1>3. \A y \in S : x <= y
  <2> SUFFICES ASSUME NEW y \in S PROVE ~ (y < x)
    OBVIOUS
  <2>1. y < x => <<y, x>> \in R
    BY DEF R
  <2> QED
    BY <1>2, <2>1
<1> QED
  BY <1>3 DEF LowestOf

\* The elements of a set of descriptors are numbered by how many are below.
LEMMA Numbered ==
    ASSUME NEW S \in SUBSET HostFd
    PROVE  LET Rank(h) == Cardinality({k \in S : k < h}) IN
           /\ Cardinality(S) \in Nat
           /\ \A h \in S : Rank(h) \in 0..Cardinality(S) - 1
           /\ \A h, g \in S : Rank(h) = Rank(g) => h = g
           /\ \A i \in 0..Cardinality(S) - 1 : \E h \in S : Rank(h) = i
<1> DEFINE n == Cardinality(S)
           Below(h) == {k \in S : k < h}
           Rank(h) == Cardinality(Below(h))
           rank == [h \in S |-> Rank(h)]
<1>1. IsFiniteSet(S) /\ n \in Nat
  <2>1. IsFiniteSet(HostFd)
    BY PlatformAssumption, FS_Interval DEF HostFd
  <2> QED
    BY <2>1, FS_Subset, FS_CardinalityType
<1>2. \A h \in S : h \in Int
  BY PlatformAssumption DEF HostFd
<1>3. \A h \in S : IsFiniteSet(Below(h)) /\ Rank(h) \in Nat
  <2> SUFFICES ASSUME NEW h \in S
      PROVE IsFiniteSet(Below(h)) /\ Rank(h) \in Nat
    OBVIOUS
  <2>1. Below(h) \in SUBSET S
    OBVIOUS
  <2> HIDE DEF Below
  <2> QED
    BY <1>1, <2>1, FS_Subset, FS_CardinalityType
<1>4. ASSUME NEW h \in S, NEW g \in S, h < g PROVE Rank(h) < Rank(g)
  <2>1. Below(h) \in SUBSET Below(g) /\ Below(h) # Below(g)
    BY <1>2, <1>4
  <2> HIDE DEF Below
  <2>2. Rank(h) <= Rank(g) /\ Rank(h) # Rank(g)
    BY <1>3, <2>1, FS_Subset
  <2> QED
    BY <1>3, <2>2
<1>5. \A h \in S : Rank(h) \in 0..n - 1
  <2> SUFFICES ASSUME NEW h \in S PROVE Rank(h) \in 0..n - 1
    OBVIOUS
  <2>1. Below(h) \in SUBSET S /\ Below(h) # S
    BY <1>2
  <2> HIDE DEF Below
  <2>2. Rank(h) <= n /\ Rank(h) # n
    BY <1>1, <2>1, FS_Subset
  <2> QED
    BY <1>1, <1>3, <2>2
<1>6. \A h, g \in S : Rank(h) = Rank(g) => h = g
  <2> SUFFICES ASSUME NEW h \in S, NEW g \in S, h # g PROVE Rank(h) # Rank(g)
    OBVIOUS
  <2>1. h < g \/ g < h
    BY <1>2
  <2>2. Rank(h) \in Nat /\ Rank(g) \in Nat
    BY <1>3
  <2> HIDE DEF Rank
  <2> QED
    BY <1>4, <2>1, <2>2
<1>7. rank \in Injection(S, 0..n - 1)
  <2> HIDE DEF Rank, n
  <2>1. rank \in [S -> 0..n - 1]
    BY <1>5
  <2>2. \A h, g \in S : rank[h] = rank[g] => h = g
    BY <1>6
  <2> HIDE DEF rank
  <2> QED
    BY <2>1, <2>2, Fun_IsInj
<1>8. IsFiniteSet(0..n - 1) /\ Cardinality(0..n - 1) = n
  BY <1>1, FS_Interval
<1>9. rank \in Surjection(S, 0..n - 1)
  BY <1>7, <1>8, FS_Injection
<1>10. \A i \in 0..n - 1 : \E h \in S : Rank(h) = i
  <2> HIDE DEF rank, n
  <2>1. \A i \in 0..n - 1 : \E h \in S : rank[h] = i
    BY <1>9 DEF Surjection
  <2> USE DEF rank
  <2> HIDE DEF Rank
  <2> QED
    BY <2>1
<1> QED
  BY <1>1, <1>5, <1>6, <1>10

\* Types of the tables, and what is claimed of them.
FileTypes ==
    /\ fds \in [Platforms -> [Slot -> HostFd \cup {NONE}]]
    /\ own \in [HostFd -> Platforms \cup {NULL}]
    /\ closed \in Nat

OpenIsListed ==
    \A h \in HostFd : own[h] # NULL =>
        life[own[h]] = "live" /\ \E i \in Slot : fds[own[h]][i] = h

ListedIsOpen ==
    closed = 0 => \A p \in Platforms : life[p] = "live" =>
        \A i \in Slot : fds[p][i] # NONE =>
           /\ own[fds[p][i]] = p
           /\ \A j \in Slot \ {i} : fds[p][j] # fds[p][i]

FileInv == FileTypes /\ OpenIsListed /\ ListedIsOpen

LEMMA FileInvIsKept == FileInv => FilesKept
BY DEF FileInv, OpenIsListed, ListedIsOpen, FilesKept

LEMMA InitFiles == Init => FileInv
BY PlatformAssumption
   DEF Init, FileInv, FileTypes, OpenIsListed, ListedIsOpen

\* A step that opens and closes nothing.
LEMMA FilesSame ==
    ASSUME FileInv, UNCHANGED <<files, life>>
    PROVE  FileInv'
BY DEF FileInv, FileTypes, OpenIsListed, ListedIsOpen, files

\* The standard descriptors of a new platform are its own.
LEMMA NewPlatformFiles ==
    ASSUME Inv, FileInv, NEW p \in Platforms, NewPlatform(p)
    PROVE  FileInv'
<1> DEFINE Rank(S, h) == Cardinality({k \in S : k < h})
<1>1. life[p] = "none" /\ life' = [life EXCEPT ![p] = "live"] /\ closed' = closed
  BY DEF NewPlatform
<1>2. PICK S \in SUBSET Free :
        /\ Cardinality(S) <= 3
        /\ own' = [h \in HostFd |-> IF h \in S THEN p ELSE own[h]]
        /\ fds' = [fds EXCEPT ![p] = [i \in Slot |->
                     IF i >= Cardinality(S) THEN NONE
                     ELSE CHOOSE h \in S : Rank(S, h) = i]]
  BY DEF NewPlatform, SyscallInit
<1> DEFINE n == Cardinality(S)
           new == fds'[p]
<1>3. S \subseteq HostFd /\ \A h \in S : own[h] = NULL
  BY <1>2 DEF Free
<1>4. /\ n \in Nat
      /\ \A h \in S : Rank(S, h) \in 0..n - 1
      /\ \A h, g \in S : Rank(S, h) = Rank(S, g) => h = g
      /\ \A i \in 0..n - 1 : \E h \in S : Rank(S, h) = i
  BY <1>3, Numbered
<1> HIDE DEF Rank
<1>5. /\ \A i \in Slot : i >= n => new[i] = NONE
      /\ \A i \in Slot : i < n => new[i] \in S /\ Rank(S, new[i]) = i
  <2>1. new = [i \in Slot |-> IF i >= n THEN NONE
                             ELSE CHOOSE h \in S : Rank(S, h) = i]
    BY <1>2 DEF FileInv, FileTypes
  <2>2. \A i \in Slot : i >= n => new[i] = NONE
    BY <2>1
  <2>3. ASSUME NEW i \in Slot, i < n
        PROVE  new[i] \in S /\ Rank(S, new[i]) = i
    <3>1. i \in 0..n - 1
      BY <1>4, <2>3, PlatformAssumption DEF Slot
    <3>2. \E h \in S : Rank(S, h) = i
      BY <1>4, <3>1
    <3>3. new[i] = CHOOSE h \in S : Rank(S, h) = i
      <4>1. ~(i >= n)
        BY <1>4, <2>3, PlatformAssumption DEF Slot
      <4> HIDE DEF n
      <4> QED
        BY <2>1, <4>1
    <3> QED
      BY <3>2, <3>3
  <2> QED
    BY <2>2, <2>3
<1>6. \A q \in Platforms : q # p => fds'[q] = fds[q] /\ life'[q] = life[q]
  BY <1>1, <1>2 DEF FileInv, FileTypes, Inv, HolderTypes
<1>7. \A i \in Slot : i \in Int /\ (i >= n \/ i < n)
  BY <1>4, PlatformAssumption DEF Slot
<1>8. /\ \A h \in S : own'[h] = p
      /\ \A h \in HostFd \ S : own'[h] = own[h]
  BY <1>2, <1>3
<1>9. life'[p] = "live"
  BY <1>1 DEF Inv, HolderTypes
<1> HIDE DEF n, new
<1>10. FileTypes'
  <2>1. new \in [Slot -> HostFd \cup {NONE}]
    <3>1. \A i \in Slot : new[i] \in HostFd \cup {NONE}
      BY <1>3, <1>5, <1>7
    <3> QED
      BY <1>2, <3>1 DEF new, FileInv, FileTypes
  <2>2. fds' \in [Platforms -> [Slot -> HostFd \cup {NONE}]]
    BY <1>2, <2>1 DEF new, FileInv, FileTypes
  <2>3. own' \in [HostFd -> Platforms \cup {NULL}]
    BY <1>2 DEF FileInv, FileTypes
  <2> QED
    BY <1>1, <2>2, <2>3 DEF FileInv, FileTypes
<1>11. OpenIsListed'
  <2> SUFFICES ASSUME NEW h \in HostFd, own'[h] # NULL
      PROVE life'[own'[h]] = "live" /\ \E i \in Slot : fds'[own'[h]][i] = h
    BY DEF OpenIsListed
  <2>1. CASE h \in S
    <3> DEFINE i == Rank(S, h)
    <3>1. i \in Slot /\ i < n
      BY <1>2, <1>4, <2>1, PlatformAssumption DEF Slot, n
    <3>2. new[i] = h
      BY <1>4, <1>5, <2>1, <3>1
    <3> QED
      BY <1>8, <1>9, <2>1, <3>1, <3>2 DEF new
  <2>2. CASE h \notin S
    <3>1. own'[h] = own[h] /\ own[h] \in Platforms /\ life[own[h]] = "live"
      BY <1>8, <2>2 DEF FileInv, FileTypes, OpenIsListed
    <3>2. own[h] # p
      BY <1>1, <3>1
    <3> QED
      BY <1>6, <3>1, <3>2 DEF FileInv, OpenIsListed
  <2> QED
    BY <2>1, <2>2
<1>12. ListedIsOpen'
  <2> SUFFICES ASSUME closed = 0, NEW q \in Platforms, life'[q] = "live",
                      NEW i \in Slot, fds'[q][i] # NONE
      PROVE /\ own'[fds'[q][i]] = q
            /\ \A j \in Slot \ {i} : fds'[q][j] # fds'[q][i]
    BY <1>1 DEF ListedIsOpen
  <2>1. CASE q = p
    <3>1. i < n /\ new[i] \in S /\ Rank(S, new[i]) = i /\ new[i] \in HostFd
      BY <1>3, <1>5, <1>7, <2>1 DEF new
    <3>2. ASSUME NEW j \in Slot \ {i} PROVE new[j] # new[i]
      <4>1. CASE j >= n
        BY <1>5, <3>1, <4>1, PlatformAssumption DEF HostFd, NONE
      <4>2. CASE j < n
        BY <1>5, <3>1, <4>2
      <4> QED
        BY <1>7, <4>1, <4>2
    <3> QED
      BY <1>8, <2>1, <3>1, <3>2 DEF new
  <2>2. CASE q # p
    <3>1. fds'[q] = fds[q] /\ life[q] = "live"
      BY <1>6, <2>2
    <3>2. fds[q][i] \in HostFd /\ fds[q][i] # NONE
      BY <3>1 DEF FileInv, FileTypes
    <3>3. /\ own[fds[q][i]] = q
          /\ \A j \in Slot \ {i} : fds[q][j] # fds[q][i]
      BY <3>1, <3>2 DEF FileInv, ListedIsOpen
    <3>4. fds[q][i] \notin S
      BY <1>3, <3>3, PlatformAssumption
    <3> QED
      BY <1>8, <3>1, <3>2, <3>3, <3>4
  <2> QED
    BY <2>1, <2>2
<1> QED
  BY <1>10, <1>11, <1>12 DEF FileInv

\* The last user of a platform closes its files and no file of another.
LEMMA UnlockFiles ==
    ASSUME Inv, FileInv, NEW p \in Platforms, life[p] = "live", Unlock(p),
           closed' = closed
    PROVE  FileInv'
<1>1. CASE usage[p] # 1
  BY <1>1, FilesSame DEF Unlock, files
<1>2. CASE usage[p] = 1
  <2>1. /\ life' = [life EXCEPT ![p] = "freed"]
        /\ fds' = [fds EXCEPT ![p] = [i \in Slot |-> NONE]]
        /\ own' = [h \in HostFd |->
                     IF \E i \in Slot : fds[p][i] = h THEN NULL ELSE own[h]]
    BY <1>2 DEF Unlock, Forget, SyscallDestroy
  <2>2. FileTypes'
    BY <2>1 DEF FileInv, FileTypes
  <2>3. \A q \in Platforms : q # p => fds'[q] = fds[q] /\ life'[q] = life[q]
    BY <2>1 DEF FileInv, FileTypes, Inv, HolderTypes
  <2>4. OpenIsListed'
    <3> SUFFICES ASSUME NEW h \in HostFd, own'[h] # NULL
        PROVE life'[own'[h]] = "live" /\ \E i \in Slot : fds'[own'[h]][i] = h
      BY DEF OpenIsListed
    <3>1. own'[h] = own[h] /\ ~ \E i \in Slot : fds[p][i] = h
      BY <2>1
    <3>2. /\ own[h] \in Platforms /\ life[own[h]] = "live"
          /\ \E i \in Slot : fds[own[h]][i] = h
      BY <3>1 DEF FileInv, FileTypes, OpenIsListed
    <3>3. own[h] # p
      BY <3>1, <3>2
    <3> QED
      BY <2>3, <3>1, <3>2, <3>3
  <2>5. ListedIsOpen'
    <3> SUFFICES ASSUME closed = 0, NEW q \in Platforms, life'[q] = "live",
                        NEW i \in Slot, fds'[q][i] # NONE
        PROVE /\ own'[fds'[q][i]] = q
              /\ \A j \in Slot \ {i} : fds'[q][j] # fds'[q][i]
      BY DEF ListedIsOpen
    <3>1. q # p
      BY <2>1 DEF Inv, HolderTypes
    <3>2. fds'[q] = fds[q] /\ life[q] = "live"
      BY <2>3, <3>1
    <3> DEFINE h == fds[q][i]
    <3>3. h \in HostFd
      BY <3>2 DEF FileInv, FileTypes
    <3>4. /\ own[h] = q
          /\ \A j \in Slot \ {i} : fds[q][j] # h
      BY <3>2 DEF FileInv, ListedIsOpen
    <3>5. ~ \E j \in Slot : fds[p][j] = h
      <4> SUFFICES ASSUME NEW j \in Slot, fds[p][j] = h PROVE FALSE
        OBVIOUS
      <4>2. fds[p][j] # NONE
        BY <3>3, PlatformAssumption DEF HostFd, NONE
      <4>3. own[h] = p
        BY <4>2 DEF FileInv, ListedIsOpen
      <4> QED
        BY <3>1, <3>4, <4>3
    <3> QED
      BY <2>1, <3>2, <3>3, <3>4, <3>5
  <2> QED
    BY <2>2, <2>4, <2>5 DEF FileInv
<1> QED
  BY <1>1, <1>2

\* The descriptor given is one nobody has, the entry one that leads nowhere.
LEMMA OpenFiles ==
    ASSUME Inv, FileInv, NEW p \in Platforms, SysOpen(p), Live(p)
    PROVE  FileInv'
<1>1. life' = life /\ closed' = closed /\ life[p] = "live"
  BY DEF SysOpen, Live
<1>2. CASE UNCHANGED <<fds, own>>
  BY <1>1, <1>2, FilesSame DEF files
<1>3. CASE /\ Given # NONE /\ FreeSlots(fds[p]) # {}
           /\ own' = [own EXCEPT ![Given] = p]
           /\ fds' = [fds EXCEPT ![p] = FdNew(@, Given)]
  <2> DEFINE h == Given
             k == LowestOf(FreeSlots(fds[p]))
  <2>1. h \in HostFd /\ own[h] = NULL
    <3>1. Free # {} /\ Free \in SUBSET Nat /\ h = LowestOf(Free)
      BY <1>3, PlatformAssumption DEF Given, Free, HostFd
    <3> QED
      BY <3>1, Lowest DEF Free
  <2>2. k \in Slot /\ fds[p][k] = NONE
    <3>1. FreeSlots(fds[p]) \in SUBSET Nat
      BY PlatformAssumption DEF FreeSlots, Slot
    <3> QED
      BY <1>3, <3>1, Lowest DEF FreeSlots
  <2>3. fds' = [fds EXCEPT ![p] = [@ EXCEPT ![k] = h]]
    BY <1>3 DEF FdNew
  <2> HIDE DEF h, k
  <2>4. own' = [own EXCEPT ![h] = p]
    BY <1>3 DEF h
  <2>5. h # NONE
    BY <1>3 DEF h
  <2>6. FileTypes'
    BY <1>1, <2>1, <2>2, <2>3, <2>4 DEF FileInv, FileTypes
  <2>7. /\ fds'[p][k] = h
        /\ \A q \in Platforms, i \in Slot :
             q # p \/ i # k => fds'[q][i] = fds[q][i]
    BY <2>2, <2>3 DEF FileInv, FileTypes
  <2>8. own'[h] = p /\ \A g \in HostFd : g # h => own'[g] = own[g]
    BY <2>1, <2>4 DEF FileInv, FileTypes
  <2>9. OpenIsListed'
    <3> SUFFICES ASSUME NEW g \in HostFd, own'[g] # NULL
        PROVE life'[own'[g]] = "live" /\ \E i \in Slot : fds'[own'[g]][i] = g
      BY DEF OpenIsListed
    <3>1. CASE g = h
      BY <1>1, <2>2, <2>7, <2>8, <3>1
    <3>2. CASE g # h
      <4>1. own'[g] = own[g] /\ own[g] \in Platforms /\ life[own[g]] = "live"
        BY <2>8, <3>2 DEF FileInv, FileTypes, OpenIsListed
      <4>2. PICK i \in Slot : fds[own[g]][i] = g
        BY <4>1 DEF FileInv, OpenIsListed
      <4>3. g # NONE
        BY PlatformAssumption DEF HostFd, NONE
      <4>4. fds'[own[g]][i] = g
        BY <2>2, <2>7, <4>1, <4>2, <4>3
      <4> QED
        BY <1>1, <4>1, <4>4
    <3> QED
      BY <3>1, <3>2
  <2>10. ListedIsOpen'
    <3> SUFFICES ASSUME closed = 0, NEW q \in Platforms, life[q] = "live",
                        NEW i \in Slot, fds'[q][i] # NONE
        PROVE /\ own'[fds'[q][i]] = q
              /\ \A j \in Slot \ {i} : fds'[q][j] # fds'[q][i]
      BY <1>1 DEF ListedIsOpen
    <3>1. \A j \in Slot : fds[q][j] # NONE =>
            /\ fds[q][j] \in HostFd /\ own[fds[q][j]] = q /\ fds[q][j] # h
            /\ \A l \in Slot \ {j} : fds[q][l] # fds[q][j]
      BY <2>1, PlatformAssumption DEF FileInv, FileTypes, ListedIsOpen
    <3>2. CASE q = p /\ i = k
      <4>1. \A j \in Slot \ {i} : fds'[q][j] # h
        BY <2>5, <2>7, <3>1, <3>2
      <4> QED
        BY <2>7, <2>8, <3>2, <4>1
    <3>3. CASE q # p \/ i # k
      <4>1. fds'[q][i] = fds[q][i]
        BY <2>7, <3>3
      <4>2. own'[fds'[q][i]] = q
        BY <2>8, <3>1, <4>1
      <4>3. \A j \in Slot \ {i} : fds'[q][j] # fds'[q][i]
        BY <2>7, <3>1, <4>1
      <4> QED
        BY <4>2, <4>3
    <3> QED
      BY <3>2, <3>3
  <2> QED
    BY <2>6, <2>9, <2>10 DEF FileInv
<1> QED
  BY <1>2, <1>3 DEF SysOpen

\* What is closed is not open; after it entries may lead to other files.
LEMMA CloseFiles ==
    ASSUME FileInv, NEW p \in Platforms, NEW i \in Tried, SysClose(p, i)
    PROVE  FileInv'
<1>1. CASE UNCHANGED <<files, life>>
  BY <1>1, FilesSame
<1>2. CASE /\ closed' = closed + 1 /\ UNCHANGED <<fds, life>>
           /\ own' = own \/ own' = [own EXCEPT ![HostOf(p, i)] = NULL]
  <2>1. closed' # 0 /\ closed' \in Nat
    BY <1>2 DEF FileInv, FileTypes
  <2>2. \A h \in HostFd : own'[h] = own[h] \/ own'[h] = NULL
    BY <1>2 DEF FileInv, FileTypes
  <2>3. own' \in [HostFd -> Platforms \cup {NULL}]
    BY <1>2 DEF FileInv, FileTypes
  <2> QED
    BY <1>2, <2>1, <2>2, <2>3 DEF FileInv, FileTypes, OpenIsListed, ListedIsOpen
<1> QED
  BY <1>1, <1>2 DEF SysClose, BadFd, Quiet, files

LEMMA SyscallFiles ==
    ASSUME Inv, FileInv, NEW p \in Platforms, Syscall(p)
    PROVE  FileInv'
<1>1. CASE SysOpen(p)
  BY <1>1, OpenFiles DEF SysOpen, Calls
<1>2. ASSUME NEW i \in Tried, SysClose(p, i) PROVE FileInv'
  BY <1>2, CloseFiles
<1>3. CASE UNCHANGED <<files, life>>
  BY <1>3, FilesSame
<1> QED
  BY <1>1, <1>2, <1>3, Uneventful
     DEF Syscall, SysBrk, SysRead, SysWrite, SysLseek,
         SysFstat, SysFstat64, SysLlseek, OnFile, BadFd, Quiet, files

LEMMA NextFiles == Inv /\ FileInv /\ [Next]_vars => FileInv'
<1> SUFFICES ASSUME Inv, FileInv, [Next]_vars PROVE FileInv'
  OBVIOUS
<1>1. CASE UNCHANGED <<files, life>>
  BY <1>1, FilesSame
<1>2. ASSUME NEW p \in Platforms, NewPlatform(p) PROVE FileInv'
  BY <1>2, NewPlatformFiles
<1>3. ASSUME NEW p \in Platforms, UnlockPlatform(p) PROVE FileInv'
  BY <1>3, UnlockFiles DEF UnlockPlatform, Live
<1>4. ASSUME NEW s \in States, DeleteState(s) PROVE FileInv'
  <2>1. state[s] \in Platforms
    BY <1>4 DEF DeleteState, Running, Inv, HolderTypes
  <2> QED
    BY <1>4, <2>1, UnlockFiles DEF DeleteState, FreeState, Running
<1>5. ASSUME NEW m \in Sims, DeleteSim(m) PROVE FileInv'
  <2>1. state[sim[m]] \in Platforms
    BY <1>5 DEF DeleteSim, Running, Inv, HolderTypes
  <2> QED
    BY <1>5, <2>1, UnlockFiles DEF DeleteSim, FreeState, Running
<1>6. ASSUME NEW p \in Platforms, Syscall(p) PROVE FileInv'
  BY <1>6, SyscallFiles
<1> QED
  BY <1>1, <1>2, <1>3, <1>4, <1>5, <1>6
     DEF Next, Client, vars, files, LockPlatform, UnlockFreed, LoadPlatform, NewState,
         CopyState, ForkState, UseFreed, NewSim

\* What a platform opened is closed with it, and until a program calls close
\* its indexes lead to files of its own, each to another.
THEOREM FilesAlways == Spec => []FilesKept
<1>1. Inv /\ FileInv => FilesKept
  BY FileInvIsKept
<1> QED
  BY <1>1, InitHeld, NextHeld, InitFiles, NextFiles, PTL DEF Spec
=============================================================================
