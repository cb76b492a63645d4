-------------------------- MODULE GlissSimulator --------------------------
(***************************************************************************)
(* The simulator, lib/sim/sim.c, from its command line to its end, with    *)
(* what it makes of the program in the memory: the ELF loader, GlissLoader *)
(* here, and the environment of a Linux process, lib/linux_env.c.          *)
(*                                                                         *)
(* An instruction is its address, and executing it goes to any address of  *)
(* the code; Ident tells which instruction it is.  A character is a        *)
(* number, a string a sequence of them without its final 0.  A file of     *)
(* arguments is its lines and whether the last one is ended.  The file of  *)
(* profile is NULL when there is none, or the entries [id, count] it holds,*)
(* in order: <<>> when it holds at most its titles.  Counts saturate at    *)
(* Cap.                                                                    *)
(* The steps of main are those after which a failure ends the process,     *)
(* and the signals come between them.                                      *)
(*                                                                         *)
(* The traces, the statistics of time and the output of states are left    *)
(* out.                                                                    *)
(***************************************************************************)
EXTENDS GlissLoader

CONSTANTS
  Commands,   (* [program, app, table, argvFile, envpFile, environ, start,
                  exit, mode, profile, valid, timed] *)
  Code,       (* the addresses of the instructions *)
  Ident,      (* the identifier of each of them, among 1..IdentCount *)
  IdentCount, (* GLISS_INSTRUCTIONS_NB *)
  StackTop,   (* STACKADDR_DESCENDING_DEFAULT *)
  Cap         (* bound: the counts kept apart *)

H == 1        (* main opens one loader at a time *)
Idents == 1..IdentCount
Modes == {"fast", "step", "watch"}
Stages == {"over", "open", "exit", "argv", "envp", "close", "reopen", "load",
            "fill", "reclose", "state", "sim", "profile", "signals", "output",
            "run", "write", "leave"}

Character == 1..255
String == Seq(Character)
ProfileEntry == [id : Idents, count : 0..Cap]

(* Addresses take one byte of a word, and no profile is the null pointer. *)
ASSUME SimulatorAssumption ==
  /\ H \in Loaders /\ IdentCount \in Nat \ {0} /\ Cap \in Nat
  /\ Code \subseteq Addr \ {0} /\ Ident \in [Code -> Idents]
  /\ StackTop \in 0..Space /\ StackTop % 4 = 0 /\ Space <= 256
  /\ NULL # <<>> /\ NULL \notin [Idents -> ProfileEntry]
ASSUME CommandsAssumption ==
  \A c \in Commands :
    /\ c.program \in Files /\ c.mode \in Modes /\ c.valid \in {"none", "written", "refused"}
    /\ c.profile \in BOOLEAN /\ c.timed \in BOOLEAN
    /\ c.start \in Code \cup {NULL} /\ c.exit \in Code \cup {NULL}
    /\ c.program.entry \in Code
    /\ c.app \in String /\ c.table \in Seq(String) /\ c.environ \in Seq(String)
    /\ \A f \in {c.argvFile, c.envpFile} \ {NULL} : f.ended \in BOOLEAN /\ f.lines \in Seq(String)
    /\ c.profile \/ c.valid # "none" => c.mode = "watch"

VARIABLES
  stage,      (* the step main comes to; "over" when there is no process *)
  cmd,        (* the command *)
  argv,       (* options.argv and options.envp *)
  envp,
  env,        (* what stack_fill_env keeps: [sp, argc, argv, envp, brk] *)
  regs,       (* the registers of parameters: [sp, argc, argv, envp] *)
  exit,       (* addr_exit *)
  pc,         (* the program counter *)
  fetched,    (* the watching loop is between next_inst and step *)
  ended,      (* sim->ended *)
  alarm,      (* an alarm is to come *)
  profile,    (* the file of profile *)
  counts,     (* inst_stat *)
  begun,      (* history: the file of profile when the process began *)
  executed    (* history: the instructions executed *)

options == <<cmd, argv, envp>>
process == <<env, regs, exit>>
running == <<pc, fetched, ended>>
profiling == <<counts, executed>>
files == <<profile, begun>>
simulatorVars ==
  <<loaderVars, stage, options, process, running, alarm, profiling, files>>

At(s) == stage = s /\ ~stopped
Goto(s) == stage' = s
GiveUp == Goto("over")
Plus(n, m) == IF n + m > Cap THEN Cap ELSE n + m
Zero == [i \in Idents |-> 0]
Registers == [sp |-> 0, argc |-> 0, argv |-> 0, envp |-> 0]
Environment0 == [sp |-> 0, argc |-> 0, argv |-> 0, envp |-> 0, brk |-> 0]

-----------------------------------------------------------------------------
(* Nothing is left of a process but its files. *)
Cleared ==
  /\ heap' = {} /\ handle' = [h \in Loaders |-> NULL]
  /\ image' = [a \in Addr |-> 0] /\ loaded' = NULL /\ stopped' = FALSE
  /\ argv' = <<>> /\ envp' = <<>>
  /\ env' = Environment0 /\ regs' = Registers
  /\ exit' = 0 /\ pc' = 0 /\ fetched' = FALSE /\ ended' = FALSE /\ alarm' = FALSE
  /\ counts' = Zero /\ executed' = Zero
  /\ UNCHANGED config

(* A new process, with a new command. *)
Begin ==
  /\ stage = "over"
  /\ cmd' \in Commands /\ begun' = profile
  /\ Goto("open")
  /\ Cleared /\ UNCHANGED profile

Dies == GiveUp /\ Cleared /\ UNCHANGED <<cmd, files>>

(* gliss_loader_open, by main and by gliss_load_platform. *)
OpenProgram(from, to) ==
  /\ At(from)
  /\ Open32(H, cmd.program) \/ Open64(H, cmd.program) \/ OpenToy(H, cmd.program)
  /\ Goto(IF stopped' \/ handle'[H] = NULL THEN "over" ELSE to)
  /\ UNCHANGED <<options, process, running, alarm, profiling, files>>

CloseProgram(from, to) ==
  /\ At(from)
  /\ Close32(H) \/ Close64(H) \/ CloseToy(H)
  /\ Goto(to) \/ (to = "reopen" /\ GiveUp)
  /\ UNCHANGED <<options, process, running, alarm, profiling, files>>

OpenFirst == OpenProgram("open", "exit")
CloseFirst == CloseProgram("close", "reopen")     (* or no platform is made *)
OpenToLoad == OpenProgram("reopen", "load")
CloseLoaded == CloseProgram("reclose", "state")

(* The address to stop at: that of the command, or the symbol _exit. *)
FindExit ==
  /\ At("exit")
  /\ LET a == IF cmd.exit = NULL THEN cmd.program.exit ELSE cmd.exit
     IN IF a = NULL THEN GiveUp /\ UNCHANGED exit
        ELSE Goto("argv") /\ exit' = a
  /\ UNCHANGED <<loaderVars, options, env, regs, running, alarm, profiling, files>>

(* cut_multi_string: the strings are what '\n' ends. *)
Lines(f) == IF f.ended \/ f.lines = <<>> THEN f.lines ELSE Front(f.lines)

ArgvOf(c) ==
  {<<c.app>> \o c.table} \cup
    IF c.argvFile = NULL THEN {} ELSE {<<c.app>> \o Lines(c.argvFile), <<>>}

EnvpOf(c) ==
  {c.environ} \cup IF c.envpFile = NULL THEN {} ELSE {c.environ \o Lines(c.envpFile)}

(* make_argv_from_file has no return at its end: the table may be taken    *)
(* when the file is read.  When the file cannot be closed, it says nothing *)
(* is wrong and has set nothing.                                           *)
MakeArgv ==
  /\ At("argv")
  /\ argv' \in ArgvOf(cmd)
  /\ Goto("envp")
  /\ UNCHANGED <<loaderVars, cmd, envp, process, running, alarm, profiling, files>>

MakeEnvp ==
  /\ At("envp")
  /\ \/ GiveUp /\ UNCHANGED envp
     \/ Goto("close") /\ envp' \in EnvpOf(cmd)
  /\ UNCHANGED <<loaderVars, cmd, argv, process, running, alarm, profiling, files>>

-----------------------------------------------------------------------------
(* The platform: gliss_load. *)
LoadImage ==
  /\ At("load")
  /\ Load32(H) \/ Load64(H) \/ LoadToy(H)
  /\ pc' = cmd.program.entry
  /\ env' = [env EXCEPT !.brk = RoundUp(BrkInit(cmd.program), Page)]
  /\ Goto("fill")
  /\ UNCHANGED <<options, regs, exit, fetched, ended, alarm, profiling, files>>

(* PUSH32 and the PUSH8 of a string. *)
Put32(mem, a, n) ==
  [mem EXCEPT ![a] = n, ![a + 1] = 0, ![a + 2] = 0, ![a + 3] = 0]
PutString(mem, a, s) ==
  [x \in Addr |-> IF x \in a..a + Len(s) THEN Append(s, 0)[x - a + 1] ELSE mem[x]]
SizeOf(strings) == FoldLeft(LAMBDA n, s : n + Len(s) + 1, 0, strings)

(* A table of pointers at ptr and its strings from str on. *)
PutStrings(mem, ptr, str, strings) ==
  LET Push(at, s) == [mem |-> PutString(Put32(at.mem, at.ptr, at.str), at.str, s),
                      ptr |-> at.ptr + 4, str |-> at.str + Len(s) + 1]
      end == FoldLeft(Push, [mem |-> mem, ptr |-> ptr, str |-> str], strings)
  IN [end EXCEPT !.mem = Put32(end.mem, end.ptr, 0)]

(* Variant: the words that end the tables are not counted. *)
StackSizeShort(args, vars) == (Len(args) + Len(vars) + 1) * 4 + SizeOf(args) + SizeOf(vars)

(* The two words that end the tables, and argc, are counted. *)
StackSize(args, vars) ==
  RoundUp((Len(args) + Len(vars) + 2) * 4 + SizeOf(args) + SizeOf(vars) + 4, 4)

(* The stack is above the break: it has room for every command. *)
ASSUME RoomAssumption ==
  \A c \in Commands : \A args \in ArgvOf(c), vars \in EnvpOf(c) :
    RoundUp(BrkInit(c.program), Page) + StackSize(args, vars) <= StackTop

(* gliss_stack_fill_env. *)
FillEnv ==
  /\ At("fill")
  /\ LET sp == StackTop - StackSize(argv, envp)
         argvAt == sp + 4
         envpAt == argvAt + (Len(argv) + 1) * 4
         first == PutStrings(Put32(image, sp, Len(argv)), argvAt,
                             envpAt + (Len(envp) + 1) * 4, argv)
     IN /\ image' = PutStrings(first.mem, envpAt, first.str, envp).mem
        /\ env' = [env EXCEPT !.sp = sp, !.argc = Len(argv), !.argv = argvAt, !.envp = envpAt]
  /\ Goto("reclose")
  /\ UNCHANGED <<config, heap, handle, loaded, stopped, options, regs, exit, running,
                 alarm, profiling, files>>

(* gliss_new_state, with gliss_registers_fill_env. *)
NewState ==
  /\ At("state")
  /\ \/ GiveUp /\ UNCHANGED regs
     \/ Goto("sim") /\ regs' = [r \in DOMAIN regs |-> env[r]]
  /\ UNCHANGED <<loaderVars, options, env, exit, running, alarm, profiling, files>>

(* gliss_new_sim: the state keeps its entry when no start is given. *)
NewSim ==
  /\ At("sim")
  /\ \/ GiveUp /\ UNCHANGED pc
     \/ Goto("profile") /\ pc' = IF cmd.start = NULL THEN pc ELSE cmd.start
  /\ UNCHANGED <<loaderVars, options, process, fetched, ended, alarm, profiling, files>>

-----------------------------------------------------------------------------
(* Variant: the counts of the file are left out. *)
CountsForgotten == {Zero}

(* What a profile tells of an instruction: the last of its entries.        *)
Tells(p, i, n) ==
  IF p = NULL THEN n = 0
  ELSE \E k \in DOMAIN p :
         p[k] = [id |-> i, count |-> n] /\ \A m \in DOMAIN p : p[m].id = i => m <= k

(* load_profiling_file: the file is emptied once read.  What it does not   *)
(* tell, the whole of an empty file for instance, is left to uninitialised *)
(* variables.                                                              *)
CountsRead ==
  {c \in [Idents -> 0..Cap] :
     \A i \in Idents, n \in 0..Cap : Tells(profile, i, n) => c[i] = n}

LoadProfile ==
  /\ At("profile")
  /\ IF cmd.profile
     THEN \/ counts' \in CountsRead /\ profile' = <<>> /\ Goto("signals")
          \/ GiveUp /\ UNCHANGED <<counts, profile>>
     ELSE Goto("signals") /\ UNCHANGED <<counts, profile>>
  /\ UNCHANGED <<loaderVars, options, process, running, alarm, executed, begun>>

(* The handlers and the alarm. *)
InstallHandlers ==
  /\ At("signals")
  /\ Goto("output")
  /\ alarm' = cmd.timed
  /\ UNCHANGED <<loaderVars, options, process, running, profiling, files>>

(* The file of the states. *)
OpenOutput ==
  /\ At("output")
  /\ IF cmd.valid = "refused" THEN GiveUp ELSE Goto("run")
  /\ UNCHANGED <<loaderVars, options, process, running, alarm, profiling, files>>

(* gliss_step. *)
Execute ==
  /\ pc' \in Code
  /\ executed' = [executed EXCEPT ![Ident[pc]] = Plus(@, 1)]
  /\ ended' = (ended \/ pc' = exit)

(* Variant: the loop does not look at what the handlers set. *)
GoesOnDeaf == pc # exit

(* The conditions of the three loops. *)
GoesOn == ~ended /\ (cmd.mode = "step" => pc # exit)

RunUnwatched ==
  /\ At("run") /\ cmd.mode # "watch" /\ GoesOn
  /\ Execute
  /\ UNCHANGED <<loaderVars, stage, options, process, fetched, alarm, counts, files>>

(* gliss_next_inst, counted. *)
FetchWatched ==
  /\ At("run") /\ cmd.mode = "watch" /\ ~fetched /\ GoesOn
  /\ fetched' = TRUE
  /\ counts' = IF cmd.profile THEN [counts EXCEPT ![Ident[pc]] = Plus(@, 1)] ELSE counts
  /\ UNCHANGED <<loaderVars, stage, options, process, pc, ended, alarm, executed, files>>

StepWatched ==
  /\ At("run") /\ fetched
  /\ Execute /\ fetched' = FALSE
  /\ UNCHANGED <<loaderVars, stage, options, process, alarm, counts, files>>

StopRun ==
  /\ At("run") /\ ~fetched /\ ~GoesOn
  /\ Goto("write")
  /\ UNCHANGED <<loaderVars, options, process, running, alarm, profiling, files>>

(* The exchange of two entries, those of an entry with the following ones, *)
(* and all of them in the order of the loops.                              *)
Exchange(entries, i, j) ==
  IF entries[j].count > entries[i].count
  THEN [entries EXCEPT ![i] = entries[j], ![j] = entries[i]] ELSE entries

Exchanges(entries, i) ==
  FoldLeft(LAMBDA s, j : Exchange(s, i, j), entries, [k \in 1..Len(entries) - i |-> i + k])

Sorted(entries) == FoldLeft(Exchanges, entries, [k \in DOMAIN entries |-> k])

Entries == Sorted([i \in Idents |-> [id |-> i, count |-> counts[i]]])

(* write_profiling_file, and the close that puts all of it in the file. *)
WriteProfile ==
  /\ At("write")
  /\ Goto("leave")
  /\ profile' = IF cmd.profile THEN Entries ELSE profile
  /\ UNCHANGED <<loaderVars, options, process, running, alarm, profiling, begun>>

(* gliss_delete_sim, and the end of main. *)
Leave == At("leave") /\ Dies

-----------------------------------------------------------------------------
Handled == {"output", "run", "write", "leave"}

(* A handler writes in the simulator, which may be freed once main leaves: *)
(* the process may die of it.                                              *)
SetEnded ==
  /\ ended' = TRUE
  /\ UNCHANGED <<loaderVars, stage, options, process, pc, fetched, profiling, files>>

(* SIGINT: it kills the process before its handler is there. *)
Interrupt ==
  \/ stage \in Handled /\ SetEnded /\ UNCHANGED alarm
  \/ stage \notin {"over", "output", "run", "write"} /\ Dies

(* SIGALRM, once. *)
Alarm ==
  /\ stage \in Handled /\ alarm
  /\ (SetEnded /\ alarm' = FALSE) \/ (stage = "leave" /\ Dies)

Kill == stage \in Handled /\ Dies

(* A process killed while it writes leaves the first lines of its profile, *)
(* the last of them maybe cut: its numbers are then others.                *)
Cut ==
  {SubSeq(Entries, 1, n) : n \in 0..IdentCount}
  \cup {Append(SubSeq(Entries, 1, n), e) : n \in 0..IdentCount - 1, e \in ProfileEntry}

KillWriting ==
  /\ stage = "write" /\ cmd.profile
  /\ profile' \in Cut
  /\ GiveUp /\ Cleared /\ UNCHANGED <<cmd, begun>>

-----------------------------------------------------------------------------
SimulatorInit ==
  /\ LoaderInit
  /\ stage = "over" /\ cmd \in Commands
  /\ argv = <<>> /\ envp = <<>>
  /\ env = Environment0 /\ regs = Registers
  /\ exit = 0 /\ pc = 0 /\ fetched = FALSE /\ ended = FALSE /\ alarm = FALSE
  /\ profile = NULL /\ begun = NULL /\ counts = Zero /\ executed = Zero

Prepare ==
  OpenFirst \/ FindExit \/ MakeArgv \/ MakeEnvp \/ CloseFirst \/ OpenToLoad
  \/ LoadImage \/ FillEnv \/ CloseLoaded \/ NewState \/ NewSim \/ LoadProfile
  \/ InstallHandlers \/ OpenOutput

Loop == RunUnwatched \/ FetchWatched \/ StepWatched \/ StopRun

SimulatorNext ==
  Begin \/ Prepare \/ Loop \/ WriteProfile \/ Leave \/ Interrupt \/ Alarm \/ Kill
  \/ KillWriting

(* The system goes on with a process and delivers its alarm; what comes    *)
(* before and after the loops may stop.                                    *)
SimulatorSpec ==
  /\ SimulatorInit /\ [][SimulatorNext]_simulatorVars
  /\ WF_simulatorVars(Loop) /\ WF_simulatorVars(Alarm)

-----------------------------------------------------------------------------
(* The variables have their types, those of the loader included. *)
MainTypeOK ==
  /\ LoaderTypeOK
  /\ stage \in Stages /\ cmd \in Commands
  /\ exit \in Addr /\ pc \in Code \cup {0}
  /\ counts \in [Idents -> 0..Cap] /\ executed \in [Idents -> 0..Cap]
  /\ profile \in {NULL} \cup Seq(ProfileEntry) /\ begun \in {NULL} \cup Seq(ProfileEntry)

(* What a program finds at an address of a memory, as it would read it. *)
Word(mem, a) == mem[a] + 256 * mem[a + 1] + 65536 * mem[a + 2] + 16777216 * mem[a + 3]
StringAt(mem, a) ==
  LET n == Min({k \in 0..Space - 1 - a : mem[a + k] = 0})
  IN [i \in 1..n |-> mem[a + i - 1]]
StringsAt(mem, a) ==
  LET n == Min({k \in 0..(Space - 4 - a) \div 4 : Word(mem, a + 4 * k) = 0})
  IN [i \in 1..n |-> StringAt(mem, Word(mem, a + 4 * (i - 1)))]

(* Once the registers are set the program finds, from them, the arguments  *)
(* and the environment main prepared from the table or from the files,     *)
(* each table ended by a null pointer, the stack aligned to words and no   *)
(* more, and its break above all its sections and below its stack: the     *)
(* sizes counted before the strings are pushed, the addresses kept in the  *)
(* environment between the load and the new state, and the memory agree.   *)
(* Where the auxiliary vector of the comments should begin, behind the null*)
(* pointer of the environment, are the characters of the first argument:   *)
(* not even AT_NULL is there.                                              *)
ProgramReady ==
  stage \in Handled \cup {"sim", "profile", "signals"} =>
    /\ regs.sp % 4 = 0 /\ Word(image, regs.sp) = regs.argc
    /\ regs.argc = Len(argv) /\ StringsAt(image, regs.argv) = argv
    /\ StringsAt(image, regs.envp) = envp
    /\ LET auxv == regs.envp + 4 * (Len(envp) + 1)
       IN argv # <<>> => StringAt(image, auxv) = argv[1]
    /\ env.brk <= regs.sp
    /\ \A s \in Range(cmd.program.sects) : "alloc" \in s.flags => End(s) <= env.brk

(* A profile written adds to the counts the file told when the process     *)
(* began the instructions this one executed, neither more nor less, however*)
(* the run was ended, and the most executed come first.  Of the            *)
(* instructions the file told nothing about, because a process died that   *)
(* had emptied it or was writing it, nothing is said.                      *)
ProfileExact ==
  stage = "leave" /\ cmd.profile =>
    /\ \A e \in Range(profile), old \in 0..Cap :
         Tells(begun, e.id, old) => e.count = Plus(old, executed[e.id])
    /\ {e.id : e \in Range(profile)} = Idents
    /\ \A i, j \in DOMAIN profile : i < j => profile[i].count >= profile[j].count

(* Once it is asked to end, by a signal, or an alarm is to come, the       *)
(* simulation stops, even of a program that never reaches its end.         *)
RunStops == (stage = "run" /\ (ended \/ alarm)) ~> (stage # "run")

=============================================================================
