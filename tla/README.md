# Verification of GLISS and its component simulator

This directory holds TLA+ models of the repository, the TLC runs that check
them and the theorems TLAPS proves about them. The source is the reference:
each definition that models code is listed in `PROJECT.json` under `map` with
the lines it stands for.

    tlc -workers 2 -config MCCsimSchedule_run.cfg MCCsimSchedule.tla
    tlapm CsimScheduleProofs.tla

## 1. Inventory

The repository is GLISS, a generator of instruction-set simulators, extended
with `csim`, a simulator of boards made of hardware components (ports,
memory-mapped registers, timed events), and with GPIO components written for
it.

| part | where | state | operations |
|---|---|---|---|
| event schedule | `src/csim/csim.c` | current date, chain of events | `csim_record_event`, `csim_cancel_event`, `csim_run` |
| board, instances, ports | `src/csim/csim.c` | instances and cores of a board, link of each port | `csim_new_component`, `csim_delete_component`, `csim_delete_board`, `csim_connect`, `csim_disconnect`, `csim_mute`, `csim_send_digital` |
| register access | `src/csim/csim.c` | hash table of I/O entries | `csim_io_add`, `csim_io_remove`, `csim_on_io` |
| paged memory | `src/csim/mem.c` | page table, callback of each page, list of callback ranges | integer and block accesses, `csim_set_range_callback`, `csim_unset_range_callback`, `csim_get_callback_data`, copy, delete |
| GPIO component | `src/csim/test-csim.c`, `src/csim/Templates`, `src/csim/nmp` | registers MODR, IDR, ODR, the global `indxxx` | `update_pins`, register functions, pin configuration |
| component generator | `src/gep/gepgpio.ml` and its test | none | text generation |
| simulation API | `src/templates/api.c` | usage count of platforms, states, simulators | new, lock, unlock, fork, copy, delete, `next_inst`, `step`, `run_sim`, `run_and_count_inst` |
| instruction decoders | `src/templates/decode*.c` | cache of decoded instructions | `decode`, `free_inst` |
| instruction fetch | `src/gep/fetch.ml`, `src/gep/bitmask.ml`, `src/templates/fetch.c` | the tables generated | construction and walk of a decision tree |
| run-time memories | `src/lib/*mem*.c` | page tables, callback ranges | as the memory of csim, in the byte order of the target |
| system calls | `src/lib/syscall-linux.c` | table of files and break of each platform | open, close, read, write, seeks, stats, brk |
| program loaders | `src/lib/old_elf.c`, `old_elf64.c`, `src/toy/src/loader.c` | static tables while reading, sections of an open file | open, load, close, sections |
| simulator | `src/lib/sim/sim.c` | options, counts, the file of profile | `main` and its signal handlers |
| run-time arithmetic | `src/lib/grt.c`, `src/lib/gen_int.c` | none | bit fields, rotations, masks, big integers |
| process environment | `src/lib/linux_env.c` | initial stack, registers, break | `stack_fill_env`, `registers_fill_env`, `set_brk` |
| generator | `src/irg`, `src/gep`, `src/optirg`, `src/ana` | syntax trees, decision trees | functional OCaml programs |
| validators | `src/validator`, `src/validator2` | two simulators in lock step | step, compare |

`PROJECT.json` lists every part with its files and, for those without a model,
the reason.

### How the parts interact

`csim_run` is the only loop. At each date it takes the events that are due from
the head of the chain and calls their triggers, then steps the cores. A trigger
is component code: it may call `csim_record_event` (which calls another trigger
at once when the date is not in the future), `csim_cancel_event`,
`csim_send_digital` (which calls the `update` function of the partner) or
create and delete components. The step of a core executes instructions whose
memory accesses reach components through the callbacks of the pages:
`mem.c` calls `csim_on_io`, which looks the address up in `board->ios` and calls
the function of the register.

A generated simulator is a client of the API: `main` of `sim.c` creates a
platform, loads a program in its memory (loader), lets `linux_env.c` build its
stack, creates a state and a simulator on it, and steps. A step decodes the
word at the program counter, through a cache keyed by its address, fetches it
through the tables when the cache does not have it, and executes it; system
calls change the platform, which several states may share.

In csim, everything happens in one thread. The difficulty is **re-entrance**: a
structure of the board is walked by one function while a callback called from
it changes the same structure, and the function goes on with the pointer it
had read. The second difficulty is **life time**: instances, entries, events,
pages, platforms and decoded instructions refer to each other by pointers that
few functions clear when one of them is freed. The third is at **bounds**:
pages, strides, rounding, wrap-around of addresses, port indexes, masks of
several lengths. In the simulator come **signals**, which arrive between any
two steps, **kills** and restarts with a file of profile that is emptied when a
run begins and written when it ends, and **errors** half-way through a file.

Nothing is sent over a network and there are no threads, locks or retries.

### What makes each part correct

| part | properties |
|---|---|
| event schedule | the chain stays acyclic and complete whatever triggers do; an event is triggered within bounded time; cancellation takes out that event only; `csim_run` returns |
| board | links symmetric; each core stepped once per cycle; the deletion of a board frees every instance once; nothing freed is reached |
| register access | an access calls the functions of the registers at that address with that size, and no other page is taken from the memory |
| paged memory | one array of bytes, whenever pages are created; pages are given to devices only where a range was set; copies are equal |
| GPIO | the recursion of updates is bounded and ends |
| simulation API, system calls | a platform is freed with its last user and its files with it; a failed call changes nothing; the break stays above the program |
| decoders | the program runs as without a cache; what is asked for last is kept; nothing is leaked; runs stop at the exit address |
| run-time memories | one array of bytes in both byte orders, no access beyond a page; ranges reach the pages that exist |
| fetch | a word that is an instruction is found, or the set is refused |
| loader, environment, simulator | the memory holds what the file says, the stack what the command line says; the profile counts what was executed; the simulator stops when asked to; every file opened is freed |

The field `hazards` of `PROJECT.json` lists where each of these can go wrong,
at its line, with the properties aimed at it.

## 2. Modules

| module | models | composes |
|---|---|---|
| `CsimSchedule` | `csim_record_event`, `csim_cancel_event`, `csim_run` on a chain that is a sequence | |
| `CsimEventList` | the same functions assignment by assignment on `head`, `next`, `prev` | implements `CsimSchedule` |
| `CsimBoard` | instances, ports, cores, the loops of `csim_run` over the cores and of `csim_delete_board` | |
| `FlatMemory` | what a memory promises: an array of bytes | |
| `CsimMem` | pages, callbacks, ranges, copy | implements `FlatMemory` |
| `CsimIO` | `board->ios`, the register loop of `csim_new_component`, `csim_on_io` | `CsimMem` (its operations are called) |
| `CsimGpio` | registers and `update_pins` of the GPIO component | |
| `FlatSim` | what a simulator promises: the machine without cache | |
| `GlissDecode` | the six decoders of `templates/decode*.c` and their caches | |
| `GlissSim` | `next_inst`, `step` and the loops of `templates/api.c` | `GlissDecode` (extended), implements `FlatSim` |
| `GlissMem` | `fast_mem.c`, `vfast_mem.c`, `mem16.c`, `io_mem.c` | implements `FlatMemory` |
| `GlissPlatform` | platforms, states, simulators, `syscall-linux.c` | |
| `GlissLoader` | `old_elf.c`, `old_elf64.c`, `toy/src/loader.c` | |
| `GlissSimulator` | `sim.c`, `linux_env.c` | `GlissLoader` (its operations are called) |
| `GlissFetch` | the tables of `gep/fetch.ml`, their walk in `templates/fetch.c` | |
| `CsimScheduleProofs`, `CsimBoardProofs`, `CsimMemProofs`, `CsimIOProofs`, `GlissMemProofs`, `GlissSimProofs`, `GlissPlatformProofs`, `GlissSimulatorProofs` | theorems; `CsimIOProofs` has also those of `CsimGpio`, the last one those of `GlissFetch` and of `GlissSimulator` with its loader | |
| `MC...` | instances for TLC | |

A definition whose comment starts with "Variant" is a faulty form of the
definition after it; it is used by no action. Replacing the definition by the
variant must make TLC find a violation of the property it is paired with in
`PROJECT.json` (`mutants`): this shows that each property depends on the code.

### CsimSchedule

`date` is `board->date`, `end` the local variable of `csim_run`, `pc` where that
function is, `evts` the chain, `prev` the field that the code maintains only in
part, `at` the field `date` of the events. A trigger takes two steps: it is
called (`RunTrigger`, or `RecordEvent` when it is called inside
`csim_record_event`), the client actions happen while it is in progress
(`running`, and the stack `nest`), and it returns (`RunTriggerReturns`,
`RecordTriggerReturns`). So everything a trigger can do to the chain is
interleaved at the place where the code calls it. A dereferenced null pointer
sets `fault`, after which nothing happens.

Clients here are disciplined: no date in the past, and an event is left alone
while its own trigger is in progress. `CsimEventList` has the constant `May`,
which lifts both: "rerecord", "recancel" (an event in its own trigger), "late"
(a past date). Nothing in the code excludes them.

`due` is a history variable: the latest date an event may have to wait for,
fixed when it enters the chain. It is needed because the chain is *not sorted*:
the scan of `csim_record_event` stops at the first event dated no earlier and
puts the new event **behind** it.

### CsimBoard

Instances are "raw", "live" or "freed", each created once, so that a pointer
kept after the free is recognised; `fault` says one was followed, and ends the
model. The main program, the steps of cores and destructors use any instance
they were given (`Use`), freed or not, as the code checks nothing of it; they
create components, and delete them on their own, in destructors too, so that
`dying` is a stack of destructors that run, of `MaxNest` at most, and a
destructor may delete the instance `csim_delete_board` has read as the next.
`liberty` (history) records what may lead to freed memory: a component was
deleted on its own, or a destructor called by `csim_delete_board`, which frees
the youngest instances first, used the port of an instance younger than its own.
`late` (history) has the instances that such destructors create. `Cross` lets
callers disconnect two ports of different links. Port types are not in the
model because `csim_connect` does not look at them.

### CsimMem, FlatMemory

`pages` maps the numbers of allocated pages to their bytes and callback; `infos`
is the list of ranges. Block accesses are cut into pieces as the code does
(`Cut`, `Pieces`, `BlockPage`, `BlockOffset`); integer accesses look at one
page only, so that one crossing the end of its page leaves its storage
(`fault`). `last` records what an access moved, and is what `FlatMemory`
speaks of. The two levels of hash tables are page numbers, except in `Copy`,
where their indexes matter: the action keeps what the copy may access, and not
its result, which nothing reads. `csim_mem_delete` is left out.

### CsimIO

One step per register entered by `csim_new_component` (`slot` is the position in
its two loops), each with the call of `csim_set_range_callback` of `CsimMem`
when the page has no callback yet. `Access` is an integer access of `CsimMem`
which, on a device page, goes through the chain of its bucket as `csim_on_io`
does. `served` records which registers were called, `trouble` how an access
ended otherwise: freed memory, division by zero, failed assertion.

### CsimGpio

`update_pins` calls `csim_send_digital` as its last action, which calls
`update_pins` of the partner: the stack is the innermost call (`call`) and the
number of calls (`depth`), of which `Stack` fit; one more ends the program. A
word is the set of its bits. `link` is any of the connections of the constant
`Links`.

### GlissDecode, GlissSim, FlatSim

`policy` is the decoder linked. A cache is its entries (`cells`: key and
instructions), and for the lists of the last used `head` and `next`, whose last
`next` the code does not maintain. `Decode` has one operator per decoder, each
with the entry returned and the instructions allocated less those freed.
`GlissSim` executes what `Decode` returns in the three versions of `api.c`, for
no trace, for aligned blocks and for runs up to a branch; the loops of `run_sim`
and `run_and_count_inst` are steps, so that the program is rewritten (`Write`)
between any two. Executing moves the program counter; a branch may fall
through. `want`, `held`, `begun` and `over` are histories: the keys last asked
for, the words each address has held, whether a run passed the exit address.
`step` of the dtrace build keeps its place in a static variable (`traced`), which
nothing resets: `drift` remembers that, since it last decoded, the program counter
was set otherwise or another function decoded ("moved"), or that the simulator was
deleted ("freed"). A step that then goes on in its run executes what is there
whatever the program counter (`StepOn`); in entries that were freed, or past the end
of the run that has replaced its own, it may find anything: it decodes, or it is
"astray" and nothing is claimed about what follows. `next_inst` of that build has a
static variable of its own; it only decodes, so that whether it does is left open.
`FlatSim` is a machine without cache; its constant `stale` allows it to
execute an earlier word of an address.

### GlissMem

One operator per memory and access; `kind` chooses. `storage` of a page is in
the order the memory keeps bytes in: reversed in `vfast_mem.c` and `mem16.c` when
the byte orders of host and target differ (`swap`), which `Index` says. An
access that leaves a page, or an integer the code moves in the wrong order,
sets `broken` to the reason, and nothing is claimed about what follows.
`changed` is the flag that makes the next page looked up bring all callbacks up
to date.

### GlissPlatform

Platforms, states and simulators with the usage count; the descriptors of the
host (`own`: who opened each) and the tables `fds` that lead to them; the break,
which the loader sets (`LoadPlatform`) and programs move. A client holds a
platform by the locks it took (`locks`) and by its states, among them those whose
address it never got because `fork_state` has no return (`lost`). `reply` is what a
system call answered. `unlock_platform` cannot tell whose user it takes off: a
client may unlock what it did not lock (`UnlockPlatform`), which leaves the count
below zero or frees the platform under its states, and it may unlock a platform
that is freed (`UnlockFreed`); `unheld` remembers the platforms where it did, and
the process is `halted` ("freed") where freed memory is used (`UseFreed`). What the
machine does after that, and an address that is allocated again, are left out.

### GlissLoader, GlissSimulator

A file is its class, what is wrong with it (`bad`), whether errors are short
reads (`short`), and its sections; reading is one operator per table in the
order of the code, each either taking a block or failing and leaving the rest
to `ElfCleanup`. `heap` is what is allocated, `Build` the loader linked: the 64-bit
and toy versions have their own operators where the code differs.
`GlissSimulator` has one action per part of `main` that may end the process:
options, exit symbol, arguments and environment, loading, stack, state,
simulator, profile, handlers, output, the three loops, statistics. `Interrupt`,
`Alarm` and `Kill` happen between any two; after the end a new process begins
with the file of profile as it is. `KillWriting` is a kill in the middle of
`write_profiling_file`: the file keeps the first entries and what a line cut
short reads as (`Cut`). A file that lacks entries, or is empty, leaves variables
of `load_profiling_file` uninitialised: `Tells` is what a file says of an
instruction, any number being read otherwise. `StackSize` computes what `FillEnv` then
pushes, pointer by pointer and string by string, in `image`. `Sorted` is the
exchanges of the two loops of `write_profiling_file`.

The assumptions on files, commands and constants are:

- `LinkedAssumption`, what a linker lays out: sections in memory do not overlap,
  those without bits counted by words because `GLISS_NOBITS_INIT` zeroes words,
  and lie below the end of a segment (`gliss_brk_init` looks at segments only);
  a section of text is not empty; `.bss` and `.sbss` have no bits in the file.
  A section of thread-local variables without bits overlaps the next one and is
  outside of this assumption. What `gliss_loader_sect` tells to be text or data
  may have other flags than those the readers look for: the model leaves it
  out as they do, and `ImageLoaded` says the memory stays zero there;
- `RoomAssumption`: the arguments of the command and its environment fit between
  the break and the top of the stack, which the code does not check
  (`lib/linux_env.c:58` is commented out);
- `SimulatorAssumption`: an address fits in one byte of a word, so that a pointer
  in memory is that byte and three zeroes; a null pointer is not a file, a
  loader or a profile.

### GlissFetch

An image is a sequence of 0, 1 and `X`. `MakeTree` is one round of `make_tree`: each
node of several instructions is replaced by an empty node and its sons, or the
set is refused. A node is named by the values on the way to it, as in the
source; a table is looked up by name. `ReadChunk` and `LookUp` are the loops of
the fetch.

## 3. Runs

| run | instance | shows |
|---|---|---|
| `schedule` | 3 events, one of period 1, dates 0..4, 2 client calls per date | with disciplined clients the back pointers are sound (`PrevSound`), lateness is bounded (`InTime`), nothing is lost (`NothingLost`), `csim_run` returns (`RunReturns`) and what is due before its end is triggered or cancelled (`Delivered`) |
| `eventlist` | as above, 2 calls | the pointer assignments implement `CsimSchedule` |
| `eventlist_rerecord` | 3 one-shot events, dates 0..3, 3 calls, "rerecord" | **violated**: `csim_run` triggers a one-shot event, still the head of the list, and the trigger records its event again, as the timer of `stm32/tc.nmp` does: `csim_record_event` links it behind itself, and the events that followed leave the list untriggered |
| `board` | 3 instances, 2 of them cores, 4 ports; destructors that create, connect, disconnect, send and delete | links symmetric, each core stepped once, all freed but what a destructor created; a freed instance is reached only after a deletion on its own, or a destructor that used a younger instance |
| `mem` | 2 pages of 2 bytes, integers of 2, blocks of 3, 2 ranges | the pages are one array of bytes (`ImplementsFlat`); only pages with bytes of a range are given to devices (`Intercepted`) |
| `io` | 3 components, 3 pages of 4 bytes, 2 buckets; all liberties | each access calls the registers declared at its address with its size (`Dispatched`), all registers are reachable, other pages stay memory |
| `gpio` | 2 components of 3 pins, 4 ways of connecting them, a stack of 4 calls | between ports connected pin to pin, a message about any pin but pin 0 makes a bounded number of calls of `update_pins` (`DepthBounded`), which return before the stack is full, or end at an assertion (`CascadeEnds`) |
| `decoders` | 6 decoders, 6 instructions, straight or with a loop, one word rewritten, caches of 2 or 3 entries, traces of 2 | entries hold what memory held at their key (`EntriesTrue`), the last keys asked for are kept (`Retained`), instructions are freed once (`NoLeak`), runs stop at the exit address (`StopsAtExit`) and end (`RunsReturn`), and execution is that of `FlatSim`, but for the steps of dtrace that go on in their run after the program counter was set or another function decoded (`ImplementsFlat`) |
| `memories` | 4 memories, both byte orders, 2 pages of 4 bytes, integers of 2, blocks of 5, 2 ranges | accesses stay in their page unless the code is known to leave it (`Contained`), accesses go to the newest range that reaches their page, whenever range and page were made (`Spreads`), one array of bytes (`ImplementsFlat`) |
| `platform` | 2 platforms, 2 states, 1 simulator, 4 descriptors of the host | a platform unlocked no more than locked lives as long as it is held, and only another is used freed (`Held`), its files with it and apart from others' (`FilesKept`), the break above the image (`BreakAboveImage`), failed calls change nothing (`FailedIsHarmless`) |
| `simulator` | 3 loaders, a program in 32 and 64 bits, 14 faulty files, 7 kinds of commands, signals, kill | what reading allocated is freed (`NoLeak`), the buffer of the text holds its sections (`TextFits`), memory holds the sections (`ImageLoaded`) and the stack the strings (`ProgramReady`), what the profile told of an instruction is in the new one with what was executed (`ProfileExact`), a run asked to stop stops (`RunStops`) |
| `fetch` | all sets of 1 to 3 images of 2 or 3 bits, some of 4; chunks of 2 bits | the instruction in memory is found (`FetchFinds`), what is found agrees with the bits tested (`TestedBitsAgree`), the generator and the fetch end (`FetchEnds`) |

The violated property states a line of the repository, quoted in `findings`.

### Bounds and why they are enough

- *Schedule*: `Horizon` bounds dates, `MaxCalls` the client calls between two
  ticks. Three events are the least for an insertion between two others, a
  cancellation in the middle, and a trigger within a trigger that changes the
  chain of a third; a period of 1 makes an event due again at each date, and
  `Horizon` 4 leaves room for an event behind a later one to be triggered late,
  with the board still running. `date` starts at 0 and `csim_run` may be called
  several times.
- *Board*: three instances give a walk with a predecessor, a current and a next
  one; two ports on one instance give a component connected to itself and to
  another. Each instance is created once: more would only rename blocks. Two
  destructors at a time (`MaxNest`) are one of `csim_delete_board` and one it
  has called by a deletion.
- *Memory*: a block of 3 over pages of 2 starting at 1 or 2 touches two pages
  and wraps around the address space; ranges cover a part of a page, a page
  bound and the last byte, where rounding up wraps. Integers of 2 at 1 cross
  the end of their page.
- *I/O*: the components share a page, an address and buckets; one has an array
  over two pages, one wraps around the address space.
- *GPIO*: three pins give a port index beyond the array, and a pin with mode
  INPUT between outputs. Four calls are one more than pins connected pin to pin
  need; pin 0, and links to other pins that go round, fill the stack.
- *Decoders*: lists of 3 are the least with an entry between the first and the
  last, which the code treats apart; rings of 2 wrap; 6 slots are three blocks,
  so that lists overflow. One cache line is enough: lines share nothing. One
  rewritten word, on the way of both programs, makes entries stale. Two entries of
  runs of 1 or 2 are enough for the static place of `step` to be in an entry filled
  since, before and past the end of its new run, and in entries that were freed.
- *Memories*: a block of 5 from 3 is a byte, a whole page and a byte, the three
  parts of the loop, and wraps around; integers of 2 at 3 cross a page, at 6 do
  not, at 1 are not aligned. One range is the last byte of a page and the whole
  of the next, the other is within a page, where it has neither end.
- *Platform*: two states on one platform share files and break, two platforms
  have files of the same host, and the second gets those of the first once it is
  freed; 4 entries in a table are the three standard descriptors and one, so that
  the table is full after one open. Each platform is unlocked at most once more
  than it is locked: before any state, below one or below several.
- *Simulator*: sections out of order, with a gap, constants, `.bss`, a symbol
  table; each table that cannot be read, in both ways; strings of 1 to 3
  characters, empty and unended lines; two identifiers of instructions, counts
  up to 2; a process is followed by another with the file it left.
- *Fetch*: images of 3 bits give tables of 3 levels, of 2 and 3 bits a CISC whose
  short instructions end before the mask of the root; chunks of 2 make the
  second one necessary for some.

`CHECK_DEADLOCK FALSE` is in the runs where the program really stops: after a
null pointer, at the horizon, when the board is deleted, after an assertion,
when a system call exits the process, when a set of instructions is refused,
when a step reads entries that were freed.

### Fairness

`CsimSchedule!FairSpec` is weakly fair on `Scheduler` (the steps of `csim_run` and
the returns of triggers), `GpioFairSpec` on `UpdatePins`. The simulator is
one thread: the step in progress goes on to its end, and no other thread can
hold it back. Nothing obliges the main program to call `csim_run`, nor a
component to call anything: those actions have no fairness. That a trigger
itself returns is an assumption on component code; the bound `MaxCalls` stands
for it. So `RunReturns` says that the loops of `csim_run` add no endless loop of
their own.

`GlissSim` is weakly fair on `Running`, the turns of its loops: the thread that
called `run_sim` goes on. `RunsReturn` needs besides that the program comes to its
exit address, and is stated for programs without branch. `GlissSimulator` is
weakly fair on `Loop`, the turns of the loops of `main`, and on `Alarm`, which the
kernel delivers once it is set; nothing obliges anybody to interrupt. `GlissFetch`
is weakly fair on `Build` and on its own `Fetch`: both are loops of a program of their own.

## 4. Proofs

All are about the specifications for every value of the constants, under the
assumptions named `...Assumption` in the modules (and evaluated by TLC). Each
rests on an inductive invariant and on one lemma per action.

- **`CsimScheduleProofs`**: `TypeCorrect`, `ScheduleInvariant`, `DeliveredInTime`
  (`InTime`), `BackPointersSound` (`PrevSound`), `NothingIsLost` (`NothingLost`).
  The inductive invariant is `ScheduleInv`. `InTime` alone is not inductive:
  removing the head must leave events whose own `due` covers them, which is its
  part `DueCovers` (no event hides a date later than what those behind it may
  bear); that the event removed when a trigger returns is the head is
  `RunningIsHead`, which needs `Linked` (nothing triggered inside
  `csim_record_event` is in the chain) and, for cancellations, `PrevSound` (the
  link `csim_cancel_event` changes is that of the predecessor). These three
  parts are in the theorem `ScheduleInvariant` only. Lemmas describe what an
  insertion and a removal do to a sequence.
  `PointersImplementSchedule` is the refinement that the run `eventlist` checks on
  three events (`ImplementsSchedule`), for any finite set of events and any
  periods: `List` is `CsimEventList` with disciplined clients (`May` empty), and
  `Abstracts` names the chain a walk from `board->evts` meets `evts`, and a fault
  `fault`; `List!Spec` then implies the specification of the schedule. It is
  stated with `evts` and `fault` as variables that `Abstracts` determines, and not
  as a substitution, because the invariant of the schedule, proved of variables,
  is what makes the steps map: that the triggered event is the head
  (`RunningIsHead`) when its `next` becomes `board->evts`, and that `prev` is the
  event before (`PrevSound`) when `csim_cancel_event` follows it.
  The invariant `IsList` relates the pointers to the chain: `next` goes from each
  event to the next one, ends the chain with a null pointer, and is null out of
  it. From it follow what the walk meets (`NodesAreChain`, `ChainIsWalk`) and
  that the scan of `csim_record_event` stops, where `CsimSchedule` inserts
  (`ScanFindsPoint`). `PointersStayAList` is that invariant: the list is never
  cyclic, and no scan fails to end.
- **`CsimBoardProofs`**: `LinksSymmetric` (`LinkSymmetric`) and `OnePartnerOnly`,
  under the assumption `~Cross`, from the symmetry of links with the
  states of instances needed to know that `csim_new_component` sets ports nobody
  is linked to; and, whatever `Cross` is, `OwnedAlwaysSafe` (`OwnedSafe`),
  `CoresSteppedOnce` (`SteppedOnce`) and `BoardFreesAll` (`AllFreed`). Their
  invariant `WalkInv` gives each walk its position in a chain that other
  actions lengthen: the cores still owed a step are those from the running one
  on; what is torn down, or created by a destructor since, is what precedes the
  instance being freed; nothing else is freed without a liberty. A destructor
  of an older instance therefore meets freed partners only among the younger
  ones (`UseLive`).
- **`CsimMemProofs`**: `TypeCorrect`, `InterceptionSound` (`Intercepted`) and
  `MemoryIsFlat` (`ImplementsFlat`), for any page size, address space, accesses
  and ranges. The first two rest on facts about `\div` and `%` (a page that
  contains the first or the last byte of a page range has bytes of it) and on
  `MemInv`: the callback of a page is in the list, and covers the page. The
  refinement says where each byte of an access lies: in which piece, at which
  place of which page (`Where`, `PieceIs`, `BlockWhere`), and that the pieces of
  a block are disjoint (`PlaceOf`). It assumes that blocks are no larger than
  the address space (`Sizes \subseteq 1..Space`): a longer one would write its
  first bytes twice.
- **`CsimIOProofs`**: `RegistersReachable` (`Reachable`) and `OtherPagesOrdinary`
  (`OnlyRegisterPages`). Callbacks are never withdrawn by the operations csim
  composes, so a page once given stays given; the slot being entered belongs to
  a live instance. The second says that pages created later are given only
  where a register lies; it needs pages of at least 4 bytes, the width of the
  largest register. `EveryAccessDispatched` (`Dispatched`) says that `csim_on_io`
  calls the registers declared at the address and no other: `DispatchInv` is that
  the chain of a bucket holds the entries of its addresses and only them,
  `NumberIs` that the division by the stride gives back the number of the
  register in its group, which needs `GroupAssumption`: a group does not go
  round the address space, or two of its registers would have one address.
  Then, of the GPIO component, `GpioTypes`, for any wiring of ports to ports,
  loops included, and `DepthAlwaysBounded` (`DepthBounded`), for any number of
  components and pins wired pin to pin, provided what is written fits the
  registers (`WiringAssumption`): between such ports each call of `update_pins`
  on the stack has taken the message on by `indxxx` ports (`Climbs`), and there
  are `NB_PINS` of them; `SendTyped` says that the call it makes is for a port
  that is there.
- **`GlissMemProofs`**: `AccessesContained` (`Contained`), `CallbacksSpread`
  (`Spreads`), `LinkedMemoryIsFlat` (`ImplementsFlat`), for the four memories.
  `CallbackInv` says that a page that was not unset has what the search of the
  code finds, and that the other memories have no callbacks; `SearchFinds` that
  the search finds the newest range that reaches the page. The
  refinement finds each byte of a block (`SpotIs`), in the address space
  (`PlaceOf`) and in a storage that may be turned (`PeekIs`, `PokeIs`); a load or
  a store on pages that have the bytes they had is one of the flat memory
  (`SameBytes`). The hypothesis `Moderate` says that accesses are no larger than
  the address space.
- **`GlissSimProofs`**: `EntriesAlwaysTrue` (`EntriesTrue`), `DecodersImplementFlat`
  (`ImplementsFlat`), `RunsStopAtExit` (`StopsAtExit`), `NothingLeaks` (`NoLeak`),
  for any program, decoder and sizes. `SimInv` has three parts. `MemInv`: what
  memory holds is among what it has held. `CacheInv`: every entry holds
  consecutive instructions from its key on (`Chunk`), and every list goes through
  its `D` entries, each once, in some order, whatever its last `next` has become
  (`ListInv`), so that a lookup returns one of them. `ControlInv`: the instruction
  a loop is about to execute is the one at the program counter (`Cursor`), and so is
  the one `step` of dtrace goes on with, as long as its place has not drifted: once
  it has, the place is in an entry in use (`Placed`) until the entries are freed, and
  the theorem says nothing of those steps, which are those of the code. Without
  `Cursor` the middle of a block would not be known to follow its first
  instruction; without `ListInv` a lookup might return what is no entry.
  `LeakInv` counts: outside of a call, the instructions allocated are those the
  entries hold. `CachesRetain` (`Retained`) is about replacement: by `RetainInv`, the
  place of each age holds the key wanted at that age (`Kept`). A ring counts ages
  from its index back, around its depth; a list from its head on. That moving an
  entry to the head moves those before it by one place, and no other, is
  `LookupMoves`, for an entry found as for the last one, taken again.
- **`GlissPlatformProofs`**: `HeldAlways` (`Held`), `BreakAlways` (`BreakAboveImage`),
  `FilesAlways` (`FilesKept`), `FailuresHarmless` (`FailedIsHarmless`). `Held` is a
  count: the usage of a platform is the number of its locks, of its states and
  of those whose address was lost, unless the client unlocked that platform with
  no lock (`Sound`); of the others nothing is claimed, but that they are the only
  ones freed under a state (`StateOfGone`). `FileInv` says that each descriptor of the host is in one
  table, that of a live platform.
- **`GlissSimulatorProofs`**, of the fetch: `FetchInvariant`, `InstructionsFound` (`FetchFinds`),
  `NothingElseFound` (`TestedBitsAgree`), for any sets of instructions of any
  lengths and any memory. `TreeInv` is what the rounds of `make_tree` keep: no two
  nodes have one name, all the tables on the way to a node are there and hold no
  instruction, the values on this way are those of the instructions of the node
  on masks they fix, and what a node has tested was tested on this way. It is
  proved from what a round leaves of each node (`Origin`). `WalkInv` says that
  the values that led to the table looked up are those of the memory, and that an
  instruction in memory is below it (`EntryLeads`). Two things tie the
  generator to the walk: a value on a mask determines the bits of the mask
  (`ValuesAgree`, because the rank of a place tells it from the others), and what
  a CISC has read is enough for the table it looks up (`OpcodeIs`).
- **`GlissSimulatorProofs`**, of the simulator and its loader: `MainInvariant`,
  `MainTypesHold`, `NoBlockLost` (`NoLeak`), `TextAlwaysFits` (`TextFits`),
  `ImageAlwaysLoaded` (`ImageLoaded`), `ProgramAlwaysReady` (`ProgramReady`),
  `ProfileAlwaysExact` (`ProfileExact`), for any files, commands, numbers of
  instructions and sequences of processes. `MainInv` has six parts.
  `LoaderPart`: what a handle owns is all that is allocated, and its two lists are
  the sections of its file, all of them, by address. `TypePart`. `MemoryPart`: the
  memory is empty or holds the sections of the program of the command, and the
  break is above them. `ArgumentsPart`: the arguments are among those the command
  may give. `StackPart`: from the moment the stack is filled, what is read back
  at the addresses kept in the environment is the arguments, and, once the
  registers are set, they are those addresses; without it `ProgramReady`, which
  speaks of the registers, would not follow from the steps before. `CountsPart`:
  while counting, a count is the one of the file when the process began, plus
  the instructions executed, plus one for the instruction fetched and not yet
  executed (`Tally`); without this last term `ProfileExact`, which holds when the
  profile is written, is not kept by the loop.
  What the loops of the code compute is in lemmas on their folds.
  `SubsetRecursion` gives a fold over a sequence as a sequence of states, one for
  each element, whose steps can then be taken one after the other. From it:
  insertion keeps a list sorted and complete (`PlacedIs`), whatever fails,
  `ElfRead` holds all that it allocated (`ElfReadIs`), the size counted for the
  strings is the room they take (`SizeOfIs`, `PushesAre`), the tables and their
  strings do not meet and are read back as they were pushed (`PutStringsIs`,
  `StringsAtAre`, `FillIs`), the zeroing of `.bss` reaches no other section
  (`FilledIs`), the exchanges sort and lose nothing (`ExchangesAre`, `SortedIs`).

What is only model-checked:

- the liveness properties `Delivered`, `RunReturns`, `CascadeEnds`, `RunsReturn`,
  `RunStops`, `FetchEnds`: fairness is out of the prover's reach;
- what undisciplined clients do to the list of events (`OnlyTriggeredLeave`).

Three proof modules state the same facts about `\div` and `%` (`DivBelow` to
`Around`): each is complete with the modules it extends.

## 5. Observations without a run

Met while modelling; the models contain the behaviour, or leave it out as said,
and no property is about it.

- `csim_connect` compares no types (`csim/csim.c:338`), `csim/README:80` says
  the types must be equal.
- `csim_disconnect` clears both ports without looking whether they are
  connected together (`csim/csim.c:365`): with `Cross` a half of
  another link stays.
- `csim_delete_component` leaves the instance in the chains of the board, in
  the links of its partners and in the I/O table (`csim/csim.c:300`); this is
  why `OwnedSafe` speaks of liberties.
- A destructor called by `csim_delete_board` that disconnects from, sends to or
  connects to a component created after its own writes or reads freed memory:
  the younger ones are freed before (`csim/csim.c:219`) and nothing unlinks
  them. `OwnedSafe` counts this as a liberty, and holds for the older ones.
- A component created by a destructor that `csim_delete_board` calls enters the
  chain at its head, where the walk has passed, and is never freed
  (`csim/csim.c:266`); `AllFreed` is
  about the others.
- `csim_delete_board` leaves the callbacks of the memory, which refer to the
  freed board (`csim/csim.c:104` reads it).
- `csim_on_io` divides by the stride, also for a group of one register
  (`csim/csim.c:106`; `csim/gpio_ex.c:37` has stride 0).
- `csim_io_remove` stops on an assertion after the first register
  (`csim/csim.c:185`).
- `csim_set_range_callback` gives the callback to the first page only of those
  that exist (`csim/mem.c:987`), the comment at `csim/mem.c:965` says the range.
- An integer access that crosses the end of its page goes beyond the page's
  storage (`csim/mem.c:762`).
- Cancelling an event in its own trigger, and dates in the past, break the
  chain or are never excluded (`csim/csim.c:494`): options "recancel" and "late"
  of `CsimEventList`.
- `update_pins` counts the port it sends to from the one that received
  (`csim/test-csim.c:92`): between components connected pin to pin, messages
  about pin 0 go to and fro until the stack is full, and those about pin k climb
  by k ports until a port is not connected or is beyond the array, where
  `csim_send_digital` fails its assertion. It never stores what input pins receive
  (`csim/test-csim.c:95`, unlike `csim/nmp/gpio.nmp:49`), takes bit `pin` of a
  message that carries one bit (`csim/test-csim.c:88`, `csim/README:88`), and
  looks at one bit of a two-bit mode (`csim/test-csim.c:72`).

Of csim besides:

- `csim_record_event` does not keep the chain sorted by date (`csim/csim.c:449`);
  `csim_cancel_event` follows a null pointer on the last event of the chain
  (`csim/csim.c:472`).
- `csim_unset_range_callback` leaves the range in the list (`csim/mem.c:1017`), so
  that pages created later have it; `csim_mem_copy` looks pages up with the
  wrong index (`csim/mem.c:289`); `csim_mem_delete` clears the head of the
  callback list before the loop that frees it (`csim/mem.c:254`).
- `update_pins` does not end on pin 0 (`csim/test-csim.c:92`). A register of size
  32 (`csim/test-csim.c:50`) can be accessed by no integer. `csim_mute` passes a
  value it never set (`csim/csim.c:390`).

Of the memories and decoders:

- An unaligned integer in `vfast_mem.c` with different byte orders is stored in
  the reverse order; one that crosses a page in `fast_mem.c` or `io_mem.c` leaves
  the storage, as does one at the end of `mem16.c`; copies of a memory lose
  pages whose two hashes differ.
- "The range will be extended to all the pages covering the given range", says
  `lib/io_mem.c:1035`; but a range strictly inside a page intercepts nothing,
  since `get_callback_info` compares the ends of the page only
  (`lib/io_mem.c:996`). "Remove the callback for the given range of memory",
  says `lib/io_mem.c:1062`; but the range stays in the list, and comes back with
  the next change of it and in pages created later, and what is cleared goes
  from the page after that of the first address, unless it starts there. With a spy, `io_mem.c` and
  `mem16.c` use names that are not declared, and the spy of an unaligned access
  is called twice.
- `decode_lru_cache.c` without `GLISS_NO_MALLOC` never stores the instruction in
  its entry. With several instruction sets, `decode_dtrace.c:343` fetches at
  `address` and not at the address of the loop, and `decode_trace.c` uses a name
  that is not declared; without profiled jumps `run_and_count_inst` of the trace
  build has braces that do not match (`templates/api.c:774`).
- `step` and `next_inst` of the dtrace build keep the run in a `static` variable
  (`templates/api.c:885`), shared by all simulators and reset by none of `new_sim`,
  `delete_sim`, `set_next_address` (`templates/api.c:1066`) and `run_sim`. In the middle of a
  run, a step after `set_next_address` executes the next instruction of that run and
  not the one at the address given; a step of a new simulator goes on in the
  entries of the one deleted. A run that starts at the exit address executes the
  instruction there, and without traces goes on.

Of the API, system calls and programs:

- `fork_state` returns nothing; `new_platform` frees nothing when a later
  allocation fails; `new_sim` leaks the simulator when its decoder fails.
- "To release the platform, use unlock_platform()", says `templates/api.c:54` of
  `new_platform`: but a new platform has no user, and unlocking it once brings its
  count to -1 and frees nothing. Once a state is built, the same call frees the
  platform under the state, as `lib/disasm/disasm.c:363` does; once the state is
  deleted the platform is freed already, and the call is on freed memory. Only an
  unlock that answers a lock ("matching", `templates/api.c:127`) is right.
- `close` never frees the entry of the table, so that a process exits after as
  many opens as the table has entries; `brk` of 0 is reported as a failure; a
  system call `exit` does nothing.
- A malformed file stops the loaders on an assertion (`lib/old_elf.c:850`). The
  loaders go by sections, not by segments; a section without bits that is named
  neither `.bss` nor `.sbss` is filled from the file.
- The proofs showed three conditions the loaders rely on. The size of the text
  is the end of the last section of the list (`lib/old_elf.c:632`): an empty
  section put after a longer one at the same address makes the copy too
  short. A section with data but with other flags than those of
  `lib/old_elf.c:710`, mergeable strings for instance, is told to be data and is
  not loaded. `GLISS_NOBITS_INIT` writes whole words (`lib/old_elf.c:959`): up to 3
  bytes after `.bss` are zeroed after they were loaded.
- "16 byte alignment for PowerPC stack pointer after initialization", says
  `lib/linux_env.c:143`; the size is rounded up to a multiple of 4
  (`lib/linux_env.c:144`), and `ProgramReady` states no more than that. The
  auxiliary vector, which is written according to `lib/linux_env.c:77` and drawn
  with its end AT_NULL at `lib/linux_env.c:158`, is not written, nor ended: there is no
  entry (`num_aux` is -1), and what follows the environment are the strings,
  which `ProgramReady` states.
- The profile is emptied when it is loaded (`lib/sim/sim.c:272`) and lost if the
  process is killed, or stopped before it wrote it, or in part if it is killed
  while it writes; the run that reads it next counts from uninitialised
  variables. `ProfileExact` says nothing of the instructions the file it began
  with does not tell about. It is named after the
  processor (`lib/sim/sim.c:755`), not after the program.
- `make_argv_from_file` returns nothing; the buffer of `-profile` is one byte
  short; the verbose loop looks at the end only after a step.
- The fetch tests the bits that tell instructions apart and no others: a word
  that is no instruction may be found as one.

## 6. Not modelled

- `csim_log`: output only. `csim_get_unit`: no code calls it. The clocks of
  cores: a clash is logged and changes nothing.
- `update_callback_infos` of `csim/mem.c`: never runs, its flag is never raised.
- `csim/gpio_ex.c` and `csim/test-fin.c`: test programs, one with no propagation
  between pins, one that does not compile as it stands.
- What the host does for system calls (files, times, names), and the transfer
  of buffers to the memory; the embedded versions of the calls and of the
  environment.
- Profiled jumps, which inline the instruction they execute; the buffers of the
  fetch for CISC and several instruction sets; accessors and dumps.
- `grt.c` and `gen_int.c`: pure arithmetic on words, without a state.
- The front end, the optimizer and the analyses, in OCaml: functional programs
  whose result is text; of the generator only the tables of fetch are modelled.
  The component generator, likewise.
- The debugger, the Python module, the tracer, the validators: command lines
  over the API and over another simulator.

## 7. Plan

Done: the schedule and its list, board, memory, I/O and GPIO of csim; decoders,
API, memories, platforms, loaders, simulator and fetch of GLISS; proofs about
all of them.

Left, the most important first:

1. *Schedule × board*: events owned by instances, deleted with events in the
   chain; the timer of `stm32/tc.nmp` as a client.
2. *Abstract agenda*: a set of dated events of which `CsimSchedule` is an
   implementation, first as a run, then as a theorem.
3. *Algorithms*: bit fields and rotations of `grt.c` and `gen_int.c` against
   reference definitions.
4. *Several simulators at a time*: the `static` run of the dtrace build, which
   `GlissSim` follows from one simulator to the next, shared by two of them.
