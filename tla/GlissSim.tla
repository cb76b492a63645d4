------------------------------ MODULE GlissSim ------------------------------
(***************************************************************************)
(* A simulator over its decoder: the functions of templates/api.c between  *)
(* new_sim and delete_sim, in their three versions, for no trace, for      *)
(* blocks (TRACE_CACHE) and for runs (DTRACE_CACHE).                       *)
(*                                                                         *)
(* Executing an instruction moves the program counter; a branch may fall   *)
(* through.  What it does besides is only seen here when it, or a device,  *)
(* rewrites the program: the action Write.                                 *)
(*                                                                         *)
(* In the dtrace build step keeps where it is in its run in a static       *)
(* variable: it goes on there whatever the program counter has become,     *)
(* whoever decoded since, and whatever simulator it is given.  drift tells *)
(* what happened to it.                                                    *)
(***************************************************************************)
EXTENDS GlissDecode

CONSTANTS
  Programs,   (* bound: the initial memories *)
  Rewrites,   (* bound: pairs <<address, word>> that may be written *)
  Starts,     (* bound: addresses set_next_address is given *)
  Exits       (* bound: exit addresses *)

ASSUME ProgramsAssumption ==
  /\ Programs \subseteq [Addr -> Word] /\ Rewrites \subseteq Addr \X Word
  /\ Starts \subseteq Addr /\ Exits \subseteq Addr

VARIABLES
  live,       (* number of allocated instructions *)
  pc, exit, ended,   (* state->NIA, sim->addr_exit, sim->ended *)
  loop,       (* where run_sim or run_and_count_inst is: its outer or its *)
              (* inner loop; "idle" outside of them, "none" without a sim *)
  fn,         (* which of both: "run", "count" *)
  inst,       (* the local inst or trace of the loops: <<entry, offset>>  *)
  traced,     (* the static inst of step in dtrace: <<entry, offset>> of  *)
              (* the instruction after the one executed, NULL at first    *)
  drift,      (* history, since step last decoded.  "moved": the program  *)
              (* counter was set otherwise, or another function decoded;  *)
              (* "freed": the entries were freed; "astray": step has read *)
              (* what is not there any more, and nothing is said of what  *)
              (* follows                                                  *)
  last,       (* history: the last instruction executed, [addr, word] *)
  held,       (* history: the words each address has held *)
  begun,      (* history: the run in progress executed an instruction *)
  over        (* history: a run that had begun executed the one at exit *)

run == <<loop, fn, inst, begun, over>>
static == <<traced, drift>>
vars == <<mem, policy, cache, live, pc, exit, ended, run, static, last, held>>

-----------------------------------------------------------------------------
Init ==
  /\ policy \in Policies
  /\ mem \in Programs
  /\ held = [a \in Addr |-> {mem[a]}]
  /\ pc = 0 /\ exit \in Exits
  /\ live = 0 /\ ended = FALSE /\ last = Nothing
  /\ loop = "idle" /\ fn = "run" /\ inst = NULL /\ begun = FALSE /\ over = FALSE
  /\ traced = NULL /\ drift = "no"
  /\ cells = NewTable.cells /\ head = NewTable.head /\ next = NewTable.next
  /\ idx = NewTable.idx /\ want = NewTable.want

(* $(proc)_code_table[inst->ident](state, inst). *)
Execute(i) ==
  /\ last' = i
  /\ pc' \in {After(pc)} \cup (IF IsBranch(i.word) THEN {Target[i.word]} ELSE {})

(* The entries Decode may return. *)
Places == DOMAIN cells \cup {<<Hash(pc), pc>>}

(* Variant: the offset is forgotten. *)
OffsetZero == 0

(* (NIA >> 2) & (TRACE_DEPTH - 1), added to what decode returns. *)
Offset == IF policy = "trace" THEN (pc \div InstSize) % TraceDepth ELSE 0

(* free_inst, unless the instruction is left in a cache. *)
Free(n) == IF policy = "plain" THEN live + n - 1 ELSE live + n

(* What others than step do to its static inst. *)
Drifted == IF traced # NULL /\ drift = "no" THEN "moved" ELSE drift

(* next_inst; the client frees what decode.c returned.  That of dtrace has *)
(* a static inst of its own: whether it is at the end of its run, and thus *)
(* calls decode, is left open.                                             *)
NextInst ==
  /\ loop = "idle"
  /\ \E e \in Places, n \in 0..1 : Decode(pc, e, n) /\ live' = Free(n)
  /\ drift' = Drifted
  /\ UNCHANGED <<mem, policy, pc, exit, ended, run, traced, last, held>>

(* decode at pc, then execution of what it returned. *)
DecodeAndExecute ==
  \E e \in Places, n \in 0..1 :
    /\ Decode(pc, e, n)
    /\ Offset < Len(cells'[e].insts)
    /\ Execute(cells'[e].insts[Offset + 1])
    /\ live' = Free(n)
    /\ traced' = IF policy = "dtrace" THEN <<e, 1>> ELSE NULL
    /\ drift' = "no"

(* Whether t points into its run, before its end (ident = -1). *)
Within(t) == t[2] < Len(cells[t[1]].insts)

Further(t) == [t EXCEPT ![2] = @ + 1]

ExecuteAt(t) == Execute(cells[t[1]].insts[t[2] + 1])

(* step of dtrace goes on in the run of the last step. *)
StepOn ==
  /\ ExecuteAt(traced) /\ traced' = Further(traced)
  /\ UNCHANGED <<cache, live, drift>>

Step ==
  /\ loop = "idle"
  /\ IF traced # NULL /\ drift # "freed" /\ Within(traced)
     THEN StepOn
     ELSE DecodeAndExecute
  /\ ended' = (ended \/ pc' = exit)
  /\ UNCHANGED <<mem, policy, exit, run, held>>

(* step of dtrace goes on in freed entries, or past the end of the run     *)
(* that has replaced its own.  What it reads there may also make it        *)
(* decode: Step.                                                           *)
StepAstray ==
  /\ loop = "idle" /\ traced # NULL
  /\ drift = "freed" \/ traced[2] > Len(cells[traced[1]].insts)
  /\ drift' = "astray"
  /\ UNCHANGED <<mem, policy, cache, live, pc, exit, ended, run, traced, last, held>>

-----------------------------------------------------------------------------
StartRun ==
  /\ loop = "idle"
  /\ loop' = "outer" /\ fn' \in {"run", "count"}
  /\ begun' = FALSE
  /\ UNCHANGED <<mem, policy, cache, live, pc, exit, ended, inst, over, static,
                 last, held>>

Watch == begun' = TRUE /\ over' = (over \/ (begun /\ pc = exit))

(* The condition of the outer loop; run_sim of the trace build looks at pc. *)
OuterEnds == IF policy = "trace" /\ fn = "run" THEN pc = exit ELSE ended

RunReturns ==
  /\ loop = "outer" /\ OuterEnds
  /\ loop' = "idle" /\ inst' = NULL
  /\ UNCHANGED <<mem, policy, cache, live, pc, exit, ended, fn, begun, over, static,
                 last, held>>

(* One turn of the loops without traces: the exit address is looked at     *)
(* after the execution only.                                               *)
RunCached ==
  /\ loop = "outer" /\ ~OuterEnds /\ policy \notin {"trace", "dtrace"}
  /\ DecodeAndExecute /\ Watch
  /\ ended' = (ended \/ pc' = exit)
  /\ UNCHANGED <<mem, policy, exit, loop, fn, inst, held>>

RunDecodeTrace ==
  /\ loop = "outer" /\ ~OuterEnds /\ policy \in {"trace", "dtrace"}
  /\ \E e \in Places, n \in 0..1 :
       Decode(pc, e, n) /\ live' = live + n /\ inst' = <<e, 0>>
  /\ loop' = "inner" /\ drift' = Drifted
  /\ UNCHANGED <<mem, policy, pc, exit, ended, fn, begun, over, traced, last, held>>

(* Whether the inner loops go on. *)
InBlock == cells[inst[1]].key = Block(pc) /\ pc # exit /\ (fn = "count" => ~ended)

(* Variant: the exit address is looked at between runs only. *)
InRunPastExit == Within(inst) /\ (fn = "count" => ~ended)

InRun == Within(inst) /\ pc # exit /\ (fn = "count" => ~ended)

(* Variant: the end is not noticed. *)
EndedNever == ended

(* What follows the inner loops; nothing does in run_sim of the trace build.*)
EndedAfterTrace ==
  IF policy = "trace" /\ fn = "run" THEN ended ELSE ended \/ pc = exit

RunTrace ==
  /\ loop = "inner" /\ policy = "trace"
  /\ IF InBlock
     THEN /\ Execute(cells[inst[1]].insts[Offset + 1]) /\ Watch
          /\ UNCHANGED <<loop, ended>>
     ELSE /\ loop' = "outer"
          /\ ended' = EndedAfterTrace
          /\ UNCHANGED <<pc, last, begun, over>>
  /\ UNCHANGED <<mem, policy, cache, live, exit, fn, inst, static, held>>

RunDtrace ==
  /\ loop = "inner" /\ policy = "dtrace"
  /\ IF InRun
     THEN /\ ExecuteAt(inst) /\ inst' = Further(inst) /\ Watch
          /\ UNCHANGED <<loop, ended>>
     ELSE /\ loop' = "outer"
          /\ ended' = EndedAfterTrace
          /\ UNCHANGED <<pc, last, inst, begun, over>>
  /\ UNCHANGED <<mem, policy, cache, live, exit, fn, static, held>>

Running == RunReturns \/ RunCached \/ RunDecodeTrace \/ RunTrace \/ RunDtrace

-----------------------------------------------------------------------------
(* set_next_address and set_exit_address. *)
SetNextAddress(a) ==
  /\ loop = "idle"
  /\ pc' = a /\ drift' = Drifted
  /\ UNCHANGED <<mem, policy, cache, live, exit, ended, run, traced, last, held>>

SetExitAddress(a) ==
  /\ loop = "idle"
  /\ exit' = a
  /\ UNCHANGED <<mem, policy, cache, live, pc, ended, run, static, last, held>>

(* delete_sim: hashtable_destroy frees the entries and their instructions. *)
Cached == {c \in DOMAIN cells : cells[c].key # NULL}

DeleteSim ==
  /\ loop = "idle"
  /\ loop' = "none"
  /\ live' = IF policy \in {"inf", "fixed"} THEN live - Cardinality(Cached) ELSE live
  /\ drift' = IF traced # NULL THEN "freed" ELSE drift
  /\ UNCHANGED <<mem, policy, cache, pc, exit, ended, fn, inst, begun, over, traced,
                 last, held>>

(* new_sim and the new_decoder it calls.  The static variables stay.       *)
NewSim ==
  /\ loop = "none"
  /\ pc' = 0 /\ exit' \in Exits
  /\ live' = 0 /\ ended' = FALSE /\ last' = Nothing
  /\ loop' = "idle" /\ fn' = "run" /\ inst' = NULL /\ begun' = FALSE /\ over' = FALSE
  /\ cells' = NewTable.cells /\ head' = NewTable.head /\ next' = NewTable.next
  /\ idx' = NewTable.idx /\ want' = NewTable.want
  /\ UNCHANGED <<mem, policy, static, held>>

(* The program is rewritten, by itself or by a device. *)
Write(a, w) ==
  /\ mem' = [mem EXCEPT ![a] = w]
  /\ held' = [held EXCEPT ![a] = @ \cup {w}]
  /\ UNCHANGED <<policy, cache, live, pc, exit, ended, run, static, last>>

Next ==
  /\ drift # "astray"
  /\ \/ NextInst \/ Step \/ StepAstray \/ StartRun \/ Running \/ DeleteSim \/ NewSim
     \/ \E a \in Starts : SetNextAddress(a)
     \/ \E a \in Exits : SetExitAddress(a)
     \/ \E r \in Rewrites : Write(r[1], r[2])

(* The functions that run the program are loops of the only thread: they   *)
(* go on.                                                                  *)
Spec == Init /\ [][Next]_vars /\ WF_vars(Running)

-----------------------------------------------------------------------------
TypeOK ==
  /\ mem \in [Addr -> Word] /\ policy \in Policies
  /\ pc \in Addr /\ exit \in Addr /\ ended \in BOOLEAN
  /\ loop \in {"none", "idle", "outer", "inner"} /\ fn \in {"run", "count"}
  /\ live \in Nat
  /\ drift \in {"no", "moved", "freed", "astray"}
  /\ drift # "no" => policy = "dtrace" /\ traced # NULL

(* A lookup hits on the right instructions: an entry with a key holds what *)
(* was decoded at that key, word by word something memory has held there.  *)
EntryOf(c) ==
  LET i == cells[c].insts IN
  /\ i # <<>> /\ i[1].addr = cells[c].key
  /\ \A k \in DOMAIN i : i[k].word \in held[i[k].addr]
  /\ \A k \in 1..(Len(i) - 1) : i[k + 1].addr = After(i[k].addr)

EntriesTrue == \A c \in Cached : EntryOf(c)

(* The replacement of entries: lists hold the keys last asked for, in that *)
(* order, whatever their next fields have become; a ring the keys last     *)
(* missed.                                                                 *)
Retained ==
  \A h \in 0..Size - 1 :
    LET n == Len(want[h])
        keys == {cells[c].key : c \in {x \in Cached : x[1] = h}}
    IN CASE policy \in {"plain", "inf"} -> TRUE
         [] policy = "fixed" -> keys = {want[h][k] : k \in 1..n}
         [] OTHER -> \A k \in 1..D :
              cells[Node(h, k)].key = IF k <= n THEN want[h][k] ELSE NULL

(* Every instruction allocated is freed once: by who executes it or by the *)
(* cache, when it replaces the entry or is destroyed.                      *)
NoLeak == loop = "none" => live = 0

(* A run executes no instruction at the exit address but its first one.    *)
StopsAtExit == ~over

(* Whatever the cache, execution is that of a machine without cache, but   *)
(* for words that were rewritten, of which an earlier one may be executed, *)
(* and but for a step of dtrace that goes on in its run although, since it *)
(* decoded that run, the program counter was set otherwise or another      *)
(* function has decoded.                                                   *)
Flat == INSTANCE FlatSim WITH stale <- policy # "plain"

ImplementsFlat ==
  Flat!Init /\ [][Flat!Next \/ (drift = "moved" /\ StepOn)]_<<mem, held, pc, last>>

(* A run of a program that never held a branch comes to the exit address   *)
(* and returns.                                                            *)
Straight == \A a \in Addr : \A w \in held[a] : ~IsBranch(w)

RunsReturn == []Straight => (loop = "outer" ~> loop = "idle")

=============================================================================
