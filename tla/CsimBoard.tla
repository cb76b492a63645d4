------------------------------ MODULE CsimBoard ------------------------------
(***************************************************************************)
(* The component instances of a csim board, their ports and the cores      *)
(* (csim/csim.c): creation and deletion, connection and disconnection of   *)
(* ports, messages from port to port, and the walks over the instances     *)
(* that csim_run and csim_delete_board do while component code runs.       *)
(*                                                                         *)
(* A chain (board->insts, board->cores) is a sequence: the code only ever  *)
(* adds at the head, nothing is unlinked.  An instance is a malloc block:  *)
(* each is created at most once, so that a pointer kept after the free is  *)
(* recognised.  The clocks of the cores are left out: a clash is logged    *)
(* and changes nothing.                                                    *)
(*                                                                         *)
(* The main program, the steps of cores and destructors call what they     *)
(* like, with any instance they were given, in use or freed; a destructor  *)
(* may create and delete components too.  What reaches freed memory ends   *)
(* the model (fault).  liberty remembers what a caller does that may lead  *)
(* there: to delete a component, or, in a destructor csim_delete_board     *)
(* calls, to use the port of an instance created after its own.            *)
(***************************************************************************)
EXTENDS Integers, SequencesExt

CONSTANTS
  Inst,       (* the csim_inst_t objects                                   *)
  Port,       (* the csim_port_inst_t objects                              *)
  Owner,      (* the instance holding a port                               *)
  Core,       (* the instances whose component is a core                   *)
  NULL,       (* the null pointer                                          *)
  Cross,      (* callers disconnect ports that are not connected together  *)
  MaxNest     (* bound: destructors running at a time                      *)

ASSUME NULLAssumption == NULL \notin Inst \cup Port
ASSUME OwnerAssumption == Owner \in [Port -> Inst]
ASSUME CoreAssumption == Core \subseteq Inst
ASSUME CrossAssumption == Cross \in BOOLEAN /\ MaxNest \in Nat

VARIABLES
  life,       (* state of each instance: "raw", "live" or "freed"          *)
  insts,      (* the chain from board->insts                               *)
  cores,      (* the chain from board->cores                               *)
  link,       (* port->link of every port                                  *)
  pc,         (* "main"; "cores": the loop of csim_run over the cores;     *)
              (* "teardown": the loop of csim_delete_board; "gone"         *)
  cur,        (* the core whose step runs, or NULL                         *)
  dying,      (* the instances whose destructors run, the innermost first  *)
  nxt,        (* the local variable next of csim_delete_board              *)
  fault,      (* freed memory was read, written or freed                   *)
  owed,       (* history: the cores still to be stepped in this cycle      *)
  late,       (* history: the instances created by csim_delete_board's     *)
              (* destructors                                               *)
  liberty     (* history: a caller took one of the liberties               *)

walk == <<pc, cur, dying, nxt, owed>>
vars == <<life, insts, cores, link, walk, fault, late, liberty>>

Live == {i \in Inst : life[i] = "live"}

(* The element after i in the chain q, NULL at its end. *)
NextIn(q, i) ==
  IF Last(q) = i THEN NULL
  ELSE q[(CHOOSE j \in 1..Len(q) : q[j] = i) + 1]

FirstOf(q) == IF q = <<>> THEN NULL ELSE q[1]

Dangling(i) == i # NULL /\ i \notin Live

(* The instances in the chain before i: those created after it. *)
Younger(i) == {insts[j] : j \in 1..(CHOOSE j \in 1..Len(insts) : insts[j] = i) - 1}

-----------------------------------------------------------------------------
Init ==
  /\ life = [i \in Inst |-> "raw"]
  /\ insts = <<>> /\ cores = <<>>
  /\ link = [p \in Port |-> NULL]
  /\ pc = "main" /\ cur = NULL /\ dying = <<>> /\ nxt = NULL
  /\ fault = FALSE
  /\ owed = {} /\ late = {} /\ liberty = FALSE

(* The main program, the step of a core or a destructor is running. *)
CodeRuns == ~fault /\ (pc \in {"main", "cores"} \/ dying # <<>>)

(* Callers have the instances that were created, and use those in S. *)
Use(S) ==
  /\ CodeRuns
  /\ \A i \in S : life[i] # "raw"
  /\ fault' = (\E i \in S : Dangling(i))
  /\ liberty' = (liberty \/ (pc = "teardown" /\ S \cap (Younger(Last(dying)) \ late) # {}))
  /\ UNCHANGED <<life, insts, cores, walk, late>>

(* Variant: the new core hides those created before it. *)
NewComponentHidesCores(i) ==
  /\ CodeRuns
  /\ life[i] = "raw"
  /\ life' = [life EXCEPT ![i] = "live"]
  /\ insts' = <<i>> \o insts
  /\ cores' = IF i \in Core THEN <<i>> ELSE cores
  /\ link' = [p \in Port |-> IF Owner[p] = i THEN NULL ELSE link[p]]
  /\ late' = IF pc = "teardown" THEN late \cup {i} ELSE late
  /\ UNCHANGED <<walk, fault, liberty>>

(* csim_new_component.  What construct does of this board comes after. *)
NewComponent(i) ==
  /\ CodeRuns
  /\ life[i] = "raw"
  /\ life' = [life EXCEPT ![i] = "live"]
  /\ insts' = <<i>> \o insts
  /\ cores' = IF i \in Core THEN <<i>> \o cores ELSE cores
  /\ link' = [p \in Port |-> IF Owner[p] = i THEN NULL ELSE link[p]]
  /\ late' = IF pc = "teardown" THEN late \cup {i} ELSE late
  /\ UNCHANGED <<walk, fault, liberty>>

(* Variant: only the first port is checked. *)
ConnectUnchecked(p, q) ==
  /\ Use({Owner[p], Owner[q]})
  /\ link[p] = NULL
  /\ link' = IF fault' THEN link ELSE [link EXCEPT ![p] = q, ![q] = p]

(* csim_connect: refused when either port is connected.  The types of the  *)
(* ports are not looked at, so that ports have none here, and a port may   *)
(* be connected to itself.                                                 *)
Connect(p, q) ==
  /\ Use({Owner[p], Owner[q]})
  /\ link' = IF fault' \/ link[p] # NULL \/ link[q] # NULL THEN link
             ELSE [link EXCEPT ![p] = q, ![q] = p]

(* csim_disconnect clears both links without looking at them. *)
Disconnect(p, q) ==
  /\ Use({Owner[p], Owner[q]})
  /\ link[p] = q \/ Cross
  /\ link' = IF fault' THEN link ELSE [link EXCEPT ![p] = NULL, ![q] = NULL]

(* csim_send_digital, csim_mute: the update function of the linked port is *)
(* called with the linked port.                                            *)
Send(p) ==
  /\ Use({Owner[q] : q \in {p, link[p]} \ {NULL}})
  /\ UNCHANGED link

(* csim_delete_component reads the instance and calls its destructor; the  *)
(* end is DestructReturns.                                                 *)
DeleteComponent(i) ==
  /\ CodeRuns /\ life[i] # "raw"
  /\ Len(dying) < MaxNest
  /\ fault' = Dangling(i)
  /\ dying' = IF Dangling(i) THEN dying ELSE <<i>> \o dying
  /\ liberty' = TRUE
  /\ UNCHANGED <<life, insts, cores, link, pc, cur, nxt, owed, late>>

-----------------------------------------------------------------------------
(* csim_run reaches its loop over the cores. *)
BeginCores ==
  /\ CodeRuns /\ pc = "main" /\ dying = <<>>
  /\ cores # <<>>
  /\ fault' = Dangling(cores[1])
  /\ cur' = cores[1]
  /\ pc' = "cores"
  /\ owed' = Live \cap Core
  /\ UNCHANGED <<life, insts, cores, link, dying, nxt, late, liberty>>

(* core = core->next_core, and the next core is stepped. *)
CoreReturns ==
  /\ ~fault /\ pc = "cores" /\ dying = <<>>
  /\ LET n == NextIn(cores, cur) IN
       /\ cur' = n
       /\ pc' = IF n = NULL THEN "main" ELSE "cores"
       /\ fault' = (Dangling(cur) \/ Dangling(n))
  /\ owed' = owed \ {cur}
  /\ UNCHANGED <<life, insts, cores, link, dying, nxt, late, liberty>>

(* csim_delete_board enters its loop: next is read, then the destructor of *)
(* the first instance is called.                                           *)
DeleteBoard ==
  /\ CodeRuns /\ pc = "main" /\ dying = <<>>
  /\ dying' = IF insts = <<>> THEN <<>> ELSE <<insts[1]>>
  /\ nxt' = IF insts = <<>> THEN NULL ELSE NextIn(insts, insts[1])
  /\ fault' = Dangling(FirstOf(insts))
  /\ pc' = IF insts = <<>> THEN "gone" ELSE "teardown"
  /\ UNCHANGED <<life, insts, cores, link, cur, owed, late, liberty>>

(* csim_delete_board turns to the instance n: it reads next, and calls the *)
(* destructor; after the last it frees the I/O entries and the board.      *)
TurnTo(n) ==
  /\ dying' = IF n = NULL THEN <<>> ELSE <<n>>
  /\ nxt' = IF n = NULL THEN NULL ELSE NextIn(insts, n)
  /\ pc' = IF n = NULL THEN "gone" ELSE pc
  /\ fault' = (Dangling(dying[1]) \/ Dangling(n))

(* Whoever else called csim_delete_component goes on. *)
GoOn ==
  /\ dying' = Tail(dying)
  /\ fault' = Dangling(dying[1])
  /\ UNCHANGED <<pc, nxt>>

(* Variant: the loop ends before the last instance. *)
DestructReturnsBeforeLast ==
  /\ ~fault /\ dying # <<>>
  /\ life' = [life EXCEPT ![dying[1]] = "freed"]
  /\ IF pc = "teardown" /\ Len(dying) = 1
     THEN TurnTo(IF nxt \in {NULL, Last(insts)} THEN NULL ELSE nxt)
     ELSE GoOn
  /\ UNCHANGED <<insts, cores, link, cur, owed, late, liberty>>

(* Variant: the loop reads board->insts again. *)
DestructReturnsToHead ==
  /\ ~fault /\ dying # <<>>
  /\ life' = [life EXCEPT ![dying[1]] = "freed"]
  /\ IF pc = "teardown" /\ Len(dying) = 1
     THEN TurnTo(IF nxt = NULL THEN NULL ELSE insts[1])
     ELSE GoOn
  /\ UNCHANGED <<insts, cores, link, cur, owed, late, liberty>>

(* The destructor returns and the instance is freed, once more if its own  *)
(* destructor had it deleted.  csim_delete_board goes on with the instance *)
(* it had read before.                                                     *)
DestructReturns ==
  /\ ~fault /\ dying # <<>>
  /\ life' = [life EXCEPT ![dying[1]] = "freed"]
  /\ IF pc = "teardown" /\ Len(dying) = 1 THEN TurnTo(nxt) ELSE GoOn
  /\ UNCHANGED <<insts, cores, link, cur, owed, late, liberty>>

Next ==
  \/ \E i \in Inst : NewComponent(i) \/ DeleteComponent(i)
  \/ \E p, q \in Port : Connect(p, q) \/ Disconnect(p, q)
  \/ \E p \in Port : Send(p)
  \/ BeginCores \/ CoreReturns
  \/ DeleteBoard \/ DestructReturns

Spec == Init /\ [][Next]_vars

-----------------------------------------------------------------------------
TypeOK ==
  /\ life \in [Inst -> {"raw", "live", "freed"}]
  /\ insts \in Seq(Inst) /\ cores \in Seq(Core)
  /\ link \in [Port -> Port \cup {NULL}]
  /\ pc \in {"main", "cores", "teardown", "gone"}
  /\ cur \in Core \cup {NULL}
  /\ dying \in Seq(Inst) /\ nxt \in Inst \cup {NULL}
  /\ fault \in BOOLEAN
  /\ owed \subseteq Core
  /\ late \subseteq Inst /\ liberty \in BOOLEAN

(* A link is followed both ways, so that what a port sends and what it     *)
(* receives concern the same other port, and so that csim_disconnect       *)
(* leaves no half of a link.                                               *)
LinkSymmetric ==
  \A p \in Port : link[p] # NULL => link[link[p]] = p

(* csim/README: "A port can only be connected to one another port."  No    *)
(* port receives from two ports.                                           *)
OnePartner ==
  \A p, q \in Port : link[p] # NULL /\ link[p] = link[q] => p = q

(* Whatever components create, connect, disconnect and send, in their      *)
(* steps and in their destructors, no walk and no call reaches a freed     *)
(* instance, unless a component was deleted on its own or a destructor of  *)
(* csim_delete_board, which frees the youngest first, used a port of an    *)
(* instance younger than its own.                                          *)
OwnedSafe == fault => liberty

(* Each core of the board is stepped once in every cycle, also when the    *)
(* step of one core creates another or deletes one: the walk steps only    *)
(* cores that are owed a step and owes none at the end, unless it reaches  *)
(* freed memory.                                                           *)
SteppedOnce ==
  ~fault => IF pc = "cores" THEN cur \in owed ELSE owed = {}

(* csim_delete_board destructs and frees every instance there was when it  *)
(* was called, whatever order they were created in and whatever the        *)
(* destructors create, delete and connect; one a destructor creates stays  *)
(* for ever, unless a destructor deletes it.                               *)
AllFreed == pc = "gone" => Live \subseteq late

=============================================================================
