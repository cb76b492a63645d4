------------------------------ MODULE FlatSim ------------------------------
(***************************************************************************)
(* What a simulator promises: the instruction at the program counter is    *)
(* executed, as memory holds it, or, when the simulator may keep decoded   *)
(* instructions, as memory has held it.                                    *)
(***************************************************************************)
EXTENDS Integers

CONSTANTS Slots, Word, Target, NULL

VARIABLES
  mem, held,  (* the words in memory, and those that were *)
  pc,
  last,       (* the last instruction executed *)
  stale       (* whether decoded instructions may be kept *)

Space == 4 * Slots
Addr == {4 * i : i \in 0..Slots - 1}

Init == /\ mem \in [Addr -> Word]
        /\ held = [a \in Addr |-> {mem[a]}]
        /\ pc \in Addr
        /\ last = [addr |-> NULL, word |-> NULL]

Execute ==
  \E w \in (IF stale THEN held[pc] ELSE {mem[pc]}) :
    /\ last' = [addr |-> pc, word |-> w]
    /\ pc' = (pc + 4) % Space \/ (Target[w] # NULL /\ pc' = Target[w])
    /\ UNCHANGED <<mem, held>>

Jump == pc' \in Addr /\ UNCHANGED <<mem, held, last>>

(* Another simulator over the same memory. *)
Restart == pc' \in Addr /\ last' = [addr |-> NULL, word |-> NULL] /\ UNCHANGED <<mem, held>>

Write ==
  \E a \in Addr, w \in Word :
    /\ mem' = [mem EXCEPT ![a] = w]
    /\ held' = [held EXCEPT ![a] = @ \cup {w}]
    /\ UNCHANGED <<pc, last>>

Next == Execute \/ Jump \/ Restart \/ Write

=============================================================================
