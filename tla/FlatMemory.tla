----------------------------- MODULE FlatMemory -----------------------------
(***************************************************************************)
(* What a memory of the simulator promises to its users: an array of       *)
(* bytes over a circular address space, all zero at first.  A load returns *)
(* what the last stores to each of its addresses wrote; an access that a   *)
(* device intercepts returns whatever the device says and stores nothing.  *)
(***************************************************************************)
EXTENDS Integers, Sequences

CONSTANTS
  Space,      (* number of addresses *)
  Byte,       (* values of a byte, 0 among them *)
  Sizes       (* numbers of bytes one access moves *)

VARIABLES
  flat,       (* the bytes *)
  last        (* the last access: [op, at, bytes] *)

Addr == 0..Space - 1

(* The address n bytes after a. *)
Plus(a, n) == (a + n) % Space

(* The place of address x in a block that starts at a. *)
Place(x, a) == (x - a + Space) % Space

Access(op, a, bytes) == [op |-> op, at |-> a, bytes |-> bytes]

Idle == Access("none", 0, <<>>)

Init ==
  /\ flat = [a \in Addr |-> 0]
  /\ last = Idle

Load(a, n) ==
  /\ last' = Access("load", a, [k \in 1..n |-> flat[Plus(a, k - 1)]])
  /\ flat' = flat

Store(a, buf) ==
  /\ last' = Access("store", a, buf)
  /\ flat' = [x \in Addr |->
                IF Place(x, a) < Len(buf) THEN buf[Place(x, a) + 1] ELSE flat[x]]

Device(a, buf) ==
  /\ last' = Access("device", a, buf)
  /\ flat' = flat

(* An operation that concerns no byte. *)
Other == last' = Idle /\ flat' = flat

Next ==
  \/ Other
  \/ \E a \in Addr, n \in Sizes :
       \/ Load(a, n)
       \/ \E buf \in [1..n -> Byte] : Store(a, buf) \/ Device(a, buf)

Spec == Init /\ [][Next]_<<flat, last>>

=============================================================================
