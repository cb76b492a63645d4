----------------------------- MODULE MCCsimBoard -----------------------------
(* Instances of CsimBoard for TLC: a core with two ports, a core and a     *)
(* device with one port each.                                              *)
EXTENDS CsimBoard

CONSTANTS i1, i2, i3, p1, p1b, p2, p3

MCOwner == [p \in Port |-> CASE p \in {p1, p1b} -> i1 [] p = p2 -> i2 [] p = p3 -> i3]

=============================================================================
