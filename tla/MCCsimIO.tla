------------------------------ MODULE MCCsimIO ------------------------------
(* Instances of CsimIO for TLC: three components over an address space of  *)
(* three pages of four bytes.                                              *)
EXTENDS CsimIO

CONSTANTS i1, i2, i3

R(offset, size, count, stride) ==
  [offset |-> offset, size |-> size, count |-> count, stride |-> stride]

(* i1 has an array over two pages and a register in front of it, i2 shares *)
(* a page and an address with it, i3 starts at the end of the address      *)
(* space and wraps around it.                                              *)
MCBase == [i \in Inst |-> CASE i = i1 -> 0 [] i = i2 -> 4 [] i = i3 -> 10]

MCRegs ==
  [i \in Inst |->
     CASE i = i1 -> <<R(0, 2, 1, 2), R(2, 1, 3, 2)>>
       [] i = i2 -> <<R(0, 1, 2, 1)>>
       [] i = i3 -> <<R(1, 1, 2, 1)>>]

=============================================================================
