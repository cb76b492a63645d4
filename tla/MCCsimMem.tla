------------------------------ MODULE MCCsimMem ------------------------------
(* Instances of CsimMem for TLC: pages of two bytes. *)
EXTENDS CsimMem

(* Over two pages, within a page, and the last byte, where rounding up     *)
(* wraps around.                                                           *)
MCTwoPages == {<<1, 2>>, <<2, 2>>, <<Space - 1, Space - 1>>}

=============================================================================
