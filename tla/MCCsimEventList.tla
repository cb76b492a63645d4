--------------------------- MODULE MCCsimEventList ---------------------------
(* Instances of CsimEventList for TLC: three events, one of them periodic, *)
(* or three one-shot events.                                               *)
EXTENDS CsimEventList

CONSTANTS e1, e2, e3

MCPeriod == [e \in Event |-> IF e = e3 THEN 1 ELSE 0]
MCOneShot == [e \in Event |-> 0]

=============================================================================
