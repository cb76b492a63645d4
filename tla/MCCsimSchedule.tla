--------------------------- MODULE MCCsimSchedule ---------------------------
(* Instances of CsimSchedule for TLC: three events, one of them periodic.  *)
EXTENDS CsimSchedule

CONSTANTS e1, e2, e3

MCPeriod == [e \in Event |-> IF e = e3 THEN 1 ELSE 0]

=============================================================================
