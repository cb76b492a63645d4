----------------------------- MODULE MCGlissSim -----------------------------
(* Instances of GlissSim for TLC. *)
EXTENDS GlissSim

CONSTANTS w1, w2, back

MCWord == {w1, w2, back}
MCTarget == [w \in MCWord |-> IF w = back THEN 0 ELSE NULL]

(* Straight code, and a loop. *)
MCPrograms == {[a \in Addr |-> w1],
               [a \in Addr |-> IF a = 16 THEN back ELSE w1]}

MCRewrites == {<<4, w2>>}
MCExits == {8}
MCStarts == {0, 12}

MCDepth == [p \in Policies |-> IF p = "lru" THEN 3 ELSE 2]

=============================================================================
