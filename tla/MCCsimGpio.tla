----------------------------- MODULE MCCsimGpio -----------------------------
(* Instances of CsimGpio for TLC: two components of three pins. *)
EXTENDS CsimGpio

CONSTANTS g1, g2

Ends == Gpios \X Pin

Linked(pairs) ==
  [e \in Ends |-> IF \E f \in Ends : {e, f} \in pairs
                  THEN CHOOSE f \in Ends : {e, f} \in pairs
                  ELSE NONE]

(* Nothing connected, pins to the same pins, pin 0 of each to another pin  *)
(* of the other, and a pin to itself.                                      *)
MCLinks ==
  { Linked({}),
    Linked({{<<g1, k>>, <<g2, k>>} : k \in Pin}),
    Linked({{<<g1, 0>>, <<g2, 1>>}, {<<g1, 1>>, <<g2, 0>>}}),
    Linked({{<<g1, 1>>}, {<<g1, 2>>, <<g2, 1>>}}) }

MCWords == {Pin}

MCModes == {[k \in Pin |-> IF k = 2 THEN INPUT ELSE OUTPUT]}

=============================================================================
