---------------------------- MODULE MCGlissFetch ----------------------------
(* The instructions and the words TLC gives to GlissFetch. *)
EXTENDS GlissFetch

(* Images of three bits, and of two, the latter for the instructions of a  *)
(* CISC; a set holds one, two or three of them, perhaps the same one twice,*)
(* or two whose first bit is 0 and two whose first bit is 1.               *)
Digit(d) == <<0, 1, X>>[d + 1]
Image(k) ==
  IF k < 27 THEN <<Digit(k \div 9), Digit((k \div 3) % 3), Digit(k % 3)>>
  ELSE <<<<1, 0>>, <<0, X>>, <<1, X>>>>[k - 26]
Codes == 0..29

MCSets ==
  {<<Image(i)>> : i \in Codes}
  \cup {<<Image(p[1]), Image(p[2])>> : p \in Codes \X Codes}
  \cup {<<Image(p[1]), Image(p[2]), Image(p[3])>> :
          p \in {q \in Codes \X Codes \X Codes : q[1] < q[2] /\ q[2] < q[3]}}
  \cup {<<Image(p[1]), Image(p[2]), Image(p[3]), Image(p[4])>> :
          p \in {q \in (0..8) \X (0..8) \X (9..17) \X (9..17) :
                  q[1] < q[2] /\ q[3] < q[4]}}

MCMemories == {<<b[1], b[2], b[3], 0>> : b \in [1..3 -> {0, 1}]}

============================================================================
