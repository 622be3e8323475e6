----------------------------- MODULE MCFlooding -----------------------------
(* The diamond of ho15/flooding.c.                                         *)
EXTENDS Flooding

Diamond == << <<1, 2>>, <<0, 3>>, <<0, 3>>, <<1, 2>> >>
ProgramNeighbours == [n \in 0..3 |-> Diamond[n + 1]]
=============================================================================
