----------------------------- MODULE MCFloodMax -----------------------------
(* The diamond of ho16/floodmax.c.                                         *)
EXTENDS FloodMax

Diamond == << <<1, 2>>, <<0, 3>>, <<0, 3>>, <<1, 2>> >>
ProgramNeighbours == [n \in 0..3 |-> Diamond[n + 1]]
Uids == <<10, 50, 20, 30>>
ProgramUid == [n \in 0..3 |-> Uids[n + 1]]
=============================================================================
