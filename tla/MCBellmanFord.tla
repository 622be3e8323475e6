--------------------------- MODULE MCBellmanFord ---------------------------
(* The network of ho17/bellman_ford.c and the distances of its comment.    *)
EXTENDS BellmanFord

X == 999
CostRows == << <<0, 2, 5, X>>, <<2, 0, 1, 4>>, <<5, 1, 0, 1>>, <<X, 4, 1, 0>> >>
ProgramCost == [i \in 0..3 |-> [j \in 0..3 |-> CostRows[i + 1][j + 1]]]
Comment == <<0, 2, 3, 4>>
ProgramShortest == [n \in 0..3 |-> Comment[n + 1]]

Env(paced, prompt) == [paced |-> paced, prompt |-> prompt]
(* What happens when messages keep their distance and nodes give up early  *)
(* is among what happens with no restriction: Env(TRUE, FALSE) is not run. *)
AnyTiming == {Env(TRUE, TRUE), Env(FALSE, TRUE), Env(FALSE, FALSE)}
OnlyPrompt == {Env(FALSE, TRUE)}
=============================================================================
