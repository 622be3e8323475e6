------------------------------ MODULE FloodMax ------------------------------
(***************************************************************************)
(* Leader election by rounds, hands-on 16: ho16/floodmax.c.                *)
(*                                                                         *)
(* In each of Diameter rounds a node writes its maximum to all neighbours, *)
(* then reads one message from each of them, in order, and blocks until it *)
(* is there.  Nothing else keeps the nodes in step.  A read takes every    *)
(* byte queued in the pipe and only the first number counts, so a node one *)
(* round ahead can make its neighbour lose a message; "paced" (chosen      *)
(* once) excludes that, as the pause of one second per round does.         *)
(***************************************************************************)
EXTENDS Naturals, Sequences

CONSTANTS N,           \* NUM_NODES
          Diameter,    \* DIAMETER
          Neighbours,  \* neighbors: for each node a sequence without repetition
          Uid          \* node_uids

Nodes == 0..(N - 1)
Adjacent(n) == {Neighbours[n][k] : k \in DOMAIN Neighbours[n]}

(* The nodes at most r links away.                                         *)
Ball[r \in 0..Diameter] ==
    [n \in Nodes |-> IF r = 0 THEN {n}
                     ELSE Ball[r - 1][n] \cup UNION {Ball[r - 1][m] : m \in Adjacent(n)}]

ASSUME GraphAssumption ==
    /\ N \in Nat \ {0} /\ Diameter \in Nat \ {0}
    /\ Neighbours \in [Nodes -> Seq(Nodes)]
    /\ \A n \in Nodes : Neighbours[n] # <<>> /\ \A m \in Adjacent(n) : n \in Adjacent(m)
    /\ \A n \in Nodes : \A i, j \in DOMAIN Neighbours[n] :
         Neighbours[n][i] = Neighbours[n][j] => i = j
    /\ Uid \in [Nodes -> Nat]
    /\ \A i, j \in Nodes : Uid[i] = Uid[j] => i = j

(* DIAMETER is the diameter of the network, or more.                       *)
ASSUME DiameterAssumption == \A n \in Nodes : Ball[Diameter][n] = Nodes

Links == {l \in Nodes \X Nodes : l[2] \in Adjacent(l[1])}

VARIABLES paced,
          pc,       \* "write", "read", "done"
          round, k, \* the loop variables r and i
          max, newMax,
          chan,     \* chan[<<i, j>>] is the pipe from i to j
          cleaned   \* main has waited for all and removed the pipes

vars == <<paced, pc, round, k, max, newMax, chan, cleaned>>

TypeOK == /\ paced \in BOOLEAN
          /\ pc \in [Nodes -> {"write", "read", "done"}]
          /\ round \in [Nodes -> 1..(Diameter + 1)]
          /\ k \in [Nodes -> Nat] /\ \A n \in Nodes : k[n] \in DOMAIN Neighbours[n]
          /\ max \in [Nodes -> Nat]
          /\ newMax \in [Nodes -> Nat]
          /\ chan \in [Links -> Seq(Nat)]
          /\ cleaned \in BOOLEAN

Init == /\ paced \in BOOLEAN
        /\ pc = [n \in Nodes |-> "write"]
        /\ round = [n \in Nodes |-> 1]
        /\ k = [n \in Nodes |-> 1]
        /\ max = Uid
        /\ newMax = Uid
        /\ chan = [l \in Links |-> <<>>]
        /\ cleaned = FALSE

-----------------------------------------------------------------------------

Goto(n, step) == pc' = [pc EXCEPT ![n] = step]
Larger(a, b) == IF b > a THEN b ELSE a
LastNeighbour(n) == k[n] = Len(Neighbours[n])

(* Mutation: the loop over the neighbours stops one short.                 *)
WriteFewer(n) == /\ pc[n] = "write"
                 /\ chan' = [chan EXCEPT ![<<n, Neighbours[n][1]>>] = Append(@, max[n])]
                 /\ newMax' = [newMax EXCEPT ![n] = max[n]]
                 /\ Goto(n, "read")
                 /\ UNCHANGED <<paced, round, k, max, cleaned>>

Write(n) == /\ pc[n] = "write"
            /\ LET l == <<n, Neighbours[n][k[n]]>>
               IN  /\ paced => chan[l] = <<>>
                   /\ chan' = [chan EXCEPT ![l] = Append(@, max[n])]
            /\ IF LastNeighbour(n)
                 THEN /\ k' = [k EXCEPT ![n] = 1]
                      /\ newMax' = [newMax EXCEPT ![n] = max[n]]
                      /\ Goto(n, "read")
                 ELSE /\ k' = [k EXCEPT ![n] = @ + 1]
                      /\ UNCHANGED <<newMax, pc>>
            /\ UNCHANGED <<paced, round, max, cleaned>>

Input(n) == <<Neighbours[n][k[n]], n>>
Received(n) == Larger(newMax[n], Head(chan[Input(n)]))

ReadOne(n) == /\ pc[n] = "read"
              /\ ~LastNeighbour(n)
              /\ chan[Input(n)] # <<>>
              /\ newMax' = [newMax EXCEPT ![n] = Received(n)]
              /\ chan' = [chan EXCEPT ![Input(n)] = <<>>]
              /\ k' = [k EXCEPT ![n] = @ + 1]
              /\ UNCHANGED <<paced, pc, round, max, cleaned>>

(* Mutation: one round less, "r < DIAMETER".                               *)
EndRoundEarly(n) == /\ pc[n] = "read"
                    /\ LastNeighbour(n)
                    /\ chan[Input(n)] # <<>>
                    /\ newMax' = [newMax EXCEPT ![n] = Received(n)]
                    /\ max' = [max EXCEPT ![n] = Received(n)]
                    /\ chan' = [chan EXCEPT ![Input(n)] = <<>>]
                    /\ round' = [round EXCEPT ![n] = @ + 1]
                    /\ k' = [k EXCEPT ![n] = 1]
                    /\ Goto(n, IF round[n] + 1 >= Diameter THEN "done" ELSE "write")
                    /\ UNCHANGED <<paced, cleaned>>

(* Mutation: one round more than the neighbours.                           *)
EndRoundLong(n) == /\ pc[n] = "read"
                   /\ LastNeighbour(n)
                   /\ chan[Input(n)] # <<>>
                   /\ newMax' = [newMax EXCEPT ![n] = Received(n)]
                   /\ max' = [max EXCEPT ![n] = Received(n)]
                   /\ chan' = [chan EXCEPT ![Input(n)] = <<>>]
                   /\ round' = [round EXCEPT ![n] = @ + 1]
                   /\ k' = [k EXCEPT ![n] = 1]
                   /\ Goto(n, IF round[n] > Diameter THEN "done" ELSE "write")
                   /\ UNCHANGED <<paced, cleaned>>

(* Mutation: the last message of a round is read and not looked at.        *)
EndRoundBlind(n) == /\ pc[n] = "read"
                    /\ LastNeighbour(n)
                    /\ chan[Input(n)] # <<>>
                    /\ max' = [max EXCEPT ![n] = newMax[n]]
                    /\ chan' = [chan EXCEPT ![Input(n)] = <<>>]
                    /\ round' = [round EXCEPT ![n] = @ + 1]
                    /\ k' = [k EXCEPT ![n] = 1]
                    /\ Goto(n, IF round[n] = Diameter THEN "done" ELSE "write")
                    /\ UNCHANGED <<paced, newMax, cleaned>>

EndRound(n) == /\ pc[n] = "read"
               /\ LastNeighbour(n)
               /\ chan[Input(n)] # <<>>
               /\ newMax' = [newMax EXCEPT ![n] = Received(n)]
               /\ max' = [max EXCEPT ![n] = Received(n)]
               /\ chan' = [chan EXCEPT ![Input(n)] = <<>>]
               /\ round' = [round EXCEPT ![n] = @ + 1]
               /\ k' = [k EXCEPT ![n] = 1]
               /\ Goto(n, IF round[n] = Diameter THEN "done" ELSE "write")
               /\ UNCHANGED <<paced, cleaned>>

Node(n) == Write(n) \/ ReadOne(n) \/ EndRound(n)

CleanUp == /\ ~cleaned
           /\ \A n \in Nodes : pc[n] = "done"
           /\ cleaned' = TRUE
           /\ UNCHANGED <<paced, pc, round, k, max, newMax, chan>>

Next == (\E n \in Nodes : Node(n)) \/ CleanUp

Fairness == /\ \A n \in Nodes : WF_vars(Node(n))
            /\ WF_vars(CleanUp)

Spec == Init /\ [][Next]_vars /\ Fairness

-----------------------------------------------------------------------------
(* Properties.                                                             *)

IsMaxOf(u, S) == (\E n \in S : Uid[n] = u) /\ (\A n \in S : Uid[n] <= u)

(* The free-running processes compute what the synchronous algorithm does: *)
(* after r rounds a node holds no less than any identifier at most r links *)
(* away, and one of those (floodmax.c:45-67).  Only where messages are lost *)
(* and there are more rounds than the program's two may a round find a     *)
(* later one's maximum, which has come from farther away.                  *)
SynchronousRounds ==
    \A n \in Nodes : LET near == Ball[round[n] - 1][n]
                    IN  /\ \A m \in near : Uid[m] <= max[n]
                        /\ paced \/ Diameter <= 2 => \E m \in near : Uid[m] = max[n]

(* A node that has decided (floodmax.c:69-73) agrees with every other one, *)
(* so exactly one of them proclaims itself.                                *)
Agreement == \A n \in Nodes : pc[n] = "done" => IsMaxOf(max[n], Nodes)

(* As long as no round overtakes an unread message, all nodes decide after *)
(* Diameter rounds and no node is left in a read, so main cleans up.       *)
AllDecide == paced => <>cleaned
=============================================================================
