-------------------------------- MODULE LCR --------------------------------
(***************************************************************************)
(* Leader election on a ring, hands-on 16: ho16/lcr.c.                     *)
(*                                                                         *)
(* One process per node; node n writes into one named pipe, chan[n], which *)
(* its successor reads.  A read takes every byte queued in the pipe and    *)
(* the node looks at the first message only: messages queued behind it are *)
(* lost.  The one second pause of each node after a read is what keeps     *)
(* messages apart, so two environments are modelled, chosen once:          *)
(*   paced      nothing is written behind an unread message;               *)
(*   not paced  any interleaving, with the losses above.                   *)
(* is_participant is written and never read by the program: left out.      *)
(***************************************************************************)
EXTENDS Naturals, Sequences, FiniteSets

CONSTANTS N,     \* NUM_NODES
          Uid,   \* node_uids
          None   \* no leader known yet

Nodes == 0..(N - 1)

ASSUME RingAssumption ==
    /\ N \in Nat \ {0}
    /\ Uid \in [Nodes -> Nat]
    /\ \A i, j \in Nodes : Uid[i] = Uid[j] => i = j
    /\ None \notin Nat

VARIABLES paced,     \* the environment
          pc,        \* of each node: "start", "read", "handle", "done"
          held,      \* the message a node has read (buf)
          chan,      \* chan[n] is the pipe from n to its successor
          leader,    \* the leader a node stopped with
          cleaned    \* main has waited for all and removed the pipes

vars == <<paced, pc, held, chan, leader, cleaned>>

Succ(n) == IF n = N - 1 THEN 0 ELSE n + 1
Pred(n) == IF n = 0 THEN N - 1 ELSE n - 1

Uids == {Uid[n] : n \in Nodes}
Message == [kind : {"UID", "LEADER"}, uid : Uids]
UidMsg(u) == [kind |-> "UID", uid |-> u]
LeaderMsg(u) == [kind |-> "LEADER", uid |-> u]

TypeOK == /\ paced \in BOOLEAN
          /\ pc \in [Nodes -> {"start", "read", "handle", "done"}]
          /\ held \in [Nodes -> Message]
          /\ chan \in [Nodes -> Seq(Message)]
          /\ leader \in [Nodes -> Uids \cup {None}]
          /\ cleaned \in BOOLEAN

Init == /\ paced \in BOOLEAN
        /\ pc = [n \in Nodes |-> "start"]
        /\ held = [n \in Nodes |-> UidMsg(Uid[n])]
        /\ chan = [n \in Nodes |-> <<>>]
        /\ leader = [n \in Nodes |-> None]
        /\ cleaned = FALSE

-----------------------------------------------------------------------------
(* One node.                                                               *)

(* Mutation: the length is one short, the last digit is cut off.           *)
WriteShort(n, m) == /\ paced => chan[n] = <<>>
                    /\ chan' = [chan EXCEPT ![n] = Append(@, [m EXCEPT !.uid = @ \div 10])]

Write(n, m) == /\ paced => chan[n] = <<>>
               /\ chan' = [chan EXCEPT ![n] = Append(@, m)]

Goto(n, step) == pc' = [pc EXCEPT ![n] = step]

(* Mutation: the node announces itself again and again.                    *)
StartAgain(n) == /\ pc[n] = "start"
                 /\ Write(n, UidMsg(Uid[n]))
                 /\ UNCHANGED <<paced, pc, held, leader, cleaned>>

Start(n) == /\ pc[n] = "start"
            /\ Write(n, UidMsg(Uid[n]))
            /\ Goto(n, "read")
            /\ UNCHANGED <<paced, held, leader, cleaned>>

Read(n) == /\ pc[n] = "read"
           /\ chan[Pred(n)] # <<>>
           /\ held' = [held EXCEPT ![n] = Head(chan[Pred(n)])]
           /\ chan' = [chan EXCEPT ![Pred(n)] = <<>>]
           /\ Goto(n, "handle")
           /\ UNCHANGED <<paced, leader, cleaned>>

Handles(n, kind) == pc[n] = "handle" /\ held[n].kind = kind

ForwardUid(n) == /\ Handles(n, "UID")
                 /\ held[n].uid > Uid[n]
                 /\ Write(n, held[n])
                 /\ Goto(n, "read")
                 /\ UNCHANGED <<paced, held, leader, cleaned>>

DiscardUid(n) == /\ Handles(n, "UID")
                 /\ held[n].uid < Uid[n]
                 /\ Goto(n, "read")
                 /\ UNCHANGED <<paced, held, chan, leader, cleaned>>

(* Mutation: a node that beats its predecessor proclaims itself.           *)
BecomeLeaderEarly(n) == /\ Handles(n, "UID")
                        /\ held[n].uid <= Uid[n]
                        /\ Write(n, LeaderMsg(Uid[n]))
                        /\ Goto(n, "read")
                        /\ UNCHANGED <<paced, held, leader, cleaned>>

BecomeLeader(n) == /\ Handles(n, "UID")
                   /\ held[n].uid = Uid[n]
                   /\ Write(n, LeaderMsg(Uid[n]))
                   /\ Goto(n, "read")
                   /\ UNCHANGED <<paced, held, leader, cleaned>>

Stop(n) == /\ leader' = [leader EXCEPT ![n] = held[n].uid]
           /\ Goto(n, "done")
           /\ UNCHANGED <<paced, held, cleaned>>

(* Mutation: the announcement is passed on by a node that goes on reading. *)
ForwardAndStay(n) == /\ Handles(n, "LEADER")
                     /\ held[n].uid # Uid[n]
                     /\ Write(n, held[n])
                     /\ Goto(n, "read")
                     /\ UNCHANGED <<paced, held, leader, cleaned>>

(* Mutation: the node stops without passing the announcement on.           *)
StopSilently(n) == /\ Handles(n, "LEADER")
                   /\ held[n].uid # Uid[n]
                   /\ Stop(n)
                   /\ UNCHANGED chan

ForwardLeader(n) == /\ Handles(n, "LEADER")
                    /\ held[n].uid # Uid[n]
                    /\ Write(n, held[n])
                    /\ Stop(n)

LeaderReturns(n) == /\ Handles(n, "LEADER")
                    /\ held[n].uid = Uid[n]
                    /\ Stop(n)
                    /\ UNCHANGED chan

Node(n) == \/ Start(n) \/ Read(n)
           \/ ForwardUid(n) \/ DiscardUid(n) \/ BecomeLeader(n)
           \/ ForwardLeader(n) \/ LeaderReturns(n)

(* main waits for its N children, then removes the pipes.                  *)
CleanUp == /\ ~cleaned
           /\ \A n \in Nodes : pc[n] = "done"
           /\ cleaned' = TRUE
           /\ UNCHANGED <<paced, pc, held, chan, leader>>

Next == (\E n \in Nodes : Node(n)) \/ CleanUp

Fairness == /\ \A n \in Nodes : WF_vars(Node(n))
            /\ WF_vars(CleanUp)

Spec == Init /\ [][Next]_vars /\ Fairness

-----------------------------------------------------------------------------
(* Properties.                                                             *)

IsMax(u) == \A n \in Nodes : Uid[n] <= u

(* A node only ever stops with the maximum identifier, and no other leader *)
(* is announced: the election of lcr.c:69-73 is right whatever is lost.    *)
LeaderIsMax ==
    /\ \A n \in Nodes : leader[n] # None => IsMax(leader[n])
    /\ \A n \in Nodes : \A i \in 1..Len(chan[n]) :
          chan[n][i].kind = "LEADER" => IsMax(chan[n][i].uid)

(* When the leader sees its announcement come back (lcr.c:50-52), every    *)
(* other node has stopped with it: nobody is left behind in a read.        *)
LeaderStopsLast ==
    \A n \in Nodes : pc[n] = "done" /\ leader[n] = Uid[n]
                     => \A k \in Nodes : leader[k] = Uid[n]

(* What is queued in a pipe fits the 64 bytes of buf (lcr.c:43-44), so a   *)
(* read never cuts a message in two.  That is said of identifiers of at    *)
(* most two digits, as those of node_uids are: with its terminating zero   *)
(* "UID:%d" then takes at most 7 bytes and "LEADER:%d" at most 10.         *)
TwoDigits == \A n \in Nodes : Uid[n] < 100
BufSize == 64
Queued(n, kind) == {i \in DOMAIN chan[n] : chan[n][i].kind = kind}
Bytes(n) == 10 * Cardinality(Queued(n, "LEADER")) + 7 * Cardinality(Queued(n, "UID"))
ReadTakesAll == TwoDigits => \A n \in Nodes : Bytes(n) <= BufSize

(* As long as no message queues up behind another, everyone stops with the *)
(* maximum and main cleans up.                                             *)
AllElected == \A n \in Nodes : leader[n] # None /\ IsMax(leader[n])
Elected == paced => <>(AllElected /\ cleaned)
=============================================================================
