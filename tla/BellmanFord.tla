----------------------------- MODULE BellmanFord -----------------------------
(***************************************************************************)
(* Distributed distance vectors, hands-on 17: ho17/bellman_ford.c.         *)
(*                                                                         *)
(* One process per node and one named pipe per direction of every link.  A *)
(* node that improves its distance to Target tells every neighbour but the *)
(* one it learned from; a node that hears nothing for MaxIdle timeouts of  *)
(* select in a row declares convergence and exits.  As in ho16, a read     *)
(* takes everything queued in a pipe and only the first number is used.    *)
(*                                                                         *)
(* Timing is an environment, chosen once, so that each property says what  *)
(* it needs:                                                               *)
(*   paced    nothing is written behind an unread message (the pauses of   *)
(*            one second spread the messages out);                         *)
(*   prompt   a node gives up only when nothing is under way anywhere (six *)
(*            seconds are longer than any wave takes to arrive).           *)
(***************************************************************************)
EXTENDS Naturals, Sequences

CONSTANTS N,             \* NUM_NODES
          Target,        \* TARGET_NODE
          Inf,           \* INF
          Cost,          \* cost_matrix
          MaxIdle,       \* timeouts in a row before a node exits: 3
          Shortest,      \* the minimum distances, of the comment of the source
          Environments,  \* which timings a run considers
          None

Nodes == 0..(N - 1)
Neighbours(n) == {i \in Nodes : Cost[n][i] # Inf /\ Cost[n][i] # 0}
Links == {l \in Nodes \X Nodes : l[2] \in Neighbours(l[1])}

ASSUME GraphAssumption ==
    /\ N \in Nat \ {0} /\ Target \in Nodes
    /\ Inf \in Nat \ {0} /\ MaxIdle \in Nat \ {0}
    /\ Cost \in [Nodes -> [Nodes -> Nat]]
    /\ \A i, j \in Nodes : Cost[i][j] = Cost[j][i]
    /\ \A n \in Nodes : Cost[n][n] = 0
    /\ Environments \subseteq [paced : BOOLEAN, prompt : BOOLEAN]
    /\ None \notin Nat

(* Costs are positive, so these equations have one solution.               *)
ASSUME ShortestAssumption ==
    /\ Shortest \in [Nodes -> 0..(Inf - 1)]
    /\ Shortest[Target] = 0
    /\ \A l \in Links : Shortest[l[1]] <= Shortest[l[2]] + Cost[l[1]][l[2]]
    /\ \A n \in Nodes \ {Target} :
          \E h \in Neighbours(n) : Shortest[n] = Shortest[h] + Cost[n][h]

VARIABLES env,
          pc,         \* "open", "select", "scan", "apply", "send", "done", "killed"
          dist, hop,  \* my_dist, next_hop
          idle,       \* timeout_counts
          ready,      \* members of read_fds not looked at yet
          sender, reported,   \* the message being handled
          todo, writing,      \* neighbours msg() must still reach; its open() has returned
          chan,       \* chan[<<i, j>>] is the pipe from i to j
          cleaned     \* main has waited for all and removed the pipes

input == <<ready, sender, reported>>
output == <<todo, writing>>
vars == <<env, pc, dist, hop, idle, input, output, chan, cleaned>>

Steps == {"open", "select", "scan", "apply", "send", "done", "killed"}

TypeOK == /\ env \in Environments
          /\ pc \in [Nodes -> Steps]
          /\ dist \in [Nodes -> 0..Inf]
          /\ hop \in [Nodes -> Nodes \cup {None}]
          /\ idle \in [Nodes -> 0..MaxIdle]
          /\ ready \in [Nodes -> SUBSET Nodes]
          /\ sender \in [Nodes -> Nodes]
          /\ reported \in [Nodes -> Nat]
          /\ todo \in [Nodes -> SUBSET Nodes]
          /\ writing \in [Nodes -> BOOLEAN]
          /\ chan \in [Links -> Seq(Nat)]
          /\ cleaned \in BOOLEAN

Init == /\ env \in Environments
        /\ pc = [n \in Nodes |-> "open"]
        /\ dist = [n \in Nodes |-> IF n = Target THEN 0 ELSE Inf]
        /\ hop = [n \in Nodes |-> IF n = Target THEN n ELSE None]
        /\ idle = [n \in Nodes |-> 0]
        /\ ready = [n \in Nodes |-> {}]
        /\ sender = [n \in Nodes |-> n]
        /\ reported = [n \in Nodes |-> 0]
        /\ todo = [n \in Nodes |-> {}]
        /\ writing = [n \in Nodes |-> FALSE]
        /\ chan = [l \in Links |-> <<>>]
        /\ cleaned = FALSE

-----------------------------------------------------------------------------
(* One node.                                                               *)

Gone == {"done", "killed"}
Goto(n, step) == pc' = [pc EXCEPT ![n] = step]
Lowest(S) == CHOOSE i \in S : \A j \in S : i <= j

After(n) == IF ready[n] = {} THEN "select" ELSE "scan"

(* Mutation: reading ends opened O_RDONLY, each waiting for its writer.    *)
OpenPipesBlocking(n) == /\ pc[n] = "open"
                        /\ \A i \in Neighbours(n) : n \in todo[i]
                        /\ Goto(n, "select")
                        /\ UNCHANGED <<env, dist, hop, idle, input, output, chan, cleaned>>

(* The reading ends of all pipes to n are opened; the target starts.       *)
OpenPipes(n) == /\ pc[n] = "open"
                /\ IF n = Target /\ Neighbours(n) # {}
                      THEN /\ todo' = [todo EXCEPT ![n] = Neighbours(n)]
                           /\ Goto(n, "send")
                      ELSE /\ Goto(n, "select")
                           /\ UNCHANGED todo
                /\ UNCHANGED <<env, dist, hop, idle, input, writing, chan, cleaned>>

HasInput(n) == {i \in Neighbours(n) : chan[<<i, n>>] # <<>>}

Select(n) == /\ pc[n] = "select"
             /\ idle[n] < MaxIdle
             /\ HasInput(n) # {}
             /\ ready' = [ready EXCEPT ![n] = HasInput(n)]
             /\ idle' = [idle EXCEPT ![n] = 0]
             /\ Goto(n, "scan")
             /\ UNCHANGED <<env, dist, hop, sender, reported, output, chan, cleaned>>

Quiet == /\ \A n \in Nodes : pc[n] \in {"select", "done"}
         /\ \A l \in Links : chan[l] = <<>>

(* Mutation: the loop goes on after the last timeout.                      *)
TimeoutForEver(n) == /\ pc[n] = "select"
                     /\ HasInput(n) = {}
                     /\ idle' = [idle EXCEPT ![n] = @ + 1]
                     /\ UNCHANGED <<env, pc, dist, hop, input, output, chan, cleaned>>

Timeout(n) == /\ pc[n] = "select"
              /\ idle[n] < MaxIdle
              /\ HasInput(n) = {}
              /\ (env.prompt /\ idle[n] + 1 = MaxIdle) => Quiet
              /\ idle' = [idle EXCEPT ![n] = @ + 1]
              /\ UNCHANGED <<env, pc, dist, hop, input, output, chan, cleaned>>

Exit(n) == /\ pc[n] = "select"
           /\ idle[n] = MaxIdle
           /\ Goto(n, "done")
           /\ UNCHANGED <<env, dist, hop, idle, input, output, chan, cleaned>>

Read(n) == /\ pc[n] = "scan"
           /\ ready[n] # {}
           /\ LET i == Lowest(ready[n])
              IN  /\ sender' = [sender EXCEPT ![n] = i]
                  /\ reported' = [reported EXCEPT ![n] = Head(chan[<<i, n>>])]
                  /\ ready' = [ready EXCEPT ![n] = @ \ {i}]
                  /\ chan' = [chan EXCEPT ![<<i, n>>] = <<>>]
           /\ Goto(n, "apply")
           /\ UNCHANGED <<env, dist, hop, idle, output, cleaned>>

(* Mutation: the cost of the link to the sender is left out.               *)
NewDistNoCost(n) == reported[n]

NewDist(n) == reported[n] + Cost[n][sender[n]]

(* Mutation: the neighbours are not told.                                  *)
ImproveSilently(n) == /\ pc[n] = "apply"
                      /\ NewDist(n) < dist[n]
                      /\ dist' = [dist EXCEPT ![n] = NewDist(n)]
                      /\ hop' = [hop EXCEPT ![n] = sender[n]]
                      /\ Goto(n, After(n))
                      /\ UNCHANGED <<env, idle, input, output, chan, cleaned>>

Improve(n) == /\ pc[n] = "apply"
              /\ NewDist(n) < dist[n]
              /\ dist' = [dist EXCEPT ![n] = NewDist(n)]
              /\ hop' = [hop EXCEPT ![n] = sender[n]]
              /\ LET others == Neighbours(n) \ {sender[n]}
                 IN  /\ todo' = [todo EXCEPT ![n] = others]
                     /\ Goto(n, IF others = {} THEN After(n) ELSE "send")
              /\ UNCHANGED <<env, idle, input, writing, chan, cleaned>>

(* Mutation: the route follows the last message, improved or not.          *)
IgnoreButReroute(n) == /\ pc[n] = "apply"
                       /\ NewDist(n) >= dist[n]
                       /\ hop' = [hop EXCEPT ![n] = sender[n]]
                       /\ Goto(n, After(n))
                       /\ UNCHANGED <<env, dist, idle, input, output, chan, cleaned>>

Ignore(n) == /\ pc[n] = "apply"
             /\ NewDist(n) >= dist[n]
             /\ Goto(n, After(n))
             /\ UNCHANGED <<env, dist, hop, idle, input, output, chan, cleaned>>

(* msg() to the neighbours in the order of their numbers.  open() waits    *)
(* for a reader; a write after the reader has exited raises SIGPIPE.       *)
NextReader(n) == Lowest(todo[n])

OpenPipe(n) == /\ pc[n] = "send"
               /\ ~writing[n]
               /\ pc[NextReader(n)] \notin Gone \cup {"open"}
               /\ writing' = [writing EXCEPT ![n] = TRUE]
               /\ UNCHANGED <<env, pc, dist, hop, idle, input, todo, chan, cleaned>>

Write(n) == /\ pc[n] = "send"
            /\ writing[n]
            /\ LET j == NextReader(n)
               IN  /\ pc[j] \notin Gone
                   /\ env.paced => chan[<<n, j>>] = <<>>
                   /\ chan' = [chan EXCEPT ![<<n, j>>] = Append(@, dist[n])]
                   /\ todo' = [todo EXCEPT ![n] = @ \ {j}]
                   /\ Goto(n, IF todo[n] = {j} THEN After(n) ELSE "send")
            /\ writing' = [writing EXCEPT ![n] = FALSE]
            /\ UNCHANGED <<env, dist, hop, idle, input, cleaned>>

BrokenPipe(n) == /\ pc[n] = "send"
                 /\ writing[n]
                 /\ pc[NextReader(n)] \in Gone
                 /\ Goto(n, "killed")
                 /\ UNCHANGED <<env, dist, hop, idle, input, output, chan, cleaned>>

Node(n) == \/ OpenPipes(n) \/ Select(n) \/ Timeout(n) \/ Exit(n)
           \/ Read(n) \/ Improve(n) \/ Ignore(n)
           \/ OpenPipe(n) \/ Write(n) \/ BrokenPipe(n)

CleanUp == /\ ~cleaned
           /\ \A n \in Nodes : pc[n] \in Gone
           /\ cleaned' = TRUE
           /\ UNCHANGED <<env, pc, dist, hop, idle, input, output, chan>>

Next == (\E n \in Nodes : Node(n)) \/ CleanUp

Fairness == /\ \A n \in Nodes : WF_vars(Node(n))
            /\ WF_vars(CleanUp)

Spec == Init /\ [][Next]_vars /\ Fairness

-----------------------------------------------------------------------------
(* Properties.                                                             *)

(* Whatever the timing and whatever is lost, no node believes it is closer *)
(* to the target than it is (bellman_ford.c:118-122).                      *)
NeverTooShort == \A n \in Nodes : dist[n] >= Shortest[n]

(* next_hop (bellman_ford.c:122) always leads to a node that is closer by  *)
(* the cost of the link or more, so following it from anywhere reaches the *)
(* target: there is no routing loop, not even for a moment.                *)
RoutesDescend ==
    \A n \in Nodes \ {Target} : hop[n] # None =>
        /\ hop[n] \in Neighbours(n)
        /\ dist[n] >= dist[hop[n]] + Cost[n][hop[n]]

(* When messages keep their distance and nobody gives up early, a node     *)
(* that has exited printed its shortest distance (bellman_ford.c:141).     *)
ExitsConverged ==
    env.paced /\ env.prompt =>
        \A n \in Nodes : pc[n] = "done" => dist[n] = Shortest[n]

(* When nobody gives up early, every node exits on its own and main cleans *)
(* up: no sender is left blocked in open (line 47) or killed in write.     *)
AllExit == env.prompt => <>(cleaned /\ \A n \in Nodes : pc[n] = "done")

(* main announces "Convergenza Assoluta Raggiunta" (bellman_ford.c:175)    *)
(* after the exit of all nodes: they hold the distances of lines 26-30.    *)
AbsoluteConvergence == cleaned => \A n \in Nodes : dist[n] = Shortest[n]
=============================================================================
