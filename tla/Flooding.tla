------------------------------ MODULE Flooding ------------------------------
(***************************************************************************)
(* Flooding of one message through a network, hands-on 15: ho15/flooding.c.*)
(*                                                                         *)
(* One process per agent and one named pipe per direction of every link.   *)
(* The initiator sends to all its neighbours; an agent that hears the      *)
(* message for the first time passes it on to all but the sender, and      *)
(* drops it afterwards.  After MaxIdle timeouts of select in a row an      *)
(* agent exits.  There is one message text, so a pipe is a count; a read   *)
(* takes everything queued in it.                                          *)
(*                                                                         *)
(* "prompt", chosen once: an agent gives up only when nothing is under way *)
(* (three seconds are longer than the wave takes).                         *)
(***************************************************************************)
EXTENDS Naturals, Sequences

CONSTANTS N,           \* MAX_AGENTS
          Initiator,
          Neighbours,  \* neighbors: for each agent a sequence without repetition
          MaxIdle      \* timeouts in a row before an agent exits: 3

Agents == 0..(N - 1)
Adjacent(n) == {Neighbours[n][k] : k \in DOMAIN Neighbours[n]}
Links == {l \in Agents \X Agents : l[2] \in Adjacent(l[1])}

ASSUME GraphAssumption ==
    /\ N \in Nat \ {0} /\ Initiator \in Agents /\ MaxIdle \in Nat \ {0}
    /\ Neighbours \in [Agents -> Seq(Agents)]
    /\ \A n \in Agents : \A m \in Adjacent(n) : n \in Adjacent(m)
    /\ \A n \in Agents : \A j, k \in DOMAIN Neighbours[n] :
         Neighbours[n][j] = Neighbours[n][k] => j = k

(* The network is connected: every part of it that holds the initiator and *)
(* is not all of it has a link that leads out.                             *)
ASSUME ConnectedAssumption ==
    \A S \in SUBSET Agents : Initiator \in S /\ S # Agents =>
        \E l \in Links : l[1] \in S /\ l[2] \notin S

VARIABLES prompt,
          pc,        \* "open", "select", "scan", "send", "done", "killed"
          informed,  \* state is DONE
          source,    \* the sender the agent was informed by; itself before
          idle,      \* cycles_idle
          ready,     \* positions in read_fds not looked at yet
          todo, writing,  \* positions msg() must still reach; its open() has returned
          chan,      \* chan[<<i, j>>]: messages queued in the pipe from i to j
          cleaned    \* the master has waited for all and removed the pipes

vars == <<prompt, pc, informed, source, idle, ready, todo, writing, chan, cleaned>>

Positions(n) == DOMAIN Neighbours[n]

TypeOK == /\ prompt \in BOOLEAN
          /\ pc \in [Agents -> {"open", "select", "scan", "send", "done", "killed"}]
          /\ informed \in [Agents -> BOOLEAN]
          /\ source \in [Agents -> Agents]
          /\ idle \in [Agents -> 0..MaxIdle]
          /\ ready \in [Agents -> SUBSET Nat] /\ todo \in [Agents -> SUBSET Nat]
          /\ \A n \in Agents : ready[n] \subseteq Positions(n) /\ todo[n] \subseteq Positions(n)
          /\ writing \in [Agents -> BOOLEAN]
          /\ chan \in [Links -> Nat]
          /\ cleaned \in BOOLEAN

Init == /\ prompt \in BOOLEAN
        /\ pc = [n \in Agents |-> "open"]
        /\ informed = [n \in Agents |-> FALSE]
        /\ source = [n \in Agents |-> n]
        /\ idle = [n \in Agents |-> 0]
        /\ ready = [n \in Agents |-> {}]
        /\ todo = [n \in Agents |-> {}]
        /\ writing = [n \in Agents |-> FALSE]
        /\ chan = [l \in Links |-> 0]
        /\ cleaned = FALSE

-----------------------------------------------------------------------------
(* One agent.                                                              *)

Gone == {"done", "killed"}
Goto(n, step) == pc' = [pc EXCEPT ![n] = step]
Lowest(S) == CHOOSE i \in S : \A j \in S : i <= j

(* Mutation: reading ends opened O_RDONLY, each waiting for its writer.    *)
OpenPipesBlocking(n) == /\ pc[n] = "open"
                        /\ \A m \in Adjacent(n) : pc[m] = "send"
                        /\ Goto(n, "select")
                        /\ UNCHANGED <<prompt, informed, source, idle, ready, todo, writing, chan, cleaned>>

OpenPipes(n) == /\ pc[n] = "open"
                /\ IF n = Initiator
                     THEN /\ informed' = [informed EXCEPT ![n] = TRUE]
                          /\ todo' = [todo EXCEPT ![n] = Positions(n)]
                          /\ Goto(n, "send")
                     ELSE /\ Goto(n, "select")
                          /\ UNCHANGED <<informed, todo>>
                /\ UNCHANGED <<prompt, source, idle, ready, writing, chan, cleaned>>

HasInput(n) == {k \in Positions(n) : chan[<<Neighbours[n][k], n>>] > 0}

Select(n) == /\ pc[n] = "select"
             /\ idle[n] < MaxIdle
             /\ HasInput(n) # {}
             /\ ready' = [ready EXCEPT ![n] = HasInput(n)]
             /\ Goto(n, "scan")
             /\ UNCHANGED <<prompt, informed, source, idle, todo, writing, chan, cleaned>>

Quiet == /\ \A n \in Agents : pc[n] \in {"select", "done"}
         /\ \A l \in Links : chan[l] = 0

(* Mutation: the loop goes on after the last timeout.                      *)
TimeoutForEver(n) == /\ pc[n] = "select"
                     /\ HasInput(n) = {}
                     /\ idle' = [idle EXCEPT ![n] = @ + 1]
                     /\ UNCHANGED <<prompt, pc, informed, source, ready, todo, writing, chan, cleaned>>

Timeout(n) == /\ pc[n] = "select"
              /\ idle[n] < MaxIdle
              /\ HasInput(n) = {}
              /\ (prompt /\ idle[n] + 1 = MaxIdle) => Quiet
              /\ idle' = [idle EXCEPT ![n] = @ + 1]
              /\ UNCHANGED <<prompt, pc, informed, source, ready, todo, writing, chan, cleaned>>

Exit(n) == /\ pc[n] = "select"
           /\ idle[n] = MaxIdle
           /\ Goto(n, "done")
           /\ UNCHANGED <<prompt, informed, source, idle, ready, todo, writing, chan, cleaned>>

From(n) == Neighbours[n][Lowest(ready[n])]

(* Mutation: the message is sent back to the sender too.                   *)
Everyone(n) == Positions(n)

Others(n) == {k \in Positions(n) : Neighbours[n][k] # From(n)}

TakeInput(n) == /\ pc[n] = "scan"
                /\ ready[n] # {}
                /\ ready' = [ready EXCEPT ![n] = @ \ {Lowest(ready[n])}]
                /\ chan' = [chan EXCEPT ![<<From(n), n>>] = 0]
                /\ idle' = [idle EXCEPT ![n] = 0]

(* Mutation: the agent is informed and passes nothing on.                  *)
InformOnly(n) == /\ TakeInput(n)
                 /\ ~informed[n]
                 /\ informed' = [informed EXCEPT ![n] = TRUE]
                 /\ source' = [source EXCEPT ![n] = From(n)]
                 /\ UNCHANGED <<prompt, pc, todo, writing, cleaned>>

(* stf() for a PASSIVE agent; cycles_idle is only read by the loop, so it  *)
(* is reset here and not after the sends.                                  *)
Inform(n) == /\ TakeInput(n)
             /\ ~informed[n]
             /\ informed' = [informed EXCEPT ![n] = TRUE]
             /\ source' = [source EXCEPT ![n] = From(n)]
             /\ todo' = [todo EXCEPT ![n] = Others(n)]
             /\ Goto(n, "send")
             /\ UNCHANGED <<prompt, writing, cleaned>>

(* Mutation: stf() does not look at the state and propagates again.        *)
PropagateAgain(n) == /\ TakeInput(n)
                     /\ informed[n]
                     /\ source' = [source EXCEPT ![n] = From(n)]
                     /\ todo' = [todo EXCEPT ![n] = Others(n)]
                     /\ Goto(n, "send")
                     /\ UNCHANGED <<prompt, informed, writing, cleaned>>

Drop(n) == /\ TakeInput(n)
           /\ informed[n]
           /\ UNCHANGED <<prompt, pc, informed, source, todo, writing, cleaned>>

EndScan(n) == /\ pc[n] = "scan"
              /\ ready[n] = {}
              /\ Goto(n, "select")
              /\ UNCHANGED <<prompt, informed, source, idle, ready, todo, writing, chan, cleaned>>

(* msg(): open() waits for a reader, a write after the reader has exited   *)
(* raises SIGPIPE.                                                         *)
NextReader(n) == Neighbours[n][Lowest(todo[n])]

OpenPipe(n) == /\ pc[n] = "send"
               /\ todo[n] # {} /\ ~writing[n]
               /\ pc[NextReader(n)] \notin Gone \cup {"open"}
               /\ writing' = [writing EXCEPT ![n] = TRUE]
               /\ UNCHANGED <<prompt, pc, informed, source, idle, ready, todo, chan, cleaned>>

Write(n) == /\ pc[n] = "send"
            /\ writing[n]
            /\ pc[NextReader(n)] \notin Gone
            /\ chan' = [chan EXCEPT ![<<n, NextReader(n)>>] = @ + 1]
            /\ todo' = [todo EXCEPT ![n] = @ \ {Lowest(todo[n])}]
            /\ writing' = [writing EXCEPT ![n] = FALSE]
            /\ UNCHANGED <<prompt, pc, informed, source, idle, ready, cleaned>>

BrokenPipe(n) == /\ pc[n] = "send"
                 /\ writing[n]
                 /\ pc[NextReader(n)] \in Gone
                 /\ Goto(n, "killed")
                 /\ UNCHANGED <<prompt, informed, source, idle, ready, todo, writing, chan, cleaned>>

EndSend(n) == /\ pc[n] = "send"
              /\ todo[n] = {}
              /\ Goto(n, "scan")
              /\ UNCHANGED <<prompt, informed, source, idle, ready, todo, writing, chan, cleaned>>

Agent(n) == \/ OpenPipes(n) \/ Select(n) \/ Timeout(n) \/ Exit(n)
            \/ Inform(n) \/ Drop(n) \/ EndScan(n)
            \/ OpenPipe(n) \/ Write(n) \/ BrokenPipe(n) \/ EndSend(n)

CleanUp == /\ ~cleaned
           /\ \A n \in Agents : pc[n] \in Gone
           /\ cleaned' = TRUE
           /\ UNCHANGED <<prompt, pc, informed, source, idle, ready, todo, writing, chan>>

Next == (\E n \in Agents : Agent(n)) \/ CleanUp

Fairness == /\ \A n \in Agents : WF_vars(Agent(n))
            /\ WF_vars(CleanUp)

Spec == Init /\ [][Next]_vars /\ Fairness

-----------------------------------------------------------------------------
(* Properties.                                                             *)

(* The links over which the agents were first informed (flooding.c:47-49)  *)
(* form a tree rooted in the initiator, at every moment and timing: each    *)
(* informed agent has an informed neighbour as its source, and following    *)
(* sources leads closer to the initiator.                                  *)
SpanningTree ==
    \E depth \in [Agents -> 0..(N - 1)] :
      \A n \in Agents : informed[n] /\ n # Initiator =>
        /\ informed[source[n]] /\ n \in Adjacent(source[n])
        /\ depth[source[n]] < depth[n]

(* Although the message comes to an agent over several links, a pipe never *)
(* holds it twice (a read would run the two texts together), and nothing   *)
(* is sent back to where it came from (flooding.c:52-58).                  *)
OnePerLink == \A l \in Links :
    /\ chan[l] <= 1
    /\ chan[l] = 1 => informed[l[1]] /\ (l[1] # Initiator => source[l[1]] # l[2])

(* When nobody gives up early, the whole network is informed, everyone     *)
(* exits on its own and the master cleans up: no agent blocks for ever in  *)
(* open (flooding.c:38) and none is killed by a closed pipe.               *)
AllInformed == prompt => <>(cleaned /\ \A n \in Agents : informed[n] /\ pc[n] = "done")

(* A wave that everybody waits out never leaves an agent behind: who has   *)
(* exited was informed, and has passed the message on before.              *)
NobodyExitsUninformed ==
    prompt => \A n \in Agents : pc[n] \in Gone => informed[n] /\ todo[n] = {}
=============================================================================
