---------------------------- MODULE EventServer ----------------------------
(***************************************************************************)
(* The TCP servers of hands-on 1 to 4 with their clients.  All five are one *)
(* thread that serves connections, in one of five ways:                     *)
(*   "hello"     ho1/server_tcp.c           one connection, then it exits    *)
(*   "block"     ho2/server_tcp_block.c     one connection after the other   *)
(*   "nonblock"  ho2/server_tcp_nonblock.c  select, a table of sockets       *)
(*   "select"    ho3/server_multiplex.c     select, a table of sockets       *)
(*   "epoll"     ho4/server_epoll.c         epoll, the kernel's own list     *)
(* The servers of hands-on 2 check that a client sends the Fibonacci        *)
(* sequence; the others acknowledge whatever comes.  Clients send, wait for  *)
(* the answer, and so on; they may be killed between two steps.             *)
(***************************************************************************)
EXTENDS Naturals, Sequences, FiniteSets, FiniteSetsExt

CONSTANTS
  Clients,      \* the processes that connect
  NoClient,     \* an empty place of client_socket
  Fin, Rst,     \* what a read can find besides a number: the end of the
                \* stream, or a reset (a client that dies with an answer
                \* unread resets its connection)
  Testers,      \* those of them that may send a wrong number
  WrongRounds,  \* bound: the rounds in which they may
  MAX_CLIENTS,  \* places of client_socket in the select servers
  MAX_FIB,      \* numbers a client of hands-on 2 sends
  MaxKills      \* bound: clients killed before they are through

ASSUME EventServerAssumption ==
  /\ IsFiniteSet(Clients) /\ Testers \subseteq Clients
  /\ NoClient \notin Clients /\ Fin # Rst /\ Fin \notin Nat /\ Rst \notin Nat
  /\ MAX_CLIENTS \in Nat \ {0} /\ MAX_FIB \in Nat \ {0}
  /\ WrongRounds \subseteq 1 .. MAX_FIB /\ MaxKills \in Nat

VARIABLES
  kind,           \* which of the five servers runs
  up,             \* FALSE once the server has ended or was killed by SIGPIPE
  wrongAt,        \* round in which a client sends a wrong number, 0 for never
  client,         \* per client: its step and the variables i, a, b
  kills,          \* clients killed so far
  backlog,        \* connections the kernel holds for accept()
  toServer,       \* per client: what its connection delivers to the server
  toClient,       \* per client: answers on their way back
  client_socket,  \* place -> connection
  states,         \* place -> f_n1, f_n2 and count of its connection
  readfds,        \* what the last wait reported and is not yet handled
  unheld          \* accepted connections that found no place

vars == <<kind, up, wrongAt, client, kills, backlog, toServer, toClient,
          client_socket, states, readfds, unheld>>
clientVars == <<client, kills, wrongAt>>
serverVars == <<client_socket, states, readfds, unheld, up>>

Kinds == {"hello", "block", "nonblock", "select", "epoll"}
Checks == kind \in {"block", "nonblock"}       \* the Fibonacci check
OneByOne == kind \in {"hello", "block"}        \* one connection at a time
UsesTable == kind \in {"nonblock", "select"}   \* a table of MAX_CLIENTS

LISTEN == 0     \* the listening socket among the places

\* epoll has no table: its list never fills.
Places == 1 .. CASE OneByOne -> 1
                 [] kind = "epoll" -> Cardinality(Clients)
                 [] OTHER -> MAX_CLIENTS

Fresh == [f_n1 |-> 1, f_n2 |-> 0, count |-> 0]

\* Clients of hands-on 1, 3 and 4 send one message.
Rounds == IF Checks THEN MAX_FIB ELSE 1

Ended == {"done", "refused", "cut", "killed"}
---------------------------------------------------------------------------
Init ==
  /\ kind \in Kinds
  /\ wrongAt \in [Clients -> {0} \cup WrongRounds]
  /\ \A c \in Clients : wrongAt[c] # 0 => Checks /\ c \in Testers
  /\ up = TRUE
  /\ kills = 0
  /\ client = [c \in Clients |-> [pc |-> "connect", i |-> 1, a |-> 0, b |-> 1]]
  /\ backlog = <<>>
  /\ toServer = [c \in Clients |-> <<>>]
  /\ toClient = [c \in Clients |-> <<>>]
  /\ client_socket = [p \in Places |-> NoClient]
  /\ states = [p \in Places |-> Fresh]
  /\ readfds = {}
  /\ unheld = {}
---------------------------------------------------------------------------
(* The client *)

Connect(c) ==
  /\ client[c].pc = "connect"
  /\ client' = [client EXCEPT ![c].pc = IF up THEN "send" ELSE "cut"]
  /\ backlog' = IF up THEN Append(backlog, c) ELSE backlog
  /\ UNCHANGED <<kind, wrongAt, kills, toServer, toClient, serverVars>>

\* The number is a; a tester's is off by one in the round it chose.
Send(c) ==
  /\ client[c].pc = "send" /\ up
  /\ client' = [client EXCEPT ![c].pc = "read"]
  /\ LET number == client[c].a + (IF client[c].i = wrongAt[c] THEN 1 ELSE 0)
     IN  toServer' = [toServer EXCEPT ![c] = Append(@, number)]
  /\ UNCHANGED <<kind, wrongAt, kills, backlog, toClient, serverVars>>

\* The client closes its side: the connection ends with what it delivers last.
Closes(c, last) == toServer' = [toServer EXCEPT ![c] = Append(@, last)]

Receive(c) ==
  /\ client[c].pc = "read" /\ toClient[c] # <<>>
  /\ toClient' = [toClient EXCEPT ![c] = <<>>]
  /\ \/ /\ toClient[c] = <<"ERROR">>
        /\ client' = [client EXCEPT ![c].pc = "refused"]
        /\ Closes(c, Fin)
     \/ /\ toClient[c] = <<"OK">>
        /\ client[c].i < Rounds
        /\ client' = [client EXCEPT ![c] =
             [pc |-> "send", i |-> @.i + 1, a |-> @.b, b |-> @.a + @.b]]
        /\ UNCHANGED toServer
     \/ /\ toClient[c] = <<"OK">>
        /\ client[c].i = Rounds
        /\ client' = [client EXCEPT ![c].pc = "done"]
        /\ Closes(c, Fin)
  /\ UNCHANGED <<kind, wrongAt, kills, backlog, serverVars>>

\* The server's end closed its connections: send() or read() fails.
CutOff(c) ==
  /\ ~up
  /\ \/ client[c].pc = "send"
     \/ client[c].pc = "read" /\ toClient[c] = <<>>
  /\ client' = [client EXCEPT ![c].pc = "cut"]
  /\ UNCHANGED <<kind, wrongAt, kills, backlog, toServer, toClient, serverVars>>

\* A client is killed; the kernel closes its socket.
Kill(c) ==
  /\ kills < MaxKills
  /\ client[c].pc \in {"send", "read"}
  /\ kills' = kills + 1
  /\ client' = [client EXCEPT ![c].pc = "killed"]
  /\ Closes(c, IF toClient[c] # <<>> THEN Rst ELSE Fin)
  /\ toClient' = [toClient EXCEPT ![c] = <<>>]
  /\ UNCHANGED <<kind, wrongAt, backlog, serverVars>>
---------------------------------------------------------------------------
(* The server *)

Readable == {p \in Places : client_socket[p] # NoClient
                            /\ toServer[client_socket[p]] # <<>>}
Acceptable == IF backlog # <<>> THEN {LISTEN} ELSE {}

\* What the server would be woken for: the blocking servers wait for a
\* connection or for their one client, the others for anything.
Ready == IF ~OneByOne THEN Acceptable \cup Readable
         ELSE IF client_socket[1] = NoClient THEN Acceptable ELSE Readable

\* select() or epoll_wait(); in the blocking servers accept() or read().
Wait ==
  /\ up /\ readfds = {} /\ Ready # {}
  /\ readfds' = Ready
  /\ UNCHANGED <<kind, clientVars, backlog, toServer, toClient,
                 client_socket, states, unheld, up>>

\* The select servers look at the listening socket first and then at their
\* places in order; epoll reports in any order.
Turn(p) ==
  /\ up /\ p \in readfds
  /\ kind # "epoll" => \A q \in readfds : p <= q
  /\ readfds' = readfds \ {p}

Free == {p \in Places : client_socket[p] = NoClient}

\* Mutation: the state of the last connection is kept.
AcceptKeepsState ==
  /\ Turn(LISTEN)
  /\ backlog' = Tail(backlog)
  /\ IF Free = {}
     THEN unheld' = unheld \cup {Head(backlog)} /\ UNCHANGED client_socket
     ELSE /\ client_socket' = [client_socket EXCEPT ![Min(Free)] = Head(backlog)]
          /\ UNCHANGED unheld
  /\ UNCHANGED <<kind, clientVars, toServer, toClient, states, up>>

Accept ==
  /\ Turn(LISTEN)
  /\ backlog' = Tail(backlog)
  /\ IF Free = {}
     THEN /\ unheld' = unheld \cup {Head(backlog)}
          /\ UNCHANGED <<client_socket, states>>
     ELSE /\ client_socket' = [client_socket EXCEPT ![Min(Free)] = Head(backlog)]
          /\ states' = [states EXCEPT ![Min(Free)] = Fresh]
          /\ UNCHANGED unheld
  /\ UNCHANGED <<kind, clientVars, toServer, toClient, up>>

\* The answer the servers of hands-on 2 compute for a number.
IsCorrect(s, received) ==
  CASE s.count = 0 -> received = 0
    [] s.count = 1 -> received = 1
    [] OTHER -> received = s.f_n1 + s.f_n2

Advance(s) ==
  IF s.count < 2 THEN [s EXCEPT !.count = @ + 1]
  ELSE [f_n1 |-> s.f_n1 + s.f_n2, f_n2 |-> s.f_n1, count |-> s.count + 1]

\* An answer to a client that is gone goes nowhere.
Answer(c, ack) ==
  toClient' = IF client[c].pc \in Ended THEN toClient
              ELSE [toClient EXCEPT ![c] = Append(@, ack)]

\* Mutation: the place is marked, but not as empty.
HangupWrongMark(p) ==
  client_socket' = [client_socket EXCEPT ![p] = LISTEN]

Hangup(p) == client_socket' = [client_socket EXCEPT ![p] = NoClient]

\* The server of hands-on 1 closes and exits after one read, whatever it gave.
ServesOn == up' = (kind # "hello")

Data(p) ==
  /\ Turn(p) /\ p # LISTEN
  /\ LET c == client_socket[p]
         received == Head(toServer[c])
         is_correct == Checks => IsCorrect(states[p], received)
     IN  /\ received \notin {Fin, Rst}
         /\ toServer' = [toServer EXCEPT ![c] = Tail(@)]
         /\ Answer(c, IF is_correct THEN "OK" ELSE "ERROR")
         /\ ServesOn
         /\ IF is_correct /\ up'
            THEN /\ states' = IF Checks THEN [states EXCEPT ![p] = Advance(@)]
                              ELSE states
                 /\ UNCHANGED client_socket
            ELSE Hangup(p) /\ UNCHANGED states
  /\ UNCHANGED <<kind, clientVars, backlog, unheld>>

\* Mutation: no server looks at the -1 of read().
DisconnectUnchecked(p) ==
  /\ Turn(p) /\ p # LISTEN
  /\ LET received == Head(toServer[client_socket[p]])
     IN  /\ received \in {Fin, Rst}
         /\ IF received = Rst
            THEN up' = FALSE /\ UNCHANGED client_socket
            ELSE Hangup(p) /\ UNCHANGED up
  /\ UNCHANGED <<kind, clientVars, backlog, toServer, toClient, states, unheld>>

\* read() returned 0; or -1, which the select servers take for data: they
\* write to the reset connection and die of SIGPIPE.
Disconnect(p) ==
  /\ Turn(p) /\ p # LISTEN
  /\ LET received == Head(toServer[client_socket[p]])
     IN  /\ received \in {Fin, Rst}
         /\ IF received = Rst /\ UsesTable
            THEN up' = FALSE /\ UNCHANGED client_socket
            ELSE Hangup(p) /\ ServesOn
  /\ UNCHANGED <<kind, clientVars, backlog, toServer, toClient, states, unheld>>

Client(c) == Connect(c) \/ Send(c) \/ Receive(c) \/ CutOff(c)
Server == Wait \/ Accept \/ \E p \in Places : Data(p) \/ Disconnect(p)

Next == (\E c \in Clients : Client(c) \/ Kill(c)) \/ Server

Fairness == WF_vars(Server) /\ \A c \in Clients : WF_vars(Client(c))

Spec == Init /\ [][Next]_vars
FairSpec == Spec /\ Fairness
---------------------------------------------------------------------------
TypeOK ==
  /\ kind \in Kinds /\ up \in BOOLEAN /\ kills \in 0 .. MaxKills
  /\ wrongAt \in [Clients -> 0 .. MAX_FIB]
  /\ client \in [Clients -> [pc : {"connect", "send", "read"} \cup Ended,
                             i : 1 .. Rounds, a : Nat, b : Nat]]
  /\ backlog \in Seq(Clients) /\ unheld \subseteq Clients
  /\ toServer \in [Clients -> Seq(Nat \cup {Fin, Rst})]
  /\ toClient \in [Clients -> Seq({"OK", "ERROR"})]
  /\ client_socket \in [Places -> Clients \cup {NoClient}]
  /\ states \in [Places -> [f_n1 : Nat, f_n2 : Nat, count : 0 .. Rounds]]
  /\ readfds \subseteq {LISTEN} \cup Places

\* "Stati di validazione indipendenti per ogni client" (Report_HO2): whatever
\* the others do and whoever had the place before, a client is answered ERROR
\* exactly for a wrong number of its own, never is anyone's answer overrun, and
\* nobody is cut off while the server is up.
Verdicts ==
  \A c \in Clients :
    LET deserved == IF Checks /\ client[c].i = wrongAt[c] THEN "ERROR" ELSE "OK"
    IN  /\ toClient[c] \in {<<>>, <<deserved>>}
        /\ client[c].pc = "refused" => deserved = "ERROR"
        /\ client[c].pc = "done" => deserved = "OK"
        /\ client[c].pc = "cut" => ~up

Held(c) == \E p \in Places : client_socket[p] = c
Served(c) == client[c].pc \in {"done", "refused", "killed"}
BroughtDown == UsesTable /\ ~up

\* Whoever else is killed, wrong or slow: a client that has a place gets its
\* answers to the last one, every client gets a place unless it found the
\* table full (the server of hands-on 1 takes one client and exits), and no
\* place stays taken.  Of the select servers only as long as they are up: what
\* one killed client can do to them is NoInterference.
AllServed ==
  /\ \A c \in Clients : Held(c) ~> (Served(c) \/ BroughtDown)
  /\ \A c \in Clients : <>(Held(c) \/ Served(c) \/ c \in unheld \/ BroughtDown \/ kind = "hello")
  /\ <>[](Free = Places \/ BroughtDown)

\* "garantendo l'assenza di interferenze tra le sessioni" (Report_HO3): what
\* becomes of one client of the select server cuts no other client off.
NoInterference == kind = "select" => \A c \in Clients : client[c].pc # "cut"
===========================================================================
