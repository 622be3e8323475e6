----------------------------- MODULE Datagrams -----------------------------
(***************************************************************************)
(* The two programs that speak over an unreliable network:                 *)
(*   "ping"   ho5/ICMP_raw.c: one echo request on a raw socket, one answer  *)
(*            waited for, for at most TIMEOUT_SEC seconds                   *)
(*   "hello"  ho1/client_udp.c and ho1/server_udp.c: one datagram and its   *)
(*            answer, waited for without a timeout                          *)
(* Several clients run on one machine; a client is known by its pid.        *)
(***************************************************************************)
EXTENDS Integers, Sequences, FiniteSets

CONSTANTS Clients   \* the pids of the clients

ASSUME DatagramsAssumption == IsFiniteSet(Clients) /\ Clients \subseteq Nat \ {0}

VARIABLES
  program,   \* which of the two runs
  local,     \* the machine pinged is the client's own
  bound,     \* the UDP server has bound its port
  pc,        \* per client: "open", "send", "wait", and how it ended
  net,       \* packets on their way
  queue,     \* datagrams at the UDP server's socket
  inbox,     \* per client: packets at its socket
  got,       \* per client: what recvfrom() returned, as a sequence
  dropped    \* clients one of whose packets was lost

vars == <<program, local, bound, pc, net, queue, inbox, got, dropped>>
-----------------------------------------------------------------------------
(* 16-bit arithmetic, on a little-endian machine.                          *)

htons(n) == ((n % 256) * 256) + ((n \div 256) % 256)
ntohs(n) == htons(n)

\* build_icmp_packet: the identifier field of a request, for a 32-bit pid.
IdField(pid) == htons(pid % 65536)

\* The sum of the 16-bit words of a request with checksum 0: type and code,
\* identifier, sequence number 1, and 56 bytes 'A'.
PacketSum(id) == 8 + id + htons(1) + 28 * (65 * 256 + 65)

\* Mutation: the carry of the first folding is forgotten.
FoldedOnce(sum) == LET folded == (sum \div 65536) + (sum % 65536)
                   IN  65535 - (folded % 65536)

\* Mutation: the complement is not cut to 16 bits.
WideComplement(sum) == LET folded == (sum \div 65536) + (sum % 65536)
                       IN  -1 - (folded + (folded \div 65536))

\* compute_checksum, of the sum of the words.
checksum(sum) == LET folded == (sum \div 65536) + (sum % 65536)
                     again == folded + (folded \div 65536)
                 IN  65535 - (again % 65536)

\* RFC 1071, by which the other side judges: with the checksum in its place
\* the ones' complement sum is zero.
Verifies(p) == (PacketSum(p.id) + p.checksum) % 65535 = 0

Packet(type, pid, id) == [type |-> type, owner |-> pid, id |-> id,
                          checksum |-> checksum(PacketSum(id))]
\* What the pinged machine sends back to an echo request, and the UDP server
\* to the address a hello came from.
Reply(p) == [p EXCEPT !.type = "ECHOREPLY"]
Answer(p) == [p EXCEPT !.type = "ANSWER"]
-----------------------------------------------------------------------------
Init == /\ program \in {"ping", "hello"}
        /\ local \in IF program = "ping" THEN BOOLEAN ELSE {TRUE}
        /\ bound = FALSE
        /\ pc = [c \in Clients |-> "open"]
        /\ net = {} /\ queue = <<>>
        /\ inbox = [c \in Clients |-> <<>>]
        /\ got = [c \in Clients |-> <<>>]
        /\ dropped = {}

Goto(c, step) == pc' = [pc EXCEPT ![c] = step]

Open(c) == /\ pc[c] = "open"
           /\ Goto(c, "send")
           /\ UNCHANGED <<program, local, bound, net, queue, inbox, got, dropped>>

\* sendto() may fail, and only the ping looks at its result; the datagram of
\* the other is then as good as lost.
Send(c) == /\ pc[c] = "send"
           /\ \/ /\ net' = net \cup {Packet(IF program = "ping" THEN "ECHO" ELSE "HELLO",
                                            c, IdField(c))}
                 /\ Goto(c, "wait") /\ UNCHANGED dropped
              \/ /\ dropped' = dropped \cup {c}
                 /\ Goto(c, IF program = "ping" THEN "failed" ELSE "wait")
                 /\ UNCHANGED net
           /\ UNCHANGED <<program, local, bound, queue, inbox, got>>

\* Mutation: the identifier of the answer is not looked at.
IsMineAny(c, p) == p.type \in {"ECHOREPLY", "ANSWER"}

IsMine(c, p) == p.type = "ANSWER" \/ (p.type = "ECHOREPLY" /\ ntohs(p.id) = c)

\* One recvfrom(): the first packet at the socket decides.
Receive(c) == /\ pc[c] = "wait" /\ inbox[c] # <<>>
              /\ got' = [got EXCEPT ![c] = <<Head(inbox[c])>>]
              /\ inbox' = [inbox EXCEPT ![c] = <<>>]
              /\ Goto(c, IF IsMine(c, Head(inbox[c])) THEN "answered" ELSE "notMine")
              /\ UNCHANGED <<program, local, bound, net, queue, dropped>>

\* Mutation: SO_RCVTIMEO is not set.
NoTimeout(c) == FALSE /\ UNCHANGED vars

Timeout(c) == /\ program = "ping" /\ pc[c] = "wait" /\ inbox[c] = <<>>
              /\ Goto(c, "timeout")
              /\ UNCHANGED <<program, local, bound, net, queue, inbox, got, dropped>>
-----------------------------------------------------------------------------
(* The UDP server.                                                         *)

Bind == /\ program = "hello" /\ ~bound
        /\ bound' = TRUE
        /\ UNCHANGED <<program, local, pc, net, queue, inbox, got, dropped>>

\* Mutation: the answer goes to the sender of the datagram behind.
ServeLast == /\ queue # <<>>
             /\ queue' = Tail(queue)
             /\ net' = net \cup {Answer(queue[Len(queue)])}
             /\ UNCHANGED <<program, local, bound, pc, inbox, got, dropped>>

Serve == /\ queue # <<>>
         /\ queue' = Tail(queue)
         /\ net' = net \cup {Answer(Head(queue))}
         /\ UNCHANGED <<program, local, bound, pc, inbox, got, dropped>>
-----------------------------------------------------------------------------
(* The network, the pinged machine and the kernel of the clients.          *)

\* Every raw socket gets a copy of every ICMP packet that arrives, a UDP
\* socket only what is sent to its port.
AtSockets(p) ==
  inbox' = [c \in Clients |->
              IF pc[c] \in {"send", "wait"} /\ (program = "ping" \/ c = p.owner)
              THEN Append(inbox[c], p) ELSE inbox[c]]

Deliver(p) ==
  CASE p.type = "ECHO" ->
         /\ net' = (net \ {p}) \cup (IF Verifies(p) THEN {Reply(p)} ELSE {})
         /\ IF local THEN AtSockets(p) ELSE UNCHANGED inbox
         /\ UNCHANGED <<queue, dropped>>
    [] p.type = "HELLO" ->
         /\ net' = net \ {p}
         /\ queue' = IF bound THEN Append(queue, p) ELSE queue
         /\ dropped' = IF bound THEN dropped ELSE dropped \cup {p.owner}
         /\ UNCHANGED inbox
    [] OTHER ->
         /\ net' = net \ {p} /\ AtSockets(p)
         /\ UNCHANGED <<queue, dropped>>

Lose(p) == /\ net' = net \ {p}
           /\ dropped' = dropped \cup {p.owner}
           /\ UNCHANGED <<queue, inbox>>

Network == /\ \E p \in net : Deliver(p) \/ Lose(p)
           /\ UNCHANGED <<program, local, bound, pc, got>>

Client(c) == Open(c) \/ Send(c) \/ Receive(c) \/ Timeout(c)

Next == (\E c \in Clients : Client(c)) \/ Bind \/ Serve \/ Network

Fairness == /\ \A c \in Clients : WF_vars(Client(c))
            /\ WF_vars(Serve) /\ WF_vars(Network)

Spec == Init /\ [][Next]_vars
FairSpec == Spec /\ Fairness
-----------------------------------------------------------------------------
Types == {"ECHO", "ECHOREPLY", "HELLO", "ANSWER"}
Word == {n \in Nat : n < 65536}
Packets == [type : Types, owner : Clients, id : Word, checksum : Word]
Ends == {"answered", "notMine", "timeout", "failed"}

TypeOK == /\ program \in {"ping", "hello"} /\ local \in BOOLEAN /\ bound \in BOOLEAN
          /\ pc \in [Clients -> {"open", "send", "wait"} \cup Ends]
          /\ net \subseteq Packets /\ queue \in Seq(Packets)
          /\ inbox \in [Clients -> Seq(Packets)]
          /\ got \in [Clients -> Seq(Packets)]
          /\ dropped \subseteq Clients

\* A client that was handed the answer to its own packet accepts it: "L'ID
\* deve corrispondere a quello inviato (il PID del nostro processo)"
\* (ICMP_raw.c:149).
OwnReplyAccepted ==
  \A c \in Clients : pc[c] = "notMine" => ~(got[c][1].owner = c /\ got[c][1].type = "ECHOREPLY")

\* While pids fit 16 bits, a client is answered exactly by the reply to its
\* own packet, although its raw socket sees everybody's; it gives up on a
\* stranger's packet, or on its own request when the machine pings itself;
\* and every request on its way carries a checksum the other side accepts.
AnswersMatch ==
  (\A c \in Clients : c < 65536) =>
    /\ OwnReplyAccepted
    /\ \A c \in Clients : pc[c] = "answered" => got[c][1].owner = c
    /\ \A c \in Clients : pc[c] = "notMine" => got[c][1].owner # c \/ local
    /\ \A p \in net : p.type = "ECHO" => Verifies(p)

\* The ping never waits for ever (ICMP_raw.c:90), whatever is lost; the UDP
\* client ends unless one of its datagrams was lost or found no server.
AllEnd == \A c \in Clients : <>(pc[c] \in Ends \/ (program = "hello" /\ c \in dropped))
=============================================================================
