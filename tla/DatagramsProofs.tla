--------------------------- MODULE DatagramsProofs ---------------------------
(***************************************************************************)
(* Proofs about Datagrams: for any clients, every request carries a         *)
(* checksum that verifies, and while pids fit 16 bits each client accepts   *)
(* exactly the answer to its own packet.                                   *)
(***************************************************************************)
EXTENDS Datagrams, TLAPS

(* Swapping the bytes of a number gives a 16-bit number.                   *)
LEMMA HtonsType == ASSUME NEW n \in Nat PROVE htons(n) \in Word
<1> DEFINE lo == n % 256
           hi == (n \div 256) % 256
<1>1. n \div 256 \in Nat
  OBVIOUS
<1>2. lo \in Nat /\ lo < 256 /\ hi \in Nat /\ hi < 256
  BY <1>1
<1>3. htons(n) = (lo * 256) + hi
  BY DEF htons
<1> HIDE DEF lo, hi
<1> QED
  BY <1>2, <1>3 DEF Word

(* Swapping them twice gives a 16-bit number back.                         *)
LEMMA NtohsHtons == ASSUME NEW n \in Word PROVE ntohs(htons(n)) = n
<1> DEFINE lo == n % 256
           hi == n \div 256
           swapped == (lo * 256) + hi
<1>1. n \in Nat /\ n < 65536
  BY DEF Word
<1>2. /\ lo \in Nat /\ lo < 256 /\ hi \in Nat /\ hi < 256
      /\ n = (256 * hi) + lo /\ hi % 256 = hi
  BY <1>1
<1>3. htons(n) = swapped
  BY <1>2 DEF htons
<1> HIDE DEF lo, hi
<1>4. swapped % 256 = hi /\ swapped \div 256 = lo /\ lo % 256 = lo
  BY <1>2
<1>5. htons(swapped) = (hi * 256) + lo
  BY <1>4 DEF htons
<1> QED
  BY <1>2, <1>3, <1>5 DEF ntohs

(* The identifier field has 16 bits, and gives back a pid of 16 bits.      *)
LEMMA IdFieldFacts ==
  ASSUME NEW pid \in Nat
  PROVE  /\ IdField(pid) \in Word
         /\ pid < 65536 => ntohs(IdField(pid)) = pid
<1>1. pid % 65536 \in Nat /\ pid % 65536 \in Word
  BY DEF Word
<1>2. pid < 65536 => pid % 65536 = pid
  OBVIOUS
<1> QED
  BY <1>1, <1>2, HtonsType, NtohsHtons DEF IdField

(* compute_checksum returns 16 bits, and two foldings are enough: with its  *)
(* checksum in place the sum of a request is zero in ones' complement, for  *)
(* every identifier.                                                       *)
LEMMA ChecksumFacts ==
  ASSUME NEW id \in Word
  PROVE  /\ checksum(PacketSum(id)) \in Word
         /\ (PacketSum(id) + checksum(PacketSum(id))) % 65535 = 0
<1> DEFINE sum == PacketSum(id)
           q == sum \div 65536
           r == sum % 65536
           folded == q + r
           again == folded + (folded \div 65536)
<1>1. PacketSum(id) = id + 468004
  BY DEF PacketSum, htons, Word
<1>2. /\ sum \in Nat /\ q \in Nat /\ q < 9 /\ r \in Nat /\ r < 65536
      /\ sum = (65536 * q) + r
  BY <1>1 DEF Word
<1>3. checksum(sum) = 65535 - (again % 65536)
  BY DEF checksum
<1> HIDE DEF sum, q, r
<1>4. CASE q + r < 65536
  <2>1. folded \div 65536 = 0 /\ again % 65536 = folded
    BY <1>2, <1>4
  <2>2. checksum(sum) = (65535 - q) - r
    BY <1>2, <1>3, <2>1
  <2>3. sum + checksum(sum) = 65535 * (q + 1)
    BY <1>2, <2>2
  <2>4. (65535 * (q + 1)) % 65535 = 0
    BY <1>2
  <2>5. checksum(sum) \in Nat /\ checksum(sum) < 65536
    BY <1>2, <1>4, <2>2
  <2> QED
    BY <2>3, <2>4, <2>5 DEF sum, Word
<1>5. CASE q + r >= 65536
  <2>1. folded \div 65536 = 1 /\ again % 65536 = folded - 65535
    BY <1>2, <1>5
  <2>2. checksum(sum) = ((2 * 65535) - q) - r
    BY <1>2, <1>3, <2>1
  <2>3. sum + checksum(sum) = 65535 * (q + 2)
    BY <1>2, <2>2
  <2>4. (65535 * (q + 2)) % 65535 = 0
    BY <1>2
  <2>5. checksum(sum) \in Nat /\ checksum(sum) < 65536
    BY <1>2, <1>5, <2>2
  <2> QED
    BY <2>3, <2>4, <2>5 DEF sum, Word
<1> QED
  BY <1>2, <1>4, <1>5
-----------------------------------------------------------------------------
(* Packets keep their fields on the way.                                   *)
LEMMA PacketTypes ==
  ASSUME NEW c \in Clients
  PROVE  /\ \A type \in Types : Packet(type, c, IdField(c)) \in Packets
         /\ \A p \in Packets : Reply(p) \in Packets /\ Answer(p) \in Packets
<1>1. c \in Nat
  BY DatagramsAssumption
<1>2. IdField(c) \in Word /\ checksum(PacketSum(IdField(c))) \in Word
  BY <1>1, IdFieldFacts, ChecksumFacts
<1>3. ASSUME NEW type \in Types PROVE Packet(type, c, IdField(c)) \in Packets
  BY <1>2 DEF Packet, Packets
<1>4. ASSUME NEW p \in Packets PROVE Reply(p) \in Packets /\ Answer(p) \in Packets
  BY DEF Reply, Answer, Packets, Types
<1> QED
  BY <1>3, <1>4

(* A packet added behind a queue of packets leaves a queue of packets.     *)
LEMMA AtSocketsType ==
  ASSUME TypeOK, NEW p \in Packets, AtSockets(p)
  PROVE  inbox' \in [Clients -> Seq(Packets)]
<1>1. \A c \in Clients : inbox[c] \in Seq(Packets) /\ Append(inbox[c], p) \in Seq(Packets)
  BY DEF TypeOK
<1> QED
  BY <1>1 DEF AtSockets

(* Every step keeps the types.                                             *)
LEMMA TypeStep == TypeOK /\ [Next]_vars => TypeOK'
<1> SUFFICES ASSUME TypeOK, [Next]_vars PROVE TypeOK'
  OBVIOUS
<1>1. CASE UNCHANGED vars
  BY <1>1 DEF TypeOK, vars
<1>2. ASSUME NEW c \in Clients, Open(c) PROVE TypeOK'
  BY <1>2 DEF TypeOK, Open, Goto
<1>3. ASSUME NEW c \in Clients, Send(c) PROVE TypeOK'
  <2>1. CASE pc' = [pc EXCEPT ![c] = "wait"] /\ UNCHANGED dropped
    <3>1. \A type \in {"ECHO", "HELLO"} : Packet(type, c, IdField(c)) \in Packets
      BY PacketTypes DEF Types
    <3>2. net' \subseteq Packets
      BY <1>3, <2>1, <3>1 DEF TypeOK, Send, Goto
    <3> QED
      BY <1>3, <2>1, <3>2 DEF TypeOK, Send, Goto
  <2>2. CASE UNCHANGED net /\ dropped' = dropped \cup {c}
    BY <1>3, <2>2 DEF TypeOK, Send, Goto, Ends
  <2> QED
    BY <1>3, <2>1, <2>2 DEF Send, Goto
<1>4. ASSUME NEW c \in Clients, Receive(c) PROVE TypeOK'
  <2>1. Head(inbox[c]) \in Packets
    BY <1>4 DEF TypeOK, Receive
  <2>2. <<Head(inbox[c])>> \in Seq(Packets) /\ <<>> \in Seq(Packets)
    BY <2>1
  <2>3. pc' \in [Clients -> {"open", "send", "wait"} \cup Ends]
    BY <1>4 DEF TypeOK, Receive, Goto, Ends
  <2> QED
    BY <1>4, <2>2, <2>3 DEF TypeOK, Receive
<1>5. ASSUME NEW c \in Clients, Timeout(c) PROVE TypeOK'
  BY <1>5 DEF TypeOK, Timeout, Goto, Ends
<1>6. CASE Bind
  BY <1>6 DEF TypeOK, Bind
<1>7. CASE Serve
  <2>1. Head(queue) \in Packets /\ Tail(queue) \in Seq(Packets)
    BY <1>7 DEF TypeOK, Serve
  <2>2. Answer(Head(queue)) \in Packets
    <3>1. PICK c \in Clients : c = Head(queue).owner
      BY <2>1 DEF Packets
    <3> QED
      BY <2>1, <3>1, PacketTypes
  <2> QED
    BY <1>7, <2>1, <2>2 DEF TypeOK, Serve
<1>8. CASE Network
  <2> SUFFICES ASSUME NEW p \in net, Deliver(p) \/ Lose(p) PROVE TypeOK'
    BY <1>8 DEF Network
  <2>1. p \in Packets /\ p.owner \in Clients /\ Reply(p) \in Packets
    <3>1. p \in Packets /\ p.owner \in Clients
      BY DEF TypeOK, Packets
    <3> QED
      BY <3>1, PacketTypes
  <2>2. CASE Lose(p)
    BY <1>8, <2>1, <2>2 DEF TypeOK, Lose, Network
  <2>3. CASE Deliver(p) /\ p.type = "ECHO"
    <3>1. net' \subseteq Packets /\ UNCHANGED <<queue, dropped>>
      BY <2>1, <2>3 DEF TypeOK, Deliver
    <3>2. inbox' \in [Clients -> Seq(Packets)]
      <4>1. AtSockets(p) \/ UNCHANGED inbox
        BY <2>3 DEF Deliver
      <4> QED
        BY <2>1, <4>1, AtSocketsType DEF TypeOK
    <3> QED
      BY <1>8, <3>1, <3>2 DEF TypeOK, Network
  <2>4. CASE Deliver(p) /\ p.type = "HELLO"
    <3>1. /\ net' \subseteq Packets /\ UNCHANGED inbox
          /\ queue' = (IF bound THEN Append(queue, p) ELSE queue)
          /\ dropped' \subseteq Clients
      BY <2>1, <2>4 DEF TypeOK, Deliver
    <3>2. queue' \in Seq(Packets)
      BY <2>1, <3>1 DEF TypeOK
    <3> QED
      BY <1>8, <3>1, <3>2 DEF TypeOK, Network
  <2>5. CASE Deliver(p) /\ p.type \notin {"ECHO", "HELLO"}
    <3>1. net' = net \ {p} /\ AtSockets(p) /\ UNCHANGED <<queue, dropped>>
      BY <2>5 DEF Deliver
    <3>2. inbox' \in [Clients -> Seq(Packets)]
      BY <2>1, <3>1, AtSocketsType
    <3> QED
      BY <1>8, <3>1, <3>2 DEF TypeOK, Network
  <2> QED
    BY <2>2, <2>3, <2>4, <2>5
<1> QED
  BY <1>1, <1>2, <1>3, <1>4, <1>5, <1>6, <1>7, <1>8 DEF Next, Client

(* Type correctness.                                                       *)
THEOREM TypeCorrect == Spec => []TypeOK
<1>1. Init => TypeOK
  <2> SUFFICES ASSUME Init PROVE TypeOK
    OBVIOUS
  <2>1. <<>> \in Seq(Packets)
    OBVIOUS
  <2>2. program \in {"ping", "hello"} /\ local \in BOOLEAN /\ bound \in BOOLEAN
    BY DEF Init
  <2>3. pc \in [Clients -> {"open", "send", "wait"} \cup Ends]
    BY DEF Init
  <2>4. net \subseteq Packets /\ dropped \subseteq Clients
    BY DEF Init
  <2>5. queue \in Seq(Packets) /\ inbox \in [Clients -> Seq(Packets)]
    BY <2>1 DEF Init
  <2>6. got \in [Clients -> Seq(Packets)]
    BY <2>1 DEF Init
  <2> QED
    BY <2>2, <2>3, <2>4, <2>5, <2>6 DEF TypeOK
<1> QED
  BY <1>1, TypeStep, PTL DEF Spec
-----------------------------------------------------------------------------
(* What is true of every packet: it carries its owner's identifier and a    *)
(* checksum that fits it, and is of the program that runs.                  *)
Genuine(p) == /\ p.id = IdField(p.owner)
              /\ p.checksum = checksum(PacketSum(p.id))
              /\ p.type \in {"ECHO", "ECHOREPLY"} <=> program = "ping"

(* What a client can find at its socket.                                   *)
Reaches(c, p) == /\ p \in Packets /\ Genuine(p)
                 /\ p.type # "HELLO"
                 /\ p.type = "ANSWER" => p.owner = c
                 /\ p.type = "ECHO" => local

(* The inductive invariant: where packets are, and what those that clients  *)
(* took have decided.                                                      *)
PacketInv ==
  /\ \A p \in net : Genuine(p)
  /\ \A k \in 1 .. Len(queue) : Genuine(queue[k]) /\ queue[k].type = "HELLO"
  /\ \A c \in Clients : \A k \in 1 .. Len(inbox[c]) : Reaches(c, inbox[c][k])
  /\ \A c \in Clients : pc[c] \in {"answered", "notMine"} =>
       /\ Reaches(c, got[c][1])
       /\ pc[c] = "answered" <=> IsMine(c, got[c][1])

(* A packet sent is genuine, and so is the answer to a genuine request.    *)
LEMMA GenuinePackets ==
  /\ \A c \in Clients :
       LET type == IF program = "ping" THEN "ECHO" ELSE "HELLO"
       IN  Genuine(Packet(type, c, IdField(c)))
  /\ \A p \in Packets : Genuine(p) => /\ p.type = "ECHO" => Genuine(Reply(p))
                                      /\ p.type = "HELLO" => Genuine(Answer(p))
<1>1. ASSUME NEW c \in Clients, NEW type \in {"ECHO", "HELLO"},
             type = "ECHO" <=> program = "ping"
      PROVE  Genuine(Packet(type, c, IdField(c)))
  BY <1>1 DEF Genuine, Packet
<1>2. ASSUME NEW p \in Packets, Genuine(p)
      PROVE  /\ p.type = "ECHO" => Genuine(Reply(p))
             /\ p.type = "HELLO" => Genuine(Answer(p))
  <2>1. /\ Reply(p).id = p.id /\ Reply(p).checksum = p.checksum
        /\ Reply(p).owner = p.owner /\ Reply(p).type = "ECHOREPLY"
        /\ Answer(p).id = p.id /\ Answer(p).checksum = p.checksum
        /\ Answer(p).owner = p.owner /\ Answer(p).type = "ANSWER"
    BY DEF Reply, Answer, Packets
  <2> QED
    BY <1>2, <2>1 DEF Genuine
<1> QED
  BY <1>1, <1>2

(* What is in flight stays what it is when the program stays the same.     *)
LEMMA GenuineStays ==
  ASSUME UNCHANGED <<program, local>>, NEW c, NEW p
  PROVE  (Genuine(p)' <=> Genuine(p)) /\ (Reaches(c, p)' <=> Reaches(c, p))
BY DEF Genuine, Reaches

(* A packet that arrives at the sockets keeps the invariant of the inboxes. *)
LEMMA AtSocketsReaches ==
  ASSUME TypeOK, PacketInv, UNCHANGED <<program, local>>,
         NEW p \in Packets, AtSockets(p), Genuine(p),
         p.type \in {"ECHOREPLY", "ANSWER"} \/ (p.type = "ECHO" /\ local)
  PROVE  \A c \in Clients : \A k \in 1 .. Len(inbox'[c]) : Reaches(c, inbox'[c][k])
<1> SUFFICES ASSUME NEW c \in Clients, NEW k \in 1 .. Len(inbox'[c])
             PROVE  Reaches(c, inbox'[c][k])
  OBVIOUS
<1>1. inbox[c] \in Seq(Packets)
  BY DEF TypeOK
<1>2. \A j \in 1 .. Len(inbox[c]) : Reaches(c, inbox[c][j])
  BY DEF PacketInv
<1>3. CASE inbox'[c] = inbox[c]
  BY <1>2, <1>3
<1>4. CASE inbox'[c] = Append(inbox[c], p) /\ (program = "ping" \/ c = p.owner)
  <2>1. Reaches(c, p)
    BY <1>4 DEF Reaches, Genuine
  <2>2. \/ k \in 1 .. Len(inbox[c]) /\ inbox'[c][k] = inbox[c][k]
        \/ inbox'[c][k] = p
    BY <1>1, <1>4
  <2> QED
    BY <1>2, <2>1, <2>2
<1> QED
  BY <1>3, <1>4 DEF AtSockets

(* Every step keeps the invariant of the packets.                          *)
LEMMA PacketStep == TypeOK /\ PacketInv /\ [Next]_vars => PacketInv'
<1> SUFFICES ASSUME TypeOK, PacketInv, [Next]_vars PROVE PacketInv'
  OBVIOUS
<1> DEFINE AtNet == \A p \in net' : Genuine(p)
           AtQueue == \A k \in 1 .. Len(queue') :
                        Genuine(queue'[k]) /\ queue'[k].type = "HELLO"
           AtInbox == \A c \in Clients : \A k \in 1 .. Len(inbox'[c]) :
                        Reaches(c, inbox'[c][k])
           Taken(c) == pc'[c] \in {"answered", "notMine"} =>
                         /\ Reaches(c, got'[c][1])
                         /\ pc'[c] = "answered" <=> IsMine(c, got'[c][1])
<1>1. UNCHANGED <<program, local>>
  BY DEF Next, vars, Client, Open, Send, Receive, Timeout, Bind, Serve, Network
<1>2. ASSUME AtNet, AtQueue, AtInbox, \A c \in Clients : Taken(c) PROVE PacketInv'
  BY <1>1, <1>2, GenuineStays DEF PacketInv, IsMine
<1>3. /\ UNCHANGED net => AtNet
      /\ UNCHANGED queue => AtQueue
      /\ UNCHANGED inbox => AtInbox
      /\ \A c \in Clients : pc'[c] = pc[c] /\ got'[c] = got[c] => Taken(c)
  BY DEF PacketInv
<1>4. \A c \in Clients : pc'[c] \notin {"answered", "notMine"} => Taken(c)
  OBVIOUS
<1> HIDE DEF AtNet, AtQueue, AtInbox, Taken
<1>5. ASSUME UNCHANGED <<pc, got>> PROVE \A c \in Clients : Taken(c)
  BY <1>3, <1>5
<1>6. CASE UNCHANGED vars
  BY <1>2, <1>3, <1>5, <1>6 DEF vars
<1>7. ASSUME NEW c \in Clients, Open(c) \/ Send(c) \/ Timeout(c) PROVE PacketInv'
  <2>1. UNCHANGED <<queue, inbox, got>>
    BY <1>7 DEF Open, Send, Timeout
  <2>2. \A d \in Clients : Taken(d)
    <3>1. \A d \in Clients \ {c} : pc'[d] = pc[d]
      BY <1>7 DEF TypeOK, Open, Send, Timeout, Goto
    <3>2. pc'[c] \notin {"answered", "notMine"}
      BY <1>7 DEF TypeOK, Open, Send, Timeout, Goto
    <3> QED
      BY <1>3, <1>4, <2>1, <3>1, <3>2
  <2>3. AtNet
    <3>1. CASE UNCHANGED net
      BY <1>3, <3>1
    <3>2. CASE Send(c) /\ ~UNCHANGED net
      <4>1. net' = net \cup {Packet(IF program = "ping" THEN "ECHO" ELSE "HELLO",
                                    c, IdField(c))}
        BY <3>2 DEF Send
      <4>2. \A p \in net : Genuine(p)
        BY DEF PacketInv
      <4> QED
        BY <4>1, <4>2, GenuinePackets DEF AtNet
    <3> QED
      BY <1>7, <3>1, <3>2 DEF Open, Timeout
  <2> QED
    BY <1>2, <1>3, <2>1, <2>2, <2>3
<1>8. ASSUME NEW c \in Clients, Receive(c) PROVE PacketInv'
  <2>1. Reaches(c, Head(inbox[c]))
    <3>1. inbox[c] \in Seq(Packets) /\ inbox[c] # <<>>
      BY <1>8 DEF TypeOK, Receive
    <3>2. Head(inbox[c]) = inbox[c][1] /\ 1 \in 1 .. Len(inbox[c])
      BY <3>1
    <3> QED
      BY <3>2 DEF PacketInv
  <2>2. AtInbox
    <3>1. inbox'[c] = <<>> /\ \A d \in Clients \ {c} : inbox'[d] = inbox[d]
      BY <1>8 DEF TypeOK, Receive
    <3>2. \A k \in 1 .. Len(inbox'[c]) : FALSE
      BY <3>1
    <3> QED
      BY <3>1, <3>2 DEF AtInbox, PacketInv
  <2>3. \A d \in Clients : Taken(d)
    <3>1. \A d \in Clients \ {c} : pc'[d] = pc[d] /\ got'[d] = got[d]
      BY <1>8 DEF TypeOK, Receive, Goto
    <3>2. /\ got'[c][1] = Head(inbox[c])
          /\ pc'[c] = IF IsMine(c, Head(inbox[c])) THEN "answered" ELSE "notMine"
      BY <1>8 DEF TypeOK, Receive, Goto
    <3>3. Taken(c)
      BY <2>1, <3>2 DEF Taken
    <3> QED
      BY <1>3, <3>1, <3>3
  <2>4. UNCHANGED <<net, queue>>
    BY <1>8 DEF Receive
  <2> QED
    BY <1>2, <1>3, <2>2, <2>3, <2>4
<1>9. CASE Bind
  BY <1>2, <1>3, <1>5, <1>9 DEF Bind
<1>10. CASE Serve
  <2>1. queue \in Seq(Packets) /\ queue # <<>> /\ queue' = Tail(queue)
    BY <1>10 DEF TypeOK, Serve
  <2>2. /\ Head(queue) = queue[1] /\ 1 \in 1 .. Len(queue) /\ Head(queue) \in Packets
        /\ \A k \in 1 .. Len(queue') : queue'[k] = queue[k + 1] /\ k + 1 \in 1 .. Len(queue)
    BY <2>1
  <2>3. AtQueue
    BY <2>2 DEF AtQueue, PacketInv
  <2>4. AtNet
    <3>1. Genuine(Answer(Head(queue)))
      BY <2>2, GenuinePackets DEF PacketInv
    <3>2. net' = net \cup {Answer(Head(queue))}
      BY <1>10 DEF Serve
    <3> QED
      BY <3>1, <3>2 DEF AtNet, PacketInv
  <2>5. UNCHANGED <<pc, inbox, got>>
    BY <1>10 DEF Serve
  <2> QED
    BY <1>2, <1>3, <1>5, <2>3, <2>4, <2>5
<1>11. CASE Network
  <2>1. UNCHANGED <<pc, got>>
    BY <1>11 DEF Network
  <2> SUFFICES ASSUME NEW p \in net, Deliver(p) \/ Lose(p) PROVE PacketInv'
    BY <1>11 DEF Network
  <2>2. p \in Packets /\ Genuine(p) /\ p.type \in Types
    BY DEF TypeOK, PacketInv, Packets
  <2>3. CASE Lose(p)
    <3>1. AtNet
      BY <2>3 DEF Lose, AtNet, PacketInv
    <3> QED
      BY <1>2, <1>3, <1>5, <2>1, <2>3, <3>1 DEF Lose
  <2>4. CASE Deliver(p) /\ p.type = "ECHO"
    <3>1. /\ net' \subseteq net \cup {Reply(p)} /\ UNCHANGED queue
          /\ (local /\ AtSockets(p)) \/ UNCHANGED inbox
      BY <2>4 DEF Deliver
    <3>2. AtNet
      BY <2>2, <2>4, <3>1, GenuinePackets DEF AtNet, PacketInv
    <3>3. AtInbox
      BY <1>1, <1>3, <2>2, <2>4, <3>1, AtSocketsReaches DEF AtInbox
    <3> QED
      BY <1>2, <1>3, <1>5, <2>1, <3>1, <3>2, <3>3
  <2>5. CASE Deliver(p) /\ p.type = "HELLO"
    <3>1. /\ net' = net \ {p} /\ UNCHANGED inbox
          /\ queue' = (IF bound THEN Append(queue, p) ELSE queue)
      BY <2>5 DEF Deliver
    <3>2. AtNet
      BY <3>1 DEF AtNet, PacketInv
    <3>3. AtQueue
      <4>1. queue \in Seq(Packets)
        BY DEF TypeOK
      <4>2. \A k \in 1 .. Len(queue') :
              \/ k \in 1 .. Len(queue) /\ queue'[k] = queue[k]
              \/ queue'[k] = p
        BY <2>2, <3>1, <4>1
      <4> QED
        BY <2>2, <2>5, <4>2 DEF AtQueue, PacketInv
    <3> QED
      BY <1>2, <1>3, <1>5, <2>1, <3>1, <3>2, <3>3
  <2>6. CASE Deliver(p) /\ p.type \notin {"ECHO", "HELLO"}
    <3>1. net' = net \ {p} /\ AtSockets(p) /\ UNCHANGED queue
      BY <2>6 DEF Deliver
    <3>2. AtNet
      BY <3>1 DEF AtNet, PacketInv
    <3>3. AtInbox
      <4>1. p.type \in {"ECHOREPLY", "ANSWER"}
        BY <2>2, <2>6 DEF Types
      <4> QED
        BY <1>1, <2>2, <3>1, <4>1, AtSocketsReaches DEF AtInbox
    <3> QED
      BY <1>2, <1>3, <1>5, <2>1, <3>1, <3>2, <3>3
  <2> QED
    BY <2>3, <2>4, <2>5, <2>6
<1> QED
  BY <1>6, <1>7, <1>8, <1>9, <1>10, <1>11 DEF Next, Client

(* Pids are natural numbers.                                               *)
LEMMA PidsAreNumbers == \A c \in Clients : c \in Nat
BY DatagramsAssumption

(* The invariant says what AnswersMatch promises: an identifier of 16 bits  *)
(* tells whose packet an echo reply answers.                                *)
LEMMA PacketsMatch == TypeOK /\ PacketInv => AnswersMatch
<1> SUFFICES ASSUME TypeOK, PacketInv, \A c \in Clients : c < 65536
             PROVE  /\ OwnReplyAccepted
                    /\ \A c \in Clients : pc[c] = "answered" => got[c][1].owner = c
                    /\ \A c \in Clients : pc[c] = "notMine" => got[c][1].owner # c \/ local
                    /\ \A p \in net : p.type = "ECHO" => Verifies(p)
  BY DEF AnswersMatch
<1>1. ASSUME NEW p \in net PROVE Verifies(p)
  <2>1. p.owner \in Nat
    BY DatagramsAssumption DEF TypeOK, Packets
  <2>2. p.id = IdField(p.owner) /\ p.checksum = checksum(PacketSum(p.id))
    BY DEF PacketInv, Genuine
  <2> QED
    BY <2>1, <2>2, IdFieldFacts, ChecksumFacts DEF Verifies
<1>2. ASSUME NEW c \in Clients, pc[c] \in {"answered", "notMine"}
      PROVE  /\ got[c][1].type \in Types \ {"HELLO"}
             /\ pc[c] = "answered" => got[c][1].owner = c
             /\ pc[c] = "notMine" =>
                  /\ got[c][1].type # "ANSWER"
                  /\ got[c][1].type = "ECHOREPLY" => got[c][1].owner # c
                  /\ got[c][1].type = "ECHO" => local
  <2> DEFINE p == got[c][1]
  <2>1. Reaches(c, p) /\ (pc[c] = "answered" <=> IsMine(c, p))
    BY <1>2 DEF PacketInv
  <2>2. p.owner \in Clients /\ p.type \in Types \ {"HELLO"} /\ p.id = IdField(p.owner)
    BY <2>1 DEF Reaches, Genuine, Packets
  <2> HIDE DEF p
  <2>3. ntohs(p.id) = p.owner
    <3>1. p.owner < 65536
      BY <2>2
    <3>2. p.owner \in Nat
      BY <2>2, PidsAreNumbers
    <3> QED
      BY <2>2, <3>1, <3>2, IdFieldFacts
  <2>4. /\ pc[c] = "answered" => p.owner = c
        /\ pc[c] = "notMine" => /\ p.type # "ANSWER"
                                /\ p.type = "ECHOREPLY" => p.owner # c
                                /\ p.type = "ECHO" => local
    <3>1. CASE pc[c] = "answered"
      BY <2>1, <2>3, <3>1 DEF Reaches, IsMine
    <3>2. CASE pc[c] = "notMine"
      BY <2>1, <2>3, <3>2 DEF Reaches, IsMine
    <3> QED
      BY <1>2, <3>1, <3>2
  <2> QED
    BY <2>2, <2>4 DEF p
<1>3. OwnReplyAccepted
  BY <1>2 DEF OwnReplyAccepted
<1>4. ASSUME NEW c \in Clients, pc[c] = "notMine" PROVE got[c][1].owner # c \/ local
  BY <1>2, <1>4 DEF Types
<1> QED
  BY <1>1, <1>2, <1>3, <1>4

(* While pids fit 16 bits, whatever is lost or overtaken: a client accepts  *)
(* exactly the answer to its own packet, and requests verify.               *)
THEOREM AnswersCorrect == Spec => []AnswersMatch
<1>1. Init => PacketInv
  BY DEF Init, PacketInv
<1>2. TypeOK /\ TypeOK' /\ PacketInv /\ [Next]_vars => PacketInv'
  BY PacketStep
<1> QED
  BY <1>1, <1>2, TypeCorrect, PacketsMatch, PTL DEF Spec
=============================================================================
