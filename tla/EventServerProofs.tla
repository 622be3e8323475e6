------------------------- MODULE EventServerProofs -------------------------
(***************************************************************************)
(* Verdicts of EventServer, proved for every server, any number of clients *)
(* and killed clients, any table and any length of the sequence.           *)
(*                                                                         *)
(* The invariant follows a number from its client to the answer: where a    *)
(* number waits at a place, the state of that place expects the number the  *)
(* client is at, whoever had the place before; where an answer is on its    *)
(* way, the state is one number ahead of the client.                       *)
(***************************************************************************)
EXTENDS EventServer, TLAPS, WellFoundedInduction, FiniteSetTheorems

Number(c) == client[c].a + (IF client[c].i = wrongAt[c] THEN 1 ELSE 0)
Deserved(c) == IF Checks /\ client[c].i = wrongAt[c] THEN "ERROR" ELSE "OK"

Pending(c) == toServer[c] # <<>> /\ toServer[c][1] \in Nat
Answered(c) == client[c].pc = "read" /\ toServer[c] = <<>>

(* A state s expects a as the i-th number and, after it, b.                *)
Expects(s, i, a, b) ==
  /\ s.count = i - 1
  /\ i = 1 => a = 0 /\ b = 1 /\ s.f_n1 = 1 /\ s.f_n2 = 0
  /\ i = 2 => a = 1 /\ b = 1 /\ s.f_n1 = 1 /\ s.f_n2 = 0
  /\ i > 2 => a = s.f_n1 + s.f_n2 /\ b = a + s.f_n1

(* Between a client and the server there is one number or its answer.      *)
ConnInv(c) ==
  /\ client[c].pc = "connect" => client[c].i = 1 /\ client[c].a = 0 /\ client[c].b = 1
  /\ client[c].pc \in {"connect", "send"} => toServer[c] = <<>>
  /\ client[c].pc = "read" => \/ toServer[c] = <<Number(c)>> /\ toClient[c] = <<>>
                              \/ toServer[c] = <<>> /\ toClient[c] = <<Deserved(c)>>
  /\ client[c].pc # "read" => toClient[c] = <<>>
  /\ \A k \in 1 .. Len(toServer[c]) :
       toServer[c][k] \in Nat => k = 1 /\ toServer[c][k] = Number(c)
  /\ client[c].pc = "refused" => Deserved(c) = "ERROR"
  /\ client[c].pc = "done" => Deserved(c) = "OK"
  /\ client[c].pc = "cut" => ~up

(* The state of a place is that of the client that has it.                 *)
PlaceInv(p) ==
  LET c == client_socket[p]
  IN  c # NoClient /\ Checks =>
        /\ client[c].pc = "send" \/ Pending(c) =>
             Expects(states[p], client[c].i, client[c].a, client[c].b)
        /\ Answered(c) =>
             /\ toClient[c] = <<"OK">>
             /\ Expects(states[p], client[c].i + 1, client[c].b, client[c].a + client[c].b)

(* A client has one place at most.                                         *)
SeatInv(p) ==
  client_socket[p] # NoClient =>
    /\ client[client_socket[p]].pc # "connect"
    /\ \A q \in Places : client_socket[q] = client_socket[p] => q = p

(* Who waits to be accepted waits once, and is at its first number.        *)
QueueInv(k) ==
  LET c == backlog[k]
  IN  /\ client[c].i = 1 /\ client[c].a = 0 /\ client[c].b = 1
      /\ client[c].pc # "connect" /\ ~Answered(c)
      /\ \A j \in 1 .. Len(backlog) : backlog[j] = c => j = k
      /\ \A p \in Places : client_socket[p] # c

(* What is reported ready stays ready until it is handled.                 *)
ReadyInv ==
  /\ LISTEN \in readfds => backlog # <<>>
  /\ \A p \in readfds : p # LISTEN => client_socket[p] # NoClient
                                      /\ toServer[client_socket[p]] # <<>>

WrongInv == \A c \in Clients : wrongAt[c] # 0 => Checks

Inv == /\ TypeOK /\ ReadyInv /\ WrongInv
       /\ \A c \in Clients : ConnInv(c)
       /\ \A p \in Places : PlaceInv(p) /\ SeatInv(p)
       /\ \A k \in 1 .. Len(backlog) : QueueInv(k)
-----------------------------------------------------------------------------
State == [f_n1 : Nat, f_n2 : Nat, count : 0 .. Rounds]

(* A nonempty set of naturals has a least element.                         *)
LEMMA NatMinimum ==
  ASSUME NEW S \in SUBSET Nat, S # {}
  PROVE  \E m \in S : \A n \in S : m <= n
<1> DEFINE Less == {nm \in Nat \X Nat : nm[1] < nm[2]}
<1>1. IsWellFoundedOn(Less, Nat)
  BY NatLessThanWellFounded DEF OpToRel
<1>2. \A n, m \in Nat : n < m => <<n, m>> \in Less
  OBVIOUS
<1> HIDE DEF Less
<1>3. PICK m \in S : \A n \in S : <<n, m>> \notin Less
  BY <1>1, WFMin
<1>4. \A n \in S : ~(n < m)
  BY <1>2, <1>3
<1> QED
  BY <1>4

(* There are finitely many places, numbered from 1, and some rounds.       *)
LEMMA PlacesFacts ==
  /\ Places \subseteq Nat /\ LISTEN \notin Places
  /\ Rounds \in Nat /\ Rounds >= 1
<1>1. Cardinality(Clients) \in Nat
  BY EventServerAssumption, FS_CardinalityType
<1>2. \A n \in Nat : 1 .. n \subseteq Nat /\ 0 \notin 1 .. n
  OBVIOUS
<1>3. \E n \in Nat : Places = 1 .. n
  <2>1. CASE OneByOne
    <3>1. Places = 1 .. 1
      BY <2>1, Zenon DEF Places, OneByOne
    <3> QED
      BY <3>1
  <2>2. CASE kind = "epoll"
    <3>1. Places = 1 .. Cardinality(Clients)
      BY <2>2, Zenon DEF Places, OneByOne
    <3> QED
      BY <1>1, <3>1
  <2>3. CASE ~OneByOne /\ kind # "epoll"
    <3>1. Places = 1 .. MAX_CLIENTS
      BY <2>3, Zenon DEF Places
    <3>2. MAX_CLIENTS \in Nat
      BY EventServerAssumption
    <3> QED
      BY <3>1, <3>2
  <2> QED
    BY <2>1, <2>2, <2>3
<1>4. Rounds \in Nat /\ Rounds >= 1
  BY EventServerAssumption DEF Rounds
<1> QED
  BY <1>2, <1>3, <1>4 DEF LISTEN

(* The lowest free place is free.                                          *)
LEMMA FreePlace == Free # {} => Min(Free) \in Free
<1> SUFFICES ASSUME Free # {} PROVE Min(Free) \in Free
  OBVIOUS
<1>1. Free \in SUBSET Nat
  BY PlacesFacts DEF Free
<1>2. \E m \in Free : \A n \in Free : m <= n
  BY <1>1, NatMinimum
<1> QED
  BY <1>2 DEF Min

(* A state accepts the number it expects, and no other.                    *)
LEMMA ExpectedIsCorrect ==
  ASSUME NEW s \in State, NEW i \in Nat, i >= 1, NEW a \in Nat, NEW b \in Nat,
         Expects(s, i, a, b)
  PROVE  IsCorrect(s, a) /\ ~IsCorrect(s, a + 1)
<1>1. s.count \in Nat /\ s.f_n1 \in Nat /\ s.f_n2 \in Nat /\ s.count = i - 1
  BY PlacesFacts DEF State, Expects
<1>2. CASE i = 1
  <2>1. s.count = 0 /\ a = 0 /\ a + 1 # 0
    BY <1>1, <1>2 DEF Expects
  <2>2. \A r : IsCorrect(s, r) <=> r = 0
    BY <2>1, Zenon DEF IsCorrect
  <2> QED
    BY <2>1, <2>2
<1>3. CASE i = 2
  <2>1. s.count = 1 /\ s.count # 0 /\ a = 1 /\ a + 1 # 1
    BY <1>1, <1>3 DEF Expects
  <2>2. \A r : IsCorrect(s, r) <=> r = 1
    BY <2>1, Zenon DEF IsCorrect
  <2> QED
    BY <2>1, <2>2
<1>4. CASE i > 2
  <2>1. s.count # 0 /\ s.count # 1 /\ a = s.f_n1 + s.f_n2 /\ a + 1 # a
    BY <1>1, <1>4 DEF Expects
  <2>2. \A r : IsCorrect(s, r) <=> r = s.f_n1 + s.f_n2
    BY <2>1, Zenon DEF IsCorrect
  <2> QED
    BY <2>1, <2>2
<1> QED
  BY <1>2, <1>3, <1>4

(* After it, the state expects the client's next one.                      *)
LEMMA AdvanceExpects ==
  ASSUME NEW s \in State, NEW i \in Nat, i >= 1, i <= Rounds, NEW a \in Nat, NEW b \in Nat,
         Expects(s, i, a, b)
  PROVE  Advance(s) \in State /\ Expects(Advance(s), i + 1, b, a + b)
<1>1. /\ s.count \in 0 .. Rounds /\ s.f_n1 \in Nat /\ s.f_n2 \in Nat /\ s.count = i - 1
      /\ Rounds \in Nat
      /\ s = [f_n1 |-> s.f_n1, f_n2 |-> s.f_n2, count |-> s.count]
  BY PlacesFacts DEF State, Expects
<1>2. CASE i <= 2
  <2>1. Advance(s) = [f_n1 |-> s.f_n1, f_n2 |-> s.f_n2, count |-> s.count + 1]
    BY <1>1, <1>2 DEF Advance
  <2>2. s.count + 1 \in 0 .. Rounds
    BY <1>1
  <2>3. Advance(s) \in State
    BY <1>1, <2>1, <2>2 DEF State
  <2> QED
    BY <1>1, <1>2, <2>1, <2>3 DEF Expects
<1>3. CASE i > 2
  <2>1. Advance(s) = [f_n1 |-> s.f_n1 + s.f_n2, f_n2 |-> s.f_n1, count |-> s.count + 1]
    BY <1>1, <1>3 DEF Advance
  <2>2. s.count + 1 \in 0 .. Rounds /\ s.f_n1 + s.f_n2 \in Nat
    BY <1>1
  <2>3. Advance(s) \in State
    BY <1>1, <2>1, <2>2 DEF State
  <2> QED
    BY <1>1, <1>3, <2>1, <2>3 DEF Expects
<1> QED
  BY <1>2, <1>3

(* What TypeOK says of one client.                                         *)
LEMMA ClientType ==
  ASSUME TypeOK, NEW c \in Clients
  PROVE  /\ client[c].i \in Nat /\ client[c].i >= 1 /\ client[c].i <= Rounds
         /\ client[c].a \in Nat /\ client[c].b \in Nat
         /\ client[c].pc \in {"connect", "send", "read"} \cup Ended
         /\ Number(c) \in Nat
         /\ toServer[c] \in Seq(Nat \cup {Fin, Rst}) /\ toClient[c] \in Seq({"OK", "ERROR"})
<1>1. /\ client[c].i \in 1 .. Rounds /\ client[c].a \in Nat /\ client[c].b \in Nat
      /\ client[c].pc \in {"connect", "send", "read"} \cup Ended
      /\ toServer[c] \in Seq(Nat \cup {Fin, Rst}) /\ toClient[c] \in Seq({"OK", "ERROR"})
  BY DEF TypeOK
<1>2. client[c].i \in Nat /\ client[c].i >= 1 /\ client[c].i <= Rounds
  BY <1>1, PlacesFacts
<1> QED
  BY <1>1, <1>2 DEF Number

(* Who is not touched by a step keeps its part of the invariant.           *)
LEMMA ConnFrame ==
  ASSUME NEW c \in Clients, ConnInv(c), UNCHANGED <<kind, wrongAt>>, ~up => ~up',
         client'[c] = client[c], toServer'[c] = toServer[c], toClient'[c] = toClient[c]
  PROVE  ConnInv(c)'
BY DEF ConnInv, Number, Deserved, Checks

LEMMA KindFacts ==
  ASSUME kind' = kind
  PROVE  Places' = Places /\ Rounds' = Rounds /\ (Checks' <=> Checks)
BY Zenon DEF Places, Rounds, Checks, OneByOne

(* A step of one connected client keeps the invariant if it keeps what the  *)
(* invariant says of that client.                                          *)
LEMMA ClientFrame ==
  ASSUME Inv, TypeOK', NEW c \in Clients,
         UNCHANGED <<kind, wrongAt, backlog, serverVars>>,
         \A d \in Clients \ {c} : /\ client'[d] = client[d]
                                  /\ toServer'[d] = toServer[d] /\ toClient'[d] = toClient[d],
         client[c].pc # "connect", client'[c].pc # "connect",
         toServer[c] # <<>> => toServer'[c] # <<>>,
         ConnInv(c)',
         \A p \in Places : client_socket[p] = c => PlaceInv(p)',
         \A k \in 1 .. Len(backlog) : backlog[k] = c =>
           client'[c].i = 1 /\ client'[c].a = 0 /\ client'[c].b = 1 /\ ~Answered(c)'
  PROVE  Inv'
<1> USE DEF serverVars
<1>1. Places' = Places /\ (Checks' <=> Checks)
  BY KindFacts
<1>2. ReadyInv'
  <2>1. LISTEN \in readfds' => backlog' # <<>>
    BY DEF Inv, ReadyInv
  <2>2. ASSUME NEW p \in readfds', p # LISTEN
        PROVE  client_socket'[p] # NoClient /\ toServer'[client_socket'[p]] # <<>>
    <3>1. client_socket[p] # NoClient /\ toServer[client_socket[p]] # <<>>
      BY <2>2 DEF Inv, ReadyInv
    <3>2. client_socket[p] \in Clients
      BY <2>2, <3>1 DEF Inv, TypeOK, LISTEN
    <3> QED
      BY <3>1, <3>2
  <2> QED
    BY <2>1, <2>2 DEF ReadyInv
<1>3. WrongInv'
  BY <1>1 DEF Inv, WrongInv
<1>4. ASSUME NEW d \in Clients PROVE ConnInv(d)'
  <2>1. CASE d = c
    BY <2>1
  <2>2. CASE d # c
    BY <2>2, ConnFrame DEF Inv
  <2> QED
    BY <2>1, <2>2
<1>5. ASSUME NEW p \in Places PROVE PlaceInv(p)' /\ SeatInv(p)'
  <2>1. PlaceInv(p) /\ SeatInv(p) /\ client_socket[p] \in Clients \cup {NoClient}
    BY <1>5 DEF Inv, TypeOK
  <2>2. SeatInv(p)'
    BY <2>1, <1>1 DEF SeatInv
  <2>3. CASE client_socket[p] = c
    BY <2>2, <2>3
  <2>4. CASE client_socket[p] # c
    BY <2>1, <2>2, <2>4, <1>1 DEF PlaceInv, Pending, Answered
  <2> QED
    BY <2>3, <2>4
<1>6. ASSUME NEW k \in 1 .. Len(backlog) PROVE QueueInv(k)'
  <2>1. QueueInv(k) /\ backlog[k] \in Clients
    BY <1>6 DEF Inv, TypeOK
  <2>2. CASE backlog[k] = c
    BY <2>1, <2>2, <1>1 DEF QueueInv, Answered
  <2>3. CASE backlog[k] # c
    BY <2>1, <2>3, <1>1 DEF QueueInv, Answered
  <2> QED
    BY <2>2, <2>3
<1> QED
  BY <1>1, <1>2, <1>3, <1>4, <1>5, <1>6 DEF Inv

LEMMA ConnectStep ==
  ASSUME Inv, NEW c \in Clients, Connect(c)
  PROVE  Inv'
<1> USE DEF serverVars
<1>1. /\ Places' = Places /\ Rounds' = Rounds /\ (Checks' <=> Checks)
      /\ UNCHANGED <<kind, wrongAt, kills, toServer, toClient, serverVars>>
  BY KindFacts DEF Connect
<1>2. /\ client[c].pc = "connect"
      /\ client[c].i = 1 /\ client[c].a = 0 /\ client[c].b = 1
      /\ toServer[c] = <<>> /\ toClient[c] = <<>>
  BY DEF Connect, Inv, ConnInv
<1>3. /\ client'[c].pc = IF up THEN "send" ELSE "cut"
      /\ client'[c].i = 1 /\ client'[c].a = 0 /\ client'[c].b = 1
      /\ \A d \in Clients \ {c} : client'[d] = client[d]
  BY <1>2 DEF Connect, Inv, TypeOK
<1>4. TypeOK'
  <2>1. client' \in [Clients -> [pc : {"connect", "send", "read"} \cup Ended,
                                 i : 1 .. Rounds, a : Nat, b : Nat]]
    <3>1. client \in [Clients -> [pc : {"connect", "send", "read"} \cup Ended,
                                 i : 1 .. Rounds, a : Nat, b : Nat]]
      BY DEF Inv, TypeOK
    <3>2. (IF up THEN "send" ELSE "cut") \in {"connect", "send", "read"} \cup Ended
      BY DEF Ended
    <3> QED
      BY <3>1, <3>2 DEF Connect
  <2>2. backlog' \in Seq(Clients)
    BY DEF Connect, Inv, TypeOK
  <2> QED
    BY <1>1, <2>1, <2>2 DEF Inv, TypeOK
<1>5. ReadyInv' /\ WrongInv'
  <2>1. backlog # <<>> => backlog' # <<>>
    <3>1. backlog \in Seq(Clients) /\ (backlog' = backlog \/ backlog' = Append(backlog, c))
      BY DEF Connect, Inv, TypeOK
    <3> QED
      BY <3>1
  <2> QED
    BY <1>1, <2>1 DEF Inv, ReadyInv, WrongInv
<1>6. ASSUME NEW d \in Clients PROVE ConnInv(d)'
  <2>1. CASE d = c
    BY <2>1, <1>1, <1>2, <1>3 DEF ConnInv
  <2>2. CASE d # c
    BY <2>2, <1>1, <1>3, ConnFrame DEF Inv
  <2> QED
    BY <2>1, <2>2
<1>7. ASSUME NEW p \in Places PROVE PlaceInv(p)' /\ SeatInv(p)' /\ client_socket[p] # c
  <2>1. PlaceInv(p) /\ SeatInv(p) /\ client_socket[p] \in Clients \cup {NoClient}
    BY <1>7 DEF Inv, TypeOK
  <2>2. client_socket[p] # c
    BY <2>1, <1>2, EventServerAssumption DEF SeatInv
  <2>3. client_socket[p] # NoClient => client'[client_socket[p]] = client[client_socket[p]]
    BY <2>1, <2>2, <1>3
  <2>4. SeatInv(p)'
    BY <2>1, <2>3, <1>1 DEF SeatInv
  <2>5. PlaceInv(p)'
    BY <2>1, <2>3, <1>1 DEF PlaceInv, Pending, Answered
  <2> QED
    BY <2>2, <2>4, <2>5
<1>8. ASSUME NEW k \in 1 .. Len(backlog) PROVE backlog[k] # c
  <2>1. QueueInv(k)
    BY <1>8 DEF Inv
  <2> QED
    BY <2>1, <1>2 DEF QueueInv
<1>9. ASSUME NEW k \in 1 .. Len(backlog') PROVE QueueInv(k)'
  <2>1. CASE ~up
    <3>1. backlog' = backlog
      BY <2>1 DEF Connect
    <3>2. QueueInv(k) /\ backlog[k] # c /\ backlog[k] \in Clients
      <4>1. k \in 1 .. Len(backlog) /\ backlog \in Seq(Clients)
        BY <1>9, <3>1 DEF Inv, TypeOK
      <4> QED
        BY <4>1, <1>8 DEF Inv
    <3> QED
      BY <3>1, <3>2, <1>1, <1>3 DEF QueueInv, Answered
  <2>2. CASE up
    <3>1. /\ backlog' = Append(backlog, c) /\ backlog \in Seq(Clients)
          /\ Len(backlog') = Len(backlog) + 1 /\ Len(backlog) \in Nat
          /\ backlog'[Len(backlog) + 1] = c
          /\ \A j \in 1 .. Len(backlog) : backlog'[j] = backlog[j]
      BY <2>2 DEF Connect, Inv, TypeOK
    <3>2. CASE k = Len(backlog) + 1
      <4>1. backlog'[k] = c
        BY <3>1, <3>2
      <4>2. \A j \in 1 .. Len(backlog') : backlog'[j] = c => j = k
        BY <3>1, <3>2, <1>8
      <4>3. ~Answered(c)'
        BY <1>3, <2>2 DEF Answered
      <4> QED
        BY <4>1, <4>2, <4>3, <1>1, <1>3, <1>7, <2>2 DEF QueueInv
    <3>3. CASE k # Len(backlog) + 1
      <4>1. k \in 1 .. Len(backlog)
        BY <1>9, <3>1, <3>3
      <4>2. QueueInv(k) /\ backlog[k] # c /\ backlog[k] \in Clients /\ backlog'[k] = backlog[k]
        <5>1. QueueInv(k)
          BY <4>1 DEF Inv
        <5> QED
          BY <5>1, <4>1, <3>1, <1>8
      <4>3. \A j \in 1 .. Len(backlog') : backlog'[j] = backlog[k] => j = k
        BY <4>1, <4>2, <3>1 DEF QueueInv
      <4>4. client'[backlog[k]] = client[backlog[k]]
        BY <4>2, <1>3
      <4> QED
        BY <4>2, <4>3, <4>4, <1>1 DEF QueueInv, Answered
    <3> QED
      BY <3>2, <3>3
  <2> QED
    BY <2>1, <2>2
<1> QED
  BY <1>1, <1>4, <1>5, <1>6, <1>7, <1>9 DEF Inv

LEMMA SendStep ==
  ASSUME Inv, NEW c \in Clients, Send(c)
  PROVE  Inv'
<1>1. /\ UNCHANGED <<kind, wrongAt, kills, backlog, toClient, serverVars>>
      /\ Places' = Places /\ Rounds' = Rounds /\ (Checks' <=> Checks)
  BY KindFacts DEF Send
<1>2. TypeOK /\ ConnInv(c) /\ client[c].pc = "send" /\ toServer[c] = <<>> /\ toClient[c] = <<>>
  BY DEF Inv, ConnInv, Send
<1>3. /\ client'[c].pc = "read" /\ client'[c].i = client[c].i
      /\ client'[c].a = client[c].a /\ client'[c].b = client[c].b
      /\ \A d \in Clients \ {c} : client'[d] = client[d] /\ toServer'[d] = toServer[d]
  BY <1>2 DEF Send, TypeOK
<1>4. Number(c) \in Nat /\ toServer'[c] = <<Number(c)>> /\ Number(c)' = Number(c)
  BY <1>1, <1>2, <1>3, ClientType DEF Send, Number, TypeOK
<1>5. TypeOK'
  <2>1. client' \in [Clients -> [pc : {"connect", "send", "read"} \cup Ended,
                                 i : 1 .. Rounds, a : Nat, b : Nat]]
    BY <1>2 DEF Send, TypeOK
  <2>2. <<Number(c)>> \in Seq(Nat \cup {Fin, Rst})
    BY <1>4
  <2>3. toServer' = [toServer EXCEPT ![c] = <<Number(c)>>]
    BY <1>2 DEF Send, Number, TypeOK
  <2>4. toServer' \in [Clients -> Seq(Nat \cup {Fin, Rst})]
    BY <1>2, <2>2, <2>3 DEF TypeOK
  <2> QED
    BY <1>1, <1>2, <2>1, <2>4 DEF TypeOK, serverVars
<1>6. ConnInv(c)'
  BY <1>1, <1>2, <1>3, <1>4 DEF ConnInv
<1>7. Pending(c)' /\ ~Answered(c)'
  BY <1>3, <1>4 DEF Pending, Answered
<1>8. ASSUME NEW p \in Places, client_socket[p] = c PROVE PlaceInv(p)'
  <2>1. PlaceInv(p)
    BY DEF Inv
  <2> QED
    BY <2>1, <1>1, <1>2, <1>3, <1>7, <1>8 DEF PlaceInv, serverVars
<1>9. ASSUME NEW k \in 1 .. Len(backlog), backlog[k] = c
      PROVE  client'[c].i = 1 /\ client'[c].a = 0 /\ client'[c].b = 1
  <2>1. QueueInv(k)
    BY DEF Inv
  <2> QED
    BY <2>1, <1>3, <1>9 DEF QueueInv
<1> QED
  BY <1>1, <1>2, <1>3, <1>4, <1>5, <1>6, <1>7, <1>8, <1>9, ClientFrame

(* Who reads an answer has had its number judged; a place it has is one     *)
(* number ahead of it.                                                     *)
LEMMA ReceiveStep ==
  ASSUME Inv, NEW c \in Clients, Receive(c)
  PROVE  Inv'
<1>1. /\ UNCHANGED <<kind, wrongAt, kills, backlog, serverVars>>
      /\ Places' = Places /\ Rounds' = Rounds /\ (Checks' <=> Checks)
  BY KindFacts DEF Receive
<1>2. /\ TypeOK /\ ConnInv(c) /\ client[c].pc = "read" /\ toServer[c] = <<>>
      /\ toClient[c] = <<Deserved(c)>> /\ Answered(c)
  BY DEF Inv, ConnInv, Receive, Answered
<1>3. /\ toClient'[c] = <<>> /\ \A d \in Clients \ {c} : toClient'[d] = toClient[d]
      /\ toClient' \in [Clients -> Seq({"OK", "ERROR"})]
  BY <1>2 DEF Receive, TypeOK
<1>4. ASSUME NEW k \in 1 .. Len(backlog) PROVE backlog[k] # c
  <2>1. QueueInv(k)
    BY DEF Inv
  <2> QED
    BY <2>1, <1>2 DEF QueueInv
<1>5. ASSUME client'[c].pc \in {"refused", "done"}, client'[c].i = client[c].i,
             client' \in [Clients -> [pc : {"connect", "send", "read"} \cup Ended,
                                      i : 1 .. Rounds, a : Nat, b : Nat]],
             \A d \in Clients \ {c} : client'[d] = client[d],
             Closes(c, Fin),
             client'[c].pc = "refused" => Deserved(c) = "ERROR",
             client'[c].pc = "done" => Deserved(c) = "OK"
      PROVE  Inv'
  <2>1. /\ toServer'[c] = <<Fin>> /\ \A d \in Clients \ {c} : toServer'[d] = toServer[d]
    BY <1>2, <1>5 DEF Closes, TypeOK
  <2>2. toServer' \in [Clients -> Seq(Nat \cup {Fin, Rst})]
    <3>1. toServer' = [toServer EXCEPT ![c] = <<Fin>>] /\ <<Fin>> \in Seq(Nat \cup {Fin, Rst})
      BY <1>2, <1>5 DEF Closes, TypeOK
    <3> QED
      BY <1>2, <3>1 DEF TypeOK
  <2>3. TypeOK'
    BY <1>1, <1>2, <1>3, <1>5, <2>2 DEF TypeOK, serverVars
  <2>4. Fin \notin Nat
    BY EventServerAssumption
  <2>5. ConnInv(c)'
    <3>1. Deserved(c)' = Deserved(c)
      BY <1>1, <1>5 DEF Deserved
    <3>2. \A k \in 1 .. Len(toServer'[c]) : toServer'[c][k] \notin Nat
      BY <2>1, <2>4
    <3> QED
      BY <3>1, <3>2, <1>3, <1>5, <2>1 DEF ConnInv
  <2>6. ~Pending(c)' /\ ~Answered(c)'
    BY <2>1, <2>4 DEF Pending, Answered
  <2>7. \A p \in Places : client_socket[p] = c => PlaceInv(p)'
    BY <1>1, <1>5, <2>6 DEF PlaceInv, serverVars
  <2> QED
    BY <1>1, <1>2, <1>3, <1>4, <1>5, <2>1, <2>3, <2>5, <2>7, ClientFrame
<1>6. CASE toClient[c] = <<"ERROR">> /\ client' = [client EXCEPT ![c].pc = "refused"]
           /\ Closes(c, Fin)
  <2>1. /\ client'[c].pc = "refused" /\ client'[c].i = client[c].i
        /\ \A d \in Clients \ {c} : client'[d] = client[d]
        /\ client' \in [Clients -> [pc : {"connect", "send", "read"} \cup Ended,
                                      i : 1 .. Rounds, a : Nat, b : Nat]]
    BY <1>2, <1>6 DEF TypeOK, Ended
  <2>2. Deserved(c) = "ERROR"
    BY <1>2, <1>6
  <2> QED
    BY <1>5, <1>6, <2>1, <2>2
<1>7. CASE toClient[c] = <<"OK">> /\ client' = [client EXCEPT ![c].pc = "done"]
           /\ Closes(c, Fin)
  <2>1. /\ client'[c].pc = "done" /\ client'[c].i = client[c].i
        /\ \A d \in Clients \ {c} : client'[d] = client[d]
        /\ client' \in [Clients -> [pc : {"connect", "send", "read"} \cup Ended,
                                      i : 1 .. Rounds, a : Nat, b : Nat]]
    BY <1>2, <1>7 DEF TypeOK, Ended
  <2>2. Deserved(c) = "OK"
    BY <1>2, <1>7
  <2> QED
    BY <1>5, <1>7, <2>1, <2>2
<1>8. CASE /\ client[c].i < Rounds
           /\ client' = [client EXCEPT ![c] =
                [pc |-> "send", i |-> @.i + 1, a |-> @.b, b |-> @.a + @.b]]
           /\ UNCHANGED toServer
  <2>1. /\ client'[c].pc = "send" /\ client'[c].i = client[c].i + 1
        /\ client'[c].a = client[c].b /\ client'[c].b = client[c].a + client[c].b
        /\ \A d \in Clients \ {c} : client'[d] = client[d]
    BY <1>2, <1>8 DEF TypeOK
  <2>2. TypeOK'
    <3>1. /\ client[c].i + 1 \in 1 .. Rounds
          /\ client[c].b \in Nat /\ client[c].a + client[c].b \in Nat
      BY <1>2, <1>8, ClientType, PlacesFacts
    <3>2. client' \in [Clients -> [pc : {"connect", "send", "read"} \cup Ended,
                                      i : 1 .. Rounds, a : Nat, b : Nat]]
      BY <1>2, <1>8, <3>1 DEF TypeOK
    <3> QED
      BY <1>1, <1>2, <1>3, <1>8, <3>2 DEF TypeOK, serverVars
  <2>3. ConnInv(c)'
    BY <1>2, <1>3, <1>8, <2>1 DEF ConnInv
  <2>4. ~Answered(c)'
    BY <2>1 DEF Answered
  <2>5. ASSUME NEW p \in Places, client_socket[p] = c PROVE PlaceInv(p)'
    <3>1. PlaceInv(p)
      BY DEF Inv
    <3> QED
      BY <3>1, <1>1, <1>2, <2>1, <2>4, <2>5 DEF PlaceInv, serverVars
  <2> QED
    BY <1>1, <1>2, <1>3, <1>4, <1>8, <2>1, <2>2, <2>3, <2>5, ClientFrame
<1> QED
  BY <1>6, <1>7, <1>8 DEF Receive

LEMMA CutOffStep ==
  ASSUME Inv, NEW c \in Clients, CutOff(c)
  PROVE  Inv'
<1>1. /\ UNCHANGED <<kind, wrongAt, kills, backlog, toServer, toClient, serverVars>>
      /\ Places' = Places /\ Rounds' = Rounds /\ (Checks' <=> Checks)
  BY KindFacts DEF CutOff
<1>2. /\ TypeOK /\ ConnInv(c) /\ client[c].pc \in {"send", "read"} /\ toClient[c] = <<>> /\ ~up
  BY DEF Inv, ConnInv, CutOff
<1>3. /\ client'[c].pc = "cut" /\ client'[c].i = client[c].i
      /\ client'[c].a = client[c].a /\ client'[c].b = client[c].b
      /\ \A d \in Clients \ {c} : client'[d] = client[d]
  BY <1>2 DEF CutOff, TypeOK
<1>4. TypeOK'
  <2>1. client' \in [Clients -> [pc : {"connect", "send", "read"} \cup Ended,
                                 i : 1 .. Rounds, a : Nat, b : Nat]]
    BY <1>2 DEF CutOff, TypeOK, Ended
  <2> QED
    BY <1>1, <1>2, <2>1 DEF TypeOK, serverVars
<1>5. Number(c)' = Number(c) /\ (Pending(c)' <=> Pending(c)) /\ ~Answered(c)'
  BY <1>1, <1>3 DEF Number, Pending, Answered
<1>6. ConnInv(c)'
  BY <1>1, <1>2, <1>3, <1>5 DEF ConnInv, serverVars
<1>7. ASSUME NEW p \in Places, client_socket[p] = c PROVE PlaceInv(p)'
  <2>1. PlaceInv(p)
    BY DEF Inv
  <2> QED
    BY <2>1, <1>1, <1>3, <1>5, <1>7 DEF PlaceInv, serverVars
<1>8. ASSUME NEW k \in 1 .. Len(backlog), backlog[k] = c
      PROVE  client'[c].i = 1 /\ client'[c].a = 0 /\ client'[c].b = 1
  <2>1. QueueInv(k)
    BY DEF Inv
  <2> QED
    BY <2>1, <1>3, <1>8 DEF QueueInv
<1> QED
  BY <1>1, <1>2, <1>3, <1>4, <1>5, <1>6, <1>7, <1>8, ClientFrame

LEMMA KillStep ==
  ASSUME Inv, NEW c \in Clients, Kill(c)
  PROVE  Inv'
<1>1. /\ UNCHANGED <<kind, wrongAt, backlog, serverVars>>
      /\ Places' = Places /\ Rounds' = Rounds /\ (Checks' <=> Checks)
  BY KindFacts DEF Kill
<1>2. TypeOK /\ ConnInv(c) /\ client[c].pc \in {"send", "read"}
  BY DEF Inv, Kill
<1>3. PICK last \in {Fin, Rst} : toServer' = [toServer EXCEPT ![c] = Append(@, last)]
  BY DEF Kill, Closes
<1>4. /\ client'[c].pc = "killed" /\ client'[c].i = client[c].i
      /\ client'[c].a = client[c].a /\ client'[c].b = client[c].b
      /\ toClient'[c] = <<>>
      /\ \A d \in Clients \ {c} : /\ client'[d] = client[d]
                                  /\ toServer'[d] = toServer[d] /\ toClient'[d] = toClient[d]
  BY <1>2, <1>3 DEF Kill, TypeOK
<1>5. /\ toServer'[c] = Append(toServer[c], last) /\ last \notin Nat
      /\ toServer[c] \in Seq(Nat \cup {Fin, Rst})
      /\ last \in Nat \cup {Fin, Rst}
  BY <1>2, <1>3, EventServerAssumption DEF TypeOK
<1>6. TypeOK'
  <2>1. client' \in [Clients -> [pc : {"connect", "send", "read"} \cup Ended,
                                 i : 1 .. Rounds, a : Nat, b : Nat]]
    BY <1>2 DEF Kill, TypeOK, Ended
  <2>2. toServer' \in [Clients -> Seq(Nat \cup {Fin, Rst})]
    BY <1>2, <1>3, <1>5 DEF TypeOK
  <2>3. toClient' \in [Clients -> Seq({"OK", "ERROR"})] /\ kills' \in 0 .. MaxKills
    BY <1>2, EventServerAssumption DEF Kill, TypeOK
  <2> QED
    BY <1>1, <1>2, <2>1, <2>2, <2>3 DEF TypeOK, serverVars
<1>7. /\ Len(toServer'[c]) = Len(toServer[c]) + 1 /\ Len(toServer[c]) \in Nat
      /\ toServer'[c][Len(toServer[c]) + 1] = last
      /\ \A k \in 1 .. Len(toServer[c]) : toServer'[c][k] = toServer[c][k]
      /\ toServer'[c] # <<>>
  BY <1>5
<1>8. ConnInv(c)'
  <2>1. ASSUME NEW k \in 1 .. Len(toServer'[c]), toServer'[c][k] \in Nat
        PROVE  k = 1 /\ toServer'[c][k] = Number(c)'
    <3>1. k \in 1 .. Len(toServer[c]) /\ toServer'[c][k] = toServer[c][k]
      BY <1>5, <1>7, <2>1
    <3>2. k = 1 /\ toServer[c][k] = Number(c)
      BY <1>2, <2>1, <3>1 DEF ConnInv
    <3>3. Number(c)' = Number(c)
      BY <1>1, <1>4 DEF Number
    <3> QED
      BY <3>1, <3>2, <3>3
  <2> QED
    BY <1>4, <2>1 DEF ConnInv
<1>9. (Pending(c)' => Pending(c)) /\ ~Answered(c)'
  <2>1. ASSUME Pending(c)' PROVE Pending(c)
    <3>1. toServer'[c][1] \in Nat
      BY <2>1 DEF Pending
    <3>2. 1 \in 1 .. Len(toServer[c])
      BY <1>5, <1>7, <3>1
    <3>3. toServer[c] # <<>>
      BY <3>2, <1>5
    <3> QED
      BY <1>7, <3>1, <3>2, <3>3 DEF Pending
  <2> QED
    BY <1>4, <2>1 DEF Answered
<1>10. ASSUME NEW p \in Places, client_socket[p] = c PROVE PlaceInv(p)'
  <2>1. PlaceInv(p)
    BY DEF Inv
  <2> QED
    BY <2>1, <1>1, <1>4, <1>9, <1>10 DEF PlaceInv, serverVars
<1>11. ASSUME NEW k \in 1 .. Len(backlog), backlog[k] = c
      PROVE  client'[c].i = 1 /\ client'[c].a = 0 /\ client'[c].b = 1
  <2>1. QueueInv(k)
    BY DEF Inv
  <2> QED
    BY <2>1, <1>4, <1>11 DEF QueueInv
<1> QED
  BY <1>1, <1>2, <1>4, <1>6, <1>7, <1>8, <1>9, <1>10, <1>11, ClientFrame
-----------------------------------------------------------------------------
LEMMA WaitStep ==
  ASSUME Inv, Wait
  PROVE  Inv'
<1>1. /\ UNCHANGED <<kind, clientVars, backlog, toServer, toClient,
                     client_socket, states, unheld, up>>
      /\ Places' = Places /\ Rounds' = Rounds /\ (Checks' <=> Checks)
  BY KindFacts DEF Wait
<1>2. readfds' \subseteq Acceptable \cup Readable
  BY DEF Wait, Ready
<1>3. Readable \subseteq Places /\ Acceptable \subseteq {LISTEN}
  BY DEF Readable, Acceptable
<1>4. TypeOK'
  BY <1>1, <1>2, <1>3 DEF Inv, TypeOK, clientVars
<1>5. ReadyInv'
  <2>1. LISTEN \in readfds' => backlog # <<>>
    BY <1>2, <1>3, PlacesFacts DEF Acceptable
  <2>2. ASSUME NEW p \in readfds', p # LISTEN PROVE p \in Readable
    BY <1>2, <1>3, <2>2
  <2> QED
    BY <1>1, <2>1, <2>2 DEF ReadyInv, Readable
<1>6. WrongInv'
  BY <1>1 DEF Inv, WrongInv, clientVars
<1>7. ASSUME NEW c \in Clients PROVE ConnInv(c)'
  BY <1>1, ConnFrame DEF Inv, clientVars
<1>8. ASSUME NEW p \in Places PROVE PlaceInv(p)' /\ SeatInv(p)'
  <2>1. PlaceInv(p) /\ SeatInv(p)
    BY DEF Inv
  <2> QED
    BY <2>1, <1>1 DEF PlaceInv, SeatInv, Pending, Answered, clientVars
<1>9. ASSUME NEW k \in 1 .. Len(backlog) PROVE QueueInv(k)'
  <2>1. QueueInv(k)
    BY DEF Inv
  <2> QED
    BY <2>1, <1>1 DEF QueueInv, Answered, clientVars
<1> QED
  BY <1>1, <1>4, <1>5, <1>6, <1>7, <1>8, <1>9 DEF Inv

(* Who is accepted is at its first number, and so is its place.            *)
LEMMA AcceptStep ==
  ASSUME Inv, Accept
  PROVE  Inv'
<1>1. /\ UNCHANGED <<kind, clientVars, toServer, toClient, up>>
      /\ Places' = Places /\ Rounds' = Rounds /\ (Checks' <=> Checks)
  BY KindFacts DEF Accept
<1>2. backlog \in Seq(Clients) /\ backlog # <<>> /\ backlog' = Tail(backlog)
  BY DEF Accept, Turn, Inv, ReadyInv, TypeOK
<1>3. /\ Len(backlog) \in Nat /\ 1 \in 1 .. Len(backlog) /\ Head(backlog) = backlog[1]
      /\ backlog[1] \in Clients /\ backlog' \in Seq(Clients)
      /\ Len(backlog') = Len(backlog) - 1
      /\ \A k \in 1 .. Len(backlog') : /\ k + 1 \in 1 .. Len(backlog)
                                       /\ backlog'[k] = backlog[k + 1]
  BY <1>2
<1> DEFINE c == backlog[1]
<1>4. /\ client[c].i = 1 /\ client[c].a = 0 /\ client[c].b = 1
      /\ client[c].pc # "connect" /\ ~Answered(c)
      /\ \A k \in 1 .. Len(backlog) : backlog[k] = c => k = 1
      /\ \A p \in Places : client_socket[p] # c
  <2>1. QueueInv(1)
    BY <1>3 DEF Inv
  <2> QED
    BY <2>1 DEF QueueInv
<1>5. \/ UNCHANGED <<client_socket, states>>
      \/ \E m \in Free : /\ client_socket' = [client_socket EXCEPT ![m] = c]
                         /\ states' = [states EXCEPT ![m] = Fresh]
  BY <1>3, FreePlace DEF Accept
<1> DEFINE Filled(M) ==
      /\ client_socket' \in [Places -> Clients \cup {NoClient}]
      /\ states' \in [Places -> State]
      /\ \A p \in M : client_socket'[p] = c /\ states'[p] = Fresh
      /\ \A p \in Places \ M : /\ client_socket'[p] = client_socket[p]
                              /\ states'[p] = states[p]
      /\ \A p, q \in M : p = q
<1>6. \E M \in SUBSET Free : Filled(M)
  <2>1. Fresh \in State
    BY PlacesFacts DEF Fresh, State
  <2>2. client_socket \in [Places -> Clients \cup {NoClient}] /\ states \in [Places -> State]
        /\ Free \subseteq Places
    BY DEF Inv, TypeOK, State, Free
  <2>3. CASE UNCHANGED <<client_socket, states>>
    <3>1. Filled({}) /\ {} \in SUBSET Free
      BY <2>2, <2>3
    <3> HIDE DEF Filled, c
    <3> QED
      BY <3>1
  <2>4. ASSUME NEW m \in Free, client_socket' = [client_socket EXCEPT ![m] = c],
               states' = [states EXCEPT ![m] = Fresh]
        PROVE  Filled({m}) /\ {m} \in SUBSET Free
    BY <1>3, <2>1, <2>2, <2>4
  <2> HIDE DEF Filled, c
  <2> QED
    BY <1>5, <2>3, <2>4
<1>7. PICK M \in SUBSET Free : Filled(M)
  BY <1>6
<1>8. \A p \in M : p \in Places /\ client_socket[p] = NoClient
  BY DEF Free
<1>9. TypeOK'
  <2>1. unheld' \subseteq Clients /\ readfds' \subseteq {LISTEN} \cup Places
    BY <1>3 DEF Inv, TypeOK, Accept, Turn
  <2> QED
    BY <1>1, <1>3, <1>7, <2>1 DEF Inv, TypeOK, State, clientVars
<1>10. ReadyInv'
  <2>1. readfds' = readfds \ {LISTEN}
    BY DEF Accept, Turn
  <2>2. ASSUME NEW p \in readfds' PROVE client_socket'[p] = client_socket[p]
                                        /\ client_socket[p] # NoClient
                                        /\ toServer[client_socket[p]] # <<>>
    <3>1. p \in readfds /\ p # LISTEN /\ p \in Places
      BY <2>1, <2>2 DEF Inv, TypeOK
    <3>2. client_socket[p] # NoClient /\ toServer[client_socket[p]] # <<>>
      BY <3>1 DEF Inv, ReadyInv
    <3> QED
      BY <3>1, <3>2, <1>7, <1>8
  <2> QED
    BY <1>1, <2>1, <2>2 DEF ReadyInv
<1>11. WrongInv'
  BY <1>1 DEF Inv, WrongInv, clientVars
<1>12. ASSUME NEW d \in Clients PROVE ConnInv(d)'
  BY <1>1, ConnFrame DEF Inv, clientVars
<1>13. ASSUME NEW p \in Places PROVE PlaceInv(p)' /\ SeatInv(p)'
  <2>1. PlaceInv(p) /\ SeatInv(p)
    BY DEF Inv
  <2>2. CASE p \in M
    <3>1. client_socket'[p] = c /\ states'[p] = Fresh
      BY <1>7, <2>2
    <3>2. Expects(Fresh, 1, 0, 1)
      BY DEF Expects, Fresh
    <3>3. PlaceInv(p)'
      BY <1>1, <1>4, <3>1, <3>2 DEF PlaceInv, Answered, clientVars
    <3>4. \A q \in Places : client_socket'[q] = c => q = p
      BY <1>4, <1>7, <2>2
    <3> QED
      BY <1>1, <1>4, <3>1, <3>3, <3>4 DEF SeatInv, clientVars
  <2>3. CASE p \notin M
    <3>1. client_socket'[p] = client_socket[p] /\ states'[p] = states[p]
      BY <1>7, <2>3
    <3>2. PlaceInv(p)'
      BY <1>1, <2>1, <3>1 DEF PlaceInv, Pending, Answered, clientVars
    <3>3. ASSUME client_socket[p] # NoClient, NEW q \in Places,
                 client_socket'[q] = client_socket[p]
          PROVE  q = p
      <4>1. q \notin M
        BY <1>4, <1>7, <3>3
      <4>2. client_socket[q] = client_socket[p]
        BY <1>7, <3>3, <4>1
      <4> QED
        BY <2>1, <3>3, <4>2 DEF SeatInv
    <3> QED
      BY <1>1, <2>1, <3>1, <3>2, <3>3 DEF SeatInv, clientVars
  <2> QED
    BY <2>2, <2>3
<1>14. ASSUME NEW k \in 1 .. Len(backlog') PROVE QueueInv(k)'
  <2>1. k \in Nat /\ k + 1 \in 1 .. Len(backlog) /\ k + 1 # 1 /\ backlog'[k] = backlog[k + 1]
    BY <1>3
  <2>2. QueueInv(k + 1) /\ backlog[k + 1] # c
    BY <2>1, <1>4 DEF Inv
  <2> DEFINE d == backlog[k + 1]
  <2>3. \A p \in Places : client_socket'[p] # d
    BY <1>7, <2>2 DEF QueueInv
  <2>4. \A j \in 1 .. Len(backlog') : backlog'[j] = d => j = k
    <3>1. ASSUME NEW j \in 1 .. Len(backlog'), backlog'[j] = d PROVE j = k
      <4>1. j \in Nat /\ j + 1 \in 1 .. Len(backlog) /\ backlog[j + 1] = d
        BY <1>3, <3>1
      <4>2. j + 1 = k + 1
        BY <2>2, <4>1 DEF QueueInv
      <4> QED
        BY <2>1, <4>1, <4>2
    <3> QED
      BY <3>1
  <2> QED
    BY <1>1, <2>1, <2>2, <2>3, <2>4 DEF QueueInv, Answered, clientVars
<1> QED
  BY <1>1, <1>9, <1>10, <1>11, <1>12, <1>13, <1>14 DEF Inv

(* A step that serves place p keeps the invariant if it keeps what the      *)
(* invariant says of p and of its client.                                  *)
LEMMA PlaceFrame ==
  ASSUME Inv, TypeOK', NEW p \in Places, NEW c \in Clients, client_socket[p] = c,
         UNCHANGED <<kind, client, wrongAt, backlog>>, ~up => ~up',
         readfds' = readfds \ {p},
         \A d \in Clients \ {c} : toServer'[d] = toServer[d] /\ toClient'[d] = toClient[d],
         \A q \in Places \ {p} : client_socket'[q] = client_socket[q] /\ states'[q] = states[q],
         client_socket'[p] \in {c, NoClient},
         ConnInv(c)', PlaceInv(p)'
  PROVE  Inv'
<1>1. Places' = Places /\ (Checks' <=> Checks)
  BY KindFacts
<1>2. /\ c # NoClient /\ client[c].pc # "connect"
      /\ \A q \in Places \ {p} : client_socket[q] # c
  <2>1. SeatInv(p) /\ c # NoClient
    BY EventServerAssumption DEF Inv
  <2> QED
    BY <2>1 DEF SeatInv
<1>3. ReadyInv'
  <2>1. LISTEN \in readfds' => backlog' # <<>>
    BY DEF Inv, ReadyInv
  <2>2. ASSUME NEW q \in readfds', q # LISTEN
        PROVE  client_socket'[q] # NoClient /\ toServer'[client_socket'[q]] # <<>>
    <3>1. q \in readfds /\ q # p /\ q \in Places
      BY <2>2 DEF Inv, TypeOK
    <3>2. /\ client_socket[q] # NoClient /\ toServer[client_socket[q]] # <<>>
          /\ client_socket[q] \in Clients
      BY <2>2, <3>1 DEF Inv, ReadyInv, TypeOK
    <3>3. client_socket'[q] = client_socket[q] /\ client_socket[q] # c
      BY <3>1, <1>2
    <3> QED
      BY <3>2, <3>3
  <2> QED
    BY <2>1, <2>2 DEF ReadyInv
<1>4. WrongInv'
  BY <1>1 DEF Inv, WrongInv
<1>5. ASSUME NEW d \in Clients PROVE ConnInv(d)'
  <2>1. CASE d = c
    BY <2>1
  <2>2. CASE d # c
    BY <2>2, ConnFrame DEF Inv
  <2> QED
    BY <2>1, <2>2
<1>6. ASSUME NEW q \in Places PROVE PlaceInv(q)' /\ SeatInv(q)'
  <2>1. CASE q = p
    <3>1. SeatInv(p)'
      BY <1>1, <1>2 DEF SeatInv
    <3> QED
      BY <2>1, <3>1
  <2>2. CASE q # p
    <3>1. /\ PlaceInv(q) /\ SeatInv(q) /\ client_socket[q] \in Clients \cup {NoClient}
          /\ client_socket'[q] = client_socket[q] /\ states'[q] = states[q]
          /\ client_socket[q] # c
      BY <1>6, <2>2, <1>2 DEF Inv, TypeOK
    <3>2. PlaceInv(q)'
      BY <3>1, <1>1 DEF PlaceInv, Pending, Answered
    <3>3. ASSUME client_socket[q] # NoClient, NEW r \in Places,
                 client_socket'[r] = client_socket[q]
          PROVE  r = q
      <4>1. r # p
        BY <3>1, <3>3
      <4>2. client_socket[r] = client_socket[q]
        BY <3>3, <4>1
      <4> QED
        BY <3>1, <3>3, <4>2 DEF SeatInv
    <3> QED
      BY <3>1, <3>2, <3>3, <1>1 DEF SeatInv
  <2> QED
    BY <2>1, <2>2
<1>7. ASSUME NEW k \in 1 .. Len(backlog) PROVE QueueInv(k)'
  <2>1. QueueInv(k) /\ backlog[k] \in Clients
    BY <1>7 DEF Inv, TypeOK
  <2>2. backlog[k] # c
    BY <2>1 DEF QueueInv
  <2>3. \A q \in Places : client_socket'[q] # backlog[k]
    BY <2>1, <2>2, EventServerAssumption DEF QueueInv
  <2> QED
    BY <2>1, <2>2, <2>3, <1>1 DEF QueueInv, Answered
<1> QED
  BY <1>1, <1>3, <1>4, <1>5, <1>6, <1>7 DEF Inv

(* What the server finds at a place it turns to.                           *)
LEMMA TurnFacts ==
  ASSUME Inv, NEW p \in Places, Turn(p)
  PROVE  /\ client_socket[p] \in Clients /\ p # LISTEN
         /\ toServer[client_socket[p]] # <<>>
         /\ Head(toServer[client_socket[p]]) = toServer[client_socket[p]][1]
         /\ toServer[client_socket[p]][1] \in Nat \cup {Fin, Rst}
<1>1. p # LISTEN /\ p \in readfds
  BY PlacesFacts DEF Turn
<1>2. client_socket[p] \in Clients /\ toServer[client_socket[p]] # <<>>
  BY <1>1 DEF Inv, ReadyInv, TypeOK
<1>3. toServer[client_socket[p]] \in Seq(Nat \cup {Fin, Rst})
  BY <1>2 DEF Inv, TypeOK
<1> QED
  BY <1>1, <1>2, <1>3

(* The answer to a number is the one it deserves.                          *)
LEMMA DataStep ==
  ASSUME Inv, NEW p \in Places, Data(p), NEW c \in Clients, client_socket[p] = c
  PROVE  Inv'
<1> DEFINE is_correct == Checks => IsCorrect(states[p], toServer[c][1])
           ack == IF is_correct THEN "OK" ELSE "ERROR"
<1>1. /\ UNCHANGED <<kind, clientVars, backlog, unheld>>
      /\ Places' = Places /\ Rounds' = Rounds /\ (Checks' <=> Checks)
  BY KindFacts DEF Data
<1>2. /\ TypeOK /\ p # LISTEN /\ toServer[c] # <<>>
      /\ Head(toServer[c]) = toServer[c][1] /\ toServer[c][1] \in Nat
      /\ ConnInv(c) /\ PlaceInv(p) /\ up /\ readfds' = readfds \ {p}
  <2>1. Turn(p) /\ Head(toServer[c]) \notin {Fin, Rst}
    BY DEF Data
  <2> QED
    BY <2>1, TurnFacts DEF Inv, Turn
<1>3. /\ toServer' = [toServer EXCEPT ![c] = Tail(@)]
      /\ Answer(c, ack) /\ ServesOn
      /\ IF is_correct /\ up'
         THEN /\ states' = IF Checks THEN [states EXCEPT ![p] = Advance(@)] ELSE states
              /\ UNCHANGED client_socket
         ELSE Hangup(p) /\ UNCHANGED states
  BY <1>2 DEF Data
<1>4. Pending(c) /\ toServer[c][1] = Number(c) /\ Number(c) \in Nat
  BY <1>2, ClientType DEF Pending, ConnInv
<1>5. /\ client[c].pc \in {"read"} \cup Ended
      /\ client[c].pc = "read" => toServer[c] = <<Number(c)>> /\ toClient[c] = <<>>
      /\ client[c].pc # "read" => toClient[c] = <<>>
  <2>1. client[c].pc \in {"connect", "send", "read"} \cup Ended
    BY <1>2, ClientType
  <2> QED
    BY <1>2, <2>1 DEF ConnInv
<1>6. Checks => Expects(states[p], client[c].i, client[c].a, client[c].b)
  BY <1>2, <1>4, EventServerAssumption DEF PlaceInv
<1>7. states[p] \in State /\ client[c].i \in Nat /\ client[c].i >= 1 /\ client[c].i <= Rounds
      /\ client[c].a \in Nat /\ client[c].b \in Nat
  BY <1>2, ClientType DEF TypeOK, State
<1>8. ack = Deserved(c)
  <2>1. CASE Checks
    <3>1. IsCorrect(states[p], client[c].a) /\ ~IsCorrect(states[p], client[c].a + 1)
      BY <2>1, <1>6, <1>7, ExpectedIsCorrect
    <3>2. CASE client[c].i = wrongAt[c]
      <4>1. toServer[c][1] = client[c].a + 1
        BY <1>4, <3>2 DEF Number
      <4> QED
        BY <2>1, <3>1, <3>2, <4>1 DEF Deserved
    <3>3. CASE client[c].i # wrongAt[c]
      <4>1. toServer[c][1] = client[c].a
        BY <1>4, <1>7, <3>3 DEF Number
      <4> QED
        BY <2>1, <3>1, <3>3, <4>1 DEF Deserved
    <3> QED
      BY <3>2, <3>3
  <2>2. CASE ~Checks
    BY <2>2 DEF Deserved
  <2> QED
    BY <2>1, <2>2
<1> HIDE DEF is_correct, ack
<1>9. /\ toServer'[c] = Tail(toServer[c])
      /\ \A d \in Clients \ {c} : toServer'[d] = toServer[d]
      /\ toServer' \in [Clients -> Seq(Nat \cup {Fin, Rst})]
  <2>1. toServer \in [Clients -> Seq(Nat \cup {Fin, Rst})]
    BY <1>2 DEF TypeOK
  <2>2. Tail(toServer[c]) \in Seq(Nat \cup {Fin, Rst})
    BY <1>2, <2>1
  <2> QED
    BY <1>3, <2>1, <2>2
<1>10. /\ toServer[c] \in Seq(Nat \cup {Fin, Rst}) /\ Len(toServer[c]) \in Nat
       /\ Len(toServer'[c]) = Len(toServer[c]) - 1
       /\ \A k \in 1 .. Len(toServer'[c]) :
            k + 1 \in 1 .. Len(toServer[c]) /\ toServer'[c][k] = toServer[c][k + 1]
  BY <1>2, <1>9 DEF TypeOK
<1>11. \A k \in 1 .. Len(toServer'[c]) : toServer'[c][k] \notin Nat
  <2>1. ASSUME NEW k \in 1 .. Len(toServer'[c]), toServer'[c][k] \in Nat PROVE FALSE
    <3>1. k \in Nat /\ k >= 1
      OBVIOUS
    <3>2. k + 1 = 1
      BY <1>2, <1>10, <2>1 DEF ConnInv
    <3> QED
      BY <3>1, <3>2
  <2> QED
    BY <2>1
<1>12. ~Pending(c)'
  <2>1. ASSUME toServer'[c] # <<>> PROVE toServer'[c][1] \notin Nat
    <3>1. 1 \in 1 .. Len(toServer'[c])
      BY <2>1, <1>2, <1>9
    <3> QED
      BY <3>1, <1>11
  <2> QED
    BY <2>1 DEF Pending
<1>13. \/ client[c].pc = "read" /\ toClient' = [toClient EXCEPT ![c] = <<Deserved(c)>>]
       \/ client[c].pc # "read" /\ toClient' = toClient
  <2>1. CASE client[c].pc = "read"
    <3>1. client[c].pc \notin Ended
      BY <2>1 DEF Ended
    <3>2. toClient[c] = <<>>
      BY <1>5, <2>1
    <3>3. toClient' = [toClient EXCEPT ![c] = Append(<<>>, ack)]
      BY <1>2, <1>3, <3>1, <3>2 DEF Answer, TypeOK
    <3>4. Append(<<>>, ack) = <<ack>>
      OBVIOUS
    <3> QED
      BY <1>8, <2>1, <3>3, <3>4
  <2>2. CASE client[c].pc # "read"
    BY <1>3, <1>5, <2>2 DEF Answer
  <2> QED
    BY <2>1, <2>2
<1>14. /\ toClient' \in [Clients -> Seq({"OK", "ERROR"})]
       /\ \A d \in Clients \ {c} : toClient'[d] = toClient[d]
       /\ toClient'[c] = IF client[c].pc = "read" THEN <<Deserved(c)>> ELSE toClient[c]
  <2>1. <<Deserved(c)>> \in Seq({"OK", "ERROR"})
    BY DEF Deserved
  <2> QED
    BY <1>2, <1>13, <2>1 DEF TypeOK
<1>15. client' = client /\ wrongAt' = wrongAt /\ kills' = kills
       /\ Number(c)' = Number(c) /\ Deserved(c)' = Deserved(c)
  BY <1>1 DEF clientVars, Number, Deserved
<1>16. ConnInv(c)'
  <2>1. client[c].pc = "read" => toServer'[c] = <<>>
    BY <1>5, <1>9, <1>10
  <2>2. client[c].pc \notin {"connect", "send", "cut"}
    <3>1. client[c].pc # "cut"
      BY <1>2 DEF ConnInv
    <3> QED
      BY <1>5, <3>1 DEF Ended
  <2> QED
    BY <1>2, <1>5, <1>11, <1>14, <1>15, <2>1, <2>2 DEF ConnInv
<1>17. up' \in BOOLEAN /\ readfds' \subseteq {LISTEN} \cup Places
  BY <1>2, <1>3 DEF ServesOn, TypeOK
<1>18. CASE is_correct /\ up'
  <2>1. Checks => /\ Advance(states[p]) \in State
                  /\ Expects(Advance(states[p]), client[c].i + 1, client[c].b,
                             client[c].a + client[c].b)
    BY <1>6, <1>7, AdvanceExpects
  <2>2. /\ states' \in [Places -> State]
        /\ \A q \in Places \ {p} : states'[q] = states[q]
        /\ Checks => states'[p] = Advance(states[p])
    BY <1>2, <1>3, <1>18, <2>1 DEF TypeOK, State
  <2>3. client_socket' = client_socket
    BY <1>3, <1>18
  <2>4. TypeOK'
    BY <1>1, <1>2, <1>9, <1>14, <1>15, <1>17, <2>2, <2>3 DEF TypeOK, State
  <2>5. Deserved(c) = "OK"
    BY <1>8, <1>18 DEF ack
  <2>6. PlaceInv(p)'
    BY <1>1, <1>5, <1>12, <1>14, <1>15, <2>1, <2>2, <2>3, <2>5 DEF PlaceInv, Answered, Ended
  <2> QED
    BY <1>1, <1>2, <1>9, <1>14, <1>15, <1>16, <2>2, <2>3, <2>4, <2>6, PlaceFrame
<1>19. CASE ~(is_correct /\ up')
  <2>1. /\ client_socket' = [client_socket EXCEPT ![p] = NoClient] /\ states' = states
    BY <1>3, <1>19 DEF Hangup
  <2>2. /\ client_socket' \in [Places -> Clients \cup {NoClient}]
        /\ client_socket'[p] = NoClient
        /\ \A q \in Places \ {p} : client_socket'[q] = client_socket[q]
    BY <1>2, <2>1 DEF TypeOK
  <2>3. TypeOK'
    BY <1>1, <1>2, <1>9, <1>14, <1>15, <1>17, <2>1, <2>2 DEF TypeOK
  <2>4. PlaceInv(p)'
    BY <2>2 DEF PlaceInv
  <2> QED
    BY <1>1, <1>2, <1>9, <1>14, <1>15, <1>16, <2>1, <2>2, <2>3, <2>4, PlaceFrame
<1> QED
  BY <1>18, <1>19

LEMMA DisconnectStep ==
  ASSUME Inv, NEW p \in Places, Disconnect(p), NEW c \in Clients, client_socket[p] = c
  PROVE  Inv'
<1>1. /\ UNCHANGED <<kind, clientVars, backlog, toServer, toClient, states, unheld>>
      /\ Places' = Places /\ Rounds' = Rounds /\ (Checks' <=> Checks)
  BY KindFacts DEF Disconnect
<1>2. /\ TypeOK /\ ConnInv(c) /\ PlaceInv(p) /\ up /\ up' \in BOOLEAN
      /\ readfds' = readfds \ {p}
      /\ client_socket' = client_socket \/ Hangup(p)
  BY DEF Disconnect, Inv, Turn, TypeOK, ServesOn
<1>3. /\ client_socket' \in [Places -> Clients \cup {NoClient}]
      /\ client_socket'[p] \in {c, NoClient}
      /\ \A q \in Places \ {p} : client_socket'[q] = client_socket[q]
  BY <1>2 DEF TypeOK, Hangup
<1>4. TypeOK'
  BY <1>1, <1>2, <1>3 DEF TypeOK, clientVars
<1>5. ConnInv(c)'
  BY <1>1, <1>2, ConnFrame DEF clientVars
<1>6. PlaceInv(p)'
  BY <1>1, <1>2, <1>3 DEF PlaceInv, Pending, Answered, clientVars
<1> QED
  BY <1>1, <1>2, <1>3, <1>4, <1>5, <1>6, PlaceFrame DEF clientVars
-----------------------------------------------------------------------------
LEMMA InitInv == Init => Inv
<1> SUFFICES ASSUME Init PROVE Inv
  OBVIOUS
<1>1. TypeOK
  <2>1. /\ wrongAt \in [Clients -> 0 .. MAX_FIB] /\ kills \in 0 .. MaxKills
    <3>1. {0} \cup WrongRounds \subseteq 0 .. MAX_FIB /\ MaxKills \in Nat
      BY EventServerAssumption
    <3> QED
      BY <3>1 DEF Init
  <2>2. Fresh \in [f_n1 : Nat, f_n2 : Nat, count : 0 .. Rounds] /\ 1 \in 1 .. Rounds
    BY PlacesFacts DEF Fresh
  <2>3. /\ <<>> \in Seq(Clients) /\ <<>> \in Seq(Nat \cup {Fin, Rst})
        /\ <<>> \in Seq({"OK", "ERROR"})
    OBVIOUS
  <2>4. client \in [Clients -> [pc : {"connect", "send", "read"} \cup Ended,
                                i : 1 .. Rounds, a : Nat, b : Nat]]
    BY <2>2 DEF Init
  <2> QED
    BY <2>1, <2>2, <2>3, <2>4 DEF Init, TypeOK
<1>2. ReadyInv /\ WrongInv
  BY DEF Init, ReadyInv, WrongInv
<1>3. ASSUME NEW c \in Clients PROVE ConnInv(c)
  <2>1. client[c] = [pc |-> "connect", i |-> 1, a |-> 0, b |-> 1]
        /\ toServer[c] = <<>> /\ toClient[c] = <<>>
    BY DEF Init
  <2> QED
    BY <2>1 DEF ConnInv
<1>4. ASSUME NEW p \in Places PROVE PlaceInv(p) /\ SeatInv(p)
  BY DEF Init, PlaceInv, SeatInv
<1>5. Len(backlog) = 0
  BY DEF Init
<1>6. \A k \in 1 .. Len(backlog) : QueueInv(k)
  BY <1>5
<1> QED
  BY <1>1, <1>2, <1>3, <1>4, <1>6 DEF Inv

LEMMA StepInv == Inv /\ [Next]_vars => Inv'
<1> SUFFICES ASSUME Inv, [Next]_vars PROVE Inv'
  OBVIOUS
<1>1. ASSUME NEW c \in Clients, Client(c) \/ Kill(c) PROVE Inv'
  BY <1>1, ConnectStep, SendStep, ReceiveStep, CutOffStep, KillStep DEF Client
<1>2. ASSUME NEW p \in Places, Data(p) \/ Disconnect(p) PROVE Inv'
  <2>1. Turn(p)
    BY <1>2 DEF Data, Disconnect
  <2>2. client_socket[p] \in Clients
    BY <2>1, TurnFacts
  <2> QED
    BY <1>2, <2>2, DataStep, DisconnectStep
<1>3. CASE UNCHANGED vars
  <2>1. Places' = Places /\ Rounds' = Rounds /\ (Checks' <=> Checks)
    BY <1>3, KindFacts DEF vars
  <2>2. TypeOK' /\ ReadyInv' /\ WrongInv'
    BY <1>3, <2>1 DEF vars, Inv, TypeOK, ReadyInv, WrongInv
  <2>3. \A c \in Clients : ConnInv(c)'
    BY <1>3, ConnFrame DEF vars, Inv
  <2>4. ASSUME NEW p \in Places PROVE PlaceInv(p)' /\ SeatInv(p)'
    <3>1. PlaceInv(p) /\ SeatInv(p)
      BY DEF Inv
    <3> QED
      BY <1>3, <2>1, <3>1 DEF vars, PlaceInv, SeatInv, Pending, Answered
  <2>5. ASSUME NEW k \in 1 .. Len(backlog) PROVE QueueInv(k)'
    <3>1. QueueInv(k)
      BY DEF Inv
    <3> QED
      BY <1>3, <2>1, <3>1 DEF vars, QueueInv, Answered
  <2>6. backlog' = backlog
    BY <1>3 DEF vars
  <2> QED
    BY <2>1, <2>2, <2>3, <2>4, <2>5, <2>6 DEF Inv
<1> QED
  BY <1>1, <1>2, <1>3, WaitStep, AcceptStep DEF Next, Server

LEMMA Invariance == Spec => []Inv
<1> QED
  BY InitInv, StepInv, PTL DEF Spec

(* Every value stays within its type, the places and their states included. *)
THEOREM TypeCorrect == Spec => []TypeOK
<1>1. Inv => TypeOK
  BY DEF Inv
<1> QED
  BY <1>1, Invariance, PTL

(* Each client is judged by its own numbers alone, by all five servers.    *)
THEOREM VerdictsCorrect == Spec => []Verdicts
<1>1. Inv => Verdicts
  <2> SUFFICES ASSUME Inv, NEW c \in Clients
               PROVE  /\ toClient[c] \in {<<>>, <<Deserved(c)>>}
                      /\ client[c].pc = "refused" => Deserved(c) = "ERROR"
                      /\ client[c].pc = "done" => Deserved(c) = "OK"
                      /\ client[c].pc = "cut" => ~up
    BY DEF Verdicts, Deserved
  <2>1. ConnInv(c)
    BY DEF Inv
  <2> QED
    BY <2>1 DEF ConnInv
<1> QED
  BY <1>1, Invariance, PTL
=============================================================================
