-------------------------- MODULE BankServerProofs --------------------------
(***************************************************************************)
(* The safety properties of BankServer, proved for every number of         *)
(* clients, tokens, slots and commands, and that it implements Bank.       *)
(*                                                                         *)
(* In order: types; the tokens; the table under db_lock; the length of a   *)
(* set of rows, which Bank states as a fold; the table and the calls as    *)
(* the terminals see them; the state of one connection (Session) and of a  *)
(* LIST under way (Listing); and the step of Bank, or none, that each step *)
(* of the program is.                                                      *)
(***************************************************************************)
EXTENDS BankServer, TLAPS, WellFoundedInduction, FiniteSetTheorems, SequenceTheorems

(* A nonempty set of naturals has a least element.                         *)
LEMMA NatMinimum ==
  ASSUME NEW S \in SUBSET Nat, S # {}
  PROVE  \E m \in S : \A n \in S : m <= n
<1> DEFINE Less == {nm \in Nat \X Nat : nm[1] < nm[2]}
<1>1. IsWellFoundedOn(Less, Nat)
  BY NatLessThanWellFounded DEF OpToRel
<1>2. \A n, m \in Nat : n < m => <<n, m>> \in Less
  OBVIOUS
<1> HIDE DEF Less
<1>3. PICK m \in S : \A n \in S : <<n, m>> \notin Less
  BY <1>1, WFMin
<1>4. \A n \in S : ~(n < m)
  BY <1>2, <1>3
<1> QED
  BY <1>4

(* The slot a scan of the table stops at belongs to the set it looks for.  *)
LEMMA FirstIsMember ==
  ASSUME NEW S \in SUBSET Slots, S # {}
  PROVE  First(S) \in S
<1>1. S \in SUBSET Nat
  BY DEF Slots
<1>2. \E m \in S : \A n \in S : m <= n
  BY <1>1, NatMinimum
<1> QED
  BY <1>2 DEF First

(* The program starts in a state of the right type.                        *)
LEMMA InitType == Init => TypeOK
<1> SUFFICES ASSUME Init PROVE TypeOK
  OBVIOUS
<1>1. Slot(CHOOSE i \in Ids : TRUE, CHOOSE v \in Values : TRUE, FALSE) \in Record
  BY DomainsAssumption DEF Slot, Record
<1>2. (CHOOSE r \in Request : TRUE) \in Request
  <2>1. [op |-> "BAD", id |-> CHOOSE i \in Ids : TRUE, val |-> CHOOSE v \in Values : TRUE] \in Request
    BY DomainsAssumption DEF Request, Ops
  <2> QED
    BY <2>1
<1>3. Answer("INVALID") \in Response
  BY DEF Answer, Response, Tags
<1> QED
  <2>1. /\ db \in [Slots -> Record]
        /\ req \in [Clients -> Request]
        /\ resp \in [Clients -> Response]
    BY <1>1, <1>2, <1>3 DEF Init
  <2>2. /\ pos \in [Clients -> 0..(MaxRecords + 1)]
        /\ typed \in [Clients -> 0..MaxOps]
        /\ tokens \in Nat /\ faults \in 0..MaxFaults
    BY BoundsAssumption, MaxRecordsAssumption DEF Init
  <2>3. /\ c2s \in [Clients -> Seq(Message)]
        /\ s2c \in [Clients -> Seq(Response)]
        /\ backlog \in Seq(Clients)
    BY DEF Init
  <2> QED
    BY <2>1, <2>2, <2>3 DEF Init, TypeOK, ThreadSteps

(* What a thread does with its socket, as long as it is its own.           *)
OwnRecv(c) ==
  /\ At(c, "recv")
  /\ c2s[c] # <<>>
  /\ c2s' = [c2s EXCEPT ![c] = Tail(@)]
  /\ LET m == Head(c2s[c]) IN
       \/ m.op \in {"QUIT", "EOF"} /\ Goto(c, "post") /\ UNCHANGED <<req, resp>>
       \/ m.op = "BAD" /\ Goto(c, "send") /\ Respond(c, "INVALID") /\ UNCHANGED req
       \/ /\ m.op \in Ops \ {"BAD"}
          /\ Goto(c, "lock") /\ req' = [req EXCEPT ![c] = m] /\ Respond(c, "INVALID")
  /\ UNCHANGED <<outside, s2c, tokens, pos, used, db, lock>>
OwnSend(c) ==
  /\ At(c, "send")
  /\ s2c' = IF cpc[c] = "closed" THEN s2c ELSE [s2c EXCEPT ![c] = Append(@, resp[c])]
  /\ Goto(c, "recv")
  /\ UNCHANGED <<outside, c2s, tokens, locals, db, lock>>

(* It reads its own terminal.                                              *)
LEMMA RecvOwn ==
  ASSUME Handover, NEW c \in Clients, Recv(c)
  PROVE  OwnRecv(c)
<1>1. sock[c] = c
  BY DEF Recv, At, Handover, Serving
<1> QED
  BY <1>1 DEF Recv, OwnRecv

(* And it answers it.                                                      *)
LEMMA SendOwn ==
  ASSUME Handover, NEW c \in Clients, Send(c)
  PROVE  OwnSend(c)
<1>1. sock[c] = c
  BY DEF Send, At, Handover, Serving
<1> QED
  BY <1>1 DEF Send, OwnSend

(* Every step leaves a state of the right type.                            *)
LEMMA TypeStep == TypeOK /\ Handover /\ [Next]_vars => TypeOK'
<1> SUFFICES ASSUME TypeOK, Handover, [Next]_vars PROVE TypeOK'
  OBVIOUS
<1>cpc. cpc \in [Clients -> {"start", "idle", "wait", "closed"}]
  BY DEF TypeOK
<1>typed. typed \in [Clients -> 0..MaxOps]
  BY DEF TypeOK
<1>c2s. c2s \in [Clients -> Seq(Message)]
  BY DEF TypeOK
<1>s2c. s2c \in [Clients -> Seq(Response)]
  BY DEF TypeOK
<1>backlog. backlog \in Seq(Clients)
  BY DEF TypeOK
<1>mpc. mpc \in {"wait", "accept", "create"}
  BY DEF TypeOK
<1>cur. cur \in Clients \cup {None}
  BY DEF TypeOK
<1>new_sock. new_sock \in [Clients -> Clients \cup {None}]
  BY DEF TypeOK
<1>sock. sock \in [Clients -> Clients \cup {None}]
  BY DEF TypeOK
<1>tokens. tokens \in Nat
  BY DEF TypeOK
<1>faults. faults \in 0..MaxFaults
  BY DEF TypeOK
<1>wpc. wpc \in [Clients -> ThreadSteps]
  BY DEF TypeOK
<1>req. req \in [Clients -> Request]
  BY DEF TypeOK
<1>pos. pos \in [Clients -> 0..(MaxRecords + 1)]
  BY DEF TypeOK
<1>used. used \in [Clients -> Nat]
  BY DEF TypeOK
<1>resp. resp \in [Clients -> Response]
  BY DEF TypeOK
<1>db. db \in [Slots -> Record]
  BY DEF TypeOK
<1>lock. lock \in Clients \cup {None}
  BY DEF TypeOK
<1>1. ASSUME NEW c \in Clients, Connect(c) PROVE TypeOK'
  <2>1. cpc' \in [Clients -> {"start", "idle", "wait", "closed"}]
    BY <1>cpc, <1>1 DEF Connect
  <2>2. backlog' \in Seq(Clients)
    BY <1>backlog, <1>1 DEF Connect
  <2>3. UNCHANGED <<typed, c2s, s2c, mpc, cur, new_sock, sock, tokens, faults, wpc, req, pos, used, resp, db, lock>>
    BY <1>1 DEF Connect, clientVars, mainVars, handed, locals, outside, serverSide, connections, workers
  <2> QED
    BY <2>1, <2>2, <2>3 DEF TypeOK
<1>2. ASSUME NEW c \in Clients, SendRequest(c) PROVE TypeOK'
  <2>1. cpc' \in [Clients -> {"start", "idle", "wait", "closed"}]
    BY <1>cpc, <1>2 DEF SendRequest
  <2>2. typed' \in [Clients -> 0..MaxOps]
    <3>1. typed' = [typed EXCEPT ![c] = @ + 1] /\ typed[c] < MaxOps
      BY <1>2 DEF SendRequest
    <3> QED
      BY <1>typed, <3>1, BoundsAssumption
  <2>3. c2s' \in [Clients -> Seq(Message)]
    <3>1. PICK r \in Requests : c2s' = [c2s EXCEPT ![c] = Append(@, r)]
      BY <1>2 DEF SendRequest
    <3>2. r \in Message
      BY RequestsAssumption DEF Message
    <3>3. Append(c2s[c], r) \in Seq(Message)
      BY <1>c2s, <3>2
    <3> QED
      BY <1>c2s, <3>1, <3>2, <3>3
  <2>4. UNCHANGED <<s2c, backlog, mpc, cur, new_sock, sock, tokens, faults, wpc, req, pos, used, resp, db, lock>>
    BY <1>2 DEF SendRequest, clientVars, mainVars, handed, locals, outside, serverSide, connections, workers
  <2> QED
    BY <2>1, <2>2, <2>3, <2>4 DEF TypeOK
<1>3. ASSUME NEW c \in Clients, ReceiveReply(c) PROVE TypeOK'
  <2>1. cpc' \in [Clients -> {"start", "idle", "wait", "closed"}]
    BY <1>cpc, <1>3 DEF ReceiveReply
  <2>2. s2c' \in [Clients -> Seq(Response)]
    BY <1>s2c, <1>3 DEF ReceiveReply
  <2>3. UNCHANGED <<typed, c2s, backlog, mpc, cur, new_sock, sock, tokens, faults, wpc, req, pos, used, resp, db, lock>>
    BY <1>3 DEF ReceiveReply, clientVars, mainVars, handed, locals, outside, serverSide, connections, workers
  <2> QED
    BY <2>1, <2>2, <2>3 DEF TypeOK
<1>4. ASSUME NEW c \in Clients, TypeQuit(c) PROVE TypeOK'
  <2>1. cpc' \in [Clients -> {"start", "idle", "wait", "closed"}]
    BY <1>cpc, <1>4 DEF TypeQuit
  <2>2. c2s' \in [Clients -> Seq(Message)]
    <3>1. c2s' = [c2s EXCEPT ![c] = @ \o <<Quit, Eof>>]
      BY <1>4 DEF TypeQuit
    <3>2. <<Quit, Eof>> \in Seq(Message)
      BY DEF Message
    <3>3. c2s[c] \o <<Quit, Eof>> \in Seq(Message)
      BY <1>c2s, <3>2
    <3> QED
      BY <1>c2s, <3>1, <3>2, <3>3
  <2>3. UNCHANGED <<typed, s2c, backlog, mpc, cur, new_sock, sock, tokens, faults, wpc, req, pos, used, resp, db, lock>>
    BY <1>4 DEF TypeQuit, clientVars, mainVars, handed, locals, outside, serverSide, connections, workers
  <2> QED
    BY <2>1, <2>2, <2>3 DEF TypeOK
<1>5. ASSUME NEW c \in Clients, Die(c) PROVE TypeOK'
  <2>1. cpc' \in [Clients -> {"start", "idle", "wait", "closed"}]
    BY <1>cpc, <1>5 DEF Die
  <2>2. c2s' \in [Clients -> Seq(Message)]
    <3>1. c2s' = [c2s EXCEPT ![c] = Append(@, Eof)]
      BY <1>5 DEF Die
    <3>2. Append(c2s[c], Eof) \in Seq(Message)
      BY <1>c2s DEF Message
    <3> QED
      BY <1>c2s, <3>1, <3>2
  <2>3. s2c' \in [Clients -> Seq(Response)]
    BY <1>s2c, <1>5 DEF Die
  <2>4. UNCHANGED <<typed, backlog, mpc, cur, new_sock, sock, tokens, faults, wpc, req, pos, used, resp, db, lock>>
    BY <1>5 DEF Die, clientVars, mainVars, handed, locals, outside, serverSide, connections, workers
  <2> QED
    BY <2>1, <2>2, <2>3, <2>4 DEF TypeOK
<1>6. CASE SemWait
  <2>1. mpc' \in {"wait", "accept", "create"}
    BY <1>mpc, <1>6 DEF SemWait
  <2>2. tokens' \in Nat
    BY <1>tokens, <1>6 DEF SemWait
  <2>3. mpc' = "create" => cur' \in Clients
    BY <1>mpc, <1>cur, <1>backlog, <1>6 DEF SemWait
  <2>4. UNCHANGED <<cpc, typed, c2s, s2c, backlog, new_sock, sock, cur, faults, wpc, req, pos, used, resp, db, lock>>
    BY <1>6 DEF SemWait, clientVars, mainVars, handed, locals, outside, serverSide, connections, workers
  <2> QED
    BY <2>1, <2>2, <2>3, <2>4 DEF TypeOK
<1>7. CASE AcceptConnection
  <2>1. mpc' \in {"wait", "accept", "create"}
    BY <1>mpc, <1>7 DEF AcceptConnection
  <2>2. cur' \in Clients \cup {None}
    BY <1>cur, <1>backlog, <1>7 DEF AcceptConnection
  <2>3. backlog' \in Seq(Clients)
    BY <1>backlog, <1>7 DEF AcceptConnection
  <2>4. mpc' = "create" => cur' \in Clients
    BY <1>mpc, <1>cur, <1>backlog, <1>7 DEF AcceptConnection
  <2>5. UNCHANGED <<cpc, typed, c2s, s2c, new_sock, sock, tokens, faults, wpc, req, pos, used, resp, db, lock>>
    BY <1>7 DEF AcceptConnection, clientVars, mainVars, handed, locals, outside, serverSide, connections, workers
  <2> QED
    BY <2>1, <2>2, <2>3, <2>4, <2>5 DEF TypeOK
<1>8. CASE AcceptError
  <2>1. mpc' \in {"wait", "accept", "create"}
    BY <1>mpc, <1>8 DEF AcceptError
  <2>2. tokens' \in Nat
    BY <1>tokens, <1>8 DEF AcceptError
  <2>3. faults' \in 0..MaxFaults
    BY <1>faults, <1>8, BoundsAssumption DEF AcceptError, MayFail
  <2>4. mpc' = "create" => cur' \in Clients
    BY <1>mpc, <1>cur, <1>backlog, <1>8 DEF AcceptError
  <2>5. UNCHANGED <<cpc, typed, c2s, s2c, backlog, new_sock, sock, cur, wpc, req, pos, used, resp, db, lock>>
    BY <1>8 DEF AcceptError, clientVars, mainVars, handed, locals, outside, serverSide, connections, workers
  <2> QED
    BY <2>1, <2>2, <2>3, <2>4, <2>5 DEF TypeOK
<1>9. CASE CreateThread
  <2>1. mpc' \in {"wait", "accept", "create"}
    BY <1>mpc, <1>9 DEF CreateThread
  <2>2. cur' \in Clients \cup {None}
    BY <1>cur, <1>backlog, <1>9 DEF CreateThread
  <2>3. wpc' \in [Clients -> ThreadSteps]
    BY <1>wpc, <1>cur, <1>9 DEF CreateThread, ThreadSteps, Running, Serving, Critical, Goto
  <2>4. mpc' = "create" => cur' \in Clients
    BY <1>wpc, <1>cur, <1>9 DEF CreateThread
  <2>5. UNCHANGED <<cpc, typed, c2s, s2c, backlog, sock, tokens, faults, req, pos, used, resp, db, lock>>
    BY <1>9 DEF CreateThread, clientVars, mainVars, handed, locals, outside, serverSide, connections, workers
  <2>6. new_sock' \in [Clients -> Clients \cup {None}]
    BY <1>new_sock, <1>cur, <1>9 DEF CreateThread, TypeOK
  <2> QED
    BY <2>1, <2>2, <2>3, <2>4, <2>5, <2>6 DEF TypeOK
<1>10. CASE CreateFails
  <2>1. mpc' \in {"wait", "accept", "create"}
    BY <1>mpc, <1>10 DEF CreateFails
  <2>2. cur' \in Clients \cup {None}
    BY <1>cur, <1>backlog, <1>10 DEF CreateFails
  <2>3. wpc' \in [Clients -> ThreadSteps]
    BY <1>wpc, <1>cur, <1>10 DEF CreateFails, ThreadSteps, Running, Serving, Critical, Goto
  <2>4. faults' \in 0..MaxFaults
    BY <1>faults, <1>10, BoundsAssumption DEF CreateFails, MayFail
  <2>5. mpc' = "create" => cur' \in Clients
    BY <1>mpc, <1>cur, <1>backlog, <1>10 DEF CreateFails
  <2>6. UNCHANGED <<cpc, typed, c2s, s2c, backlog, new_sock, sock, tokens, req, pos, used, resp, db, lock>>
    BY <1>10 DEF CreateFails, clientVars, mainVars, handed, locals, outside, serverSide, connections, workers
  <2> QED
    BY <2>1, <2>2, <2>3, <2>4, <2>5, <2>6 DEF TypeOK
<1>11. ASSUME NEW c \in Clients, Recv(c) PROVE TypeOK'
  <2>o. OwnRecv(c)
    BY <1>11, RecvOwn
  <2>1. c2s' \in [Clients -> Seq(Message)]
    <3>1. c2s' = [c2s EXCEPT ![c] = Tail(@)] /\ c2s[c] # <<>>
      BY <2>o DEF OwnRecv
    <3> QED
      BY <1>c2s, <3>1
  <2>2. wpc' \in [Clients -> ThreadSteps]
    BY <1>wpc, <2>o DEF OwnRecv, ThreadSteps, Running, Serving, Critical, Goto
  <2>3. req' \in [Clients -> Request]
    <3>1. req' = req \/ (req' = [req EXCEPT ![c] = Head(c2s[c])] /\ Head(c2s[c]).op \in Ops)
      BY <2>o DEF OwnRecv
    <3>2. Head(c2s[c]) \in Message
      BY <1>c2s, <2>o DEF OwnRecv
    <3>3. Head(c2s[c]).op \in Ops => Head(c2s[c]) \in Request
      BY <3>2 DEF Message, Quit, Eof, Ops
    <3> QED
      BY <1>req, <3>1, <3>2, <3>3
  <2>4. resp' \in [Clients -> Response]
    <3>1. PICK tag \in Tags : resp' = resp \/ resp' = [resp EXCEPT ![c] = Answer(tag)]
      BY <2>o DEF OwnRecv, Respond, Tags
    <3>2. Answer(tag) \in Response
      BY DEF Answer, Response
    <3> QED
      BY <1>resp, <3>1, <3>2
  <2>5. UNCHANGED <<cpc, typed, s2c, backlog, mpc, cur, new_sock, sock, tokens, faults, pos, used, db, lock>>
    BY <2>o DEF OwnRecv, clientVars, mainVars, handed, locals, outside, serverSide, connections, workers
  <2> QED
    BY <2>1, <2>2, <2>3, <2>4, <2>5 DEF TypeOK
<1>12. ASSUME NEW c \in Clients, DbLock(c) PROVE TypeOK'
  <2>1. lock' \in Clients \cup {None}
    BY <1>lock, <1>12 DEF DbLock, DbLockRace
  <2>2. wpc' \in [Clients -> ThreadSteps]
    BY <1>wpc, <1>12 DEF DbLock, DbLockRace, ThreadSteps, Running, Serving, Critical, Goto
  <2>3. pos' \in [Clients -> 0..(MaxRecords + 1)]
    <3>1. pos' = pos \/ pos' = [pos EXCEPT ![c] = 1]
      BY <1>12 DEF DbLock, DbLockRace
    <3> QED
      BY <1>pos, <3>1, MaxRecordsAssumption
  <2>4. used' \in [Clients -> Nat]
    <3>1. used' = used \/ used' = [used EXCEPT ![c] = 0]
      BY <1>12 DEF DbLock, DbLockRace
    <3> QED
      BY <1>used, <3>1
  <2>5. resp' \in [Clients -> Response]
    <3>1. PICK tag \in Tags : resp' = resp \/ resp' = [resp EXCEPT ![c] = Answer(tag)]
      BY <1>12 DEF DbLock, DbLockRace, Respond, Tags
    <3>2. Answer(tag) \in Response
      BY DEF Answer, Response
    <3> QED
      BY <1>resp, <3>1, <3>2
  <2>6. UNCHANGED <<cpc, typed, c2s, s2c, backlog, mpc, cur, new_sock, sock, tokens, faults, req, db>>
    BY <1>12 DEF DbLock, clientVars, mainVars, handed, locals, outside, serverSide, connections, workers, DbLockRace
  <2> QED
    BY <2>1, <2>2, <2>3, <2>4, <2>5, <2>6 DEF TypeOK
<1>13. ASSUME NEW c \in Clients, Scan(c) PROVE TypeOK'
  <2>1. wpc' \in [Clients -> ThreadSteps]
    BY <1>wpc, <1>13 DEF Scan, ThreadSteps, Running, Serving, Critical, Goto
  <2>2. pos' \in [Clients -> 0..(MaxRecords + 1)]
    <3>1. pos' = [pos EXCEPT ![c] = FirstOrZero(ActiveWith(req[c].id))]
      BY <1>13 DEF Scan
    <3>2. FirstOrZero(ActiveWith(req[c].id)) \in 0..(MaxRecords + 1)
      BY FirstIsMember, MaxRecordsAssumption DEF FirstOrZero, ActiveWith, Slots
    <3> QED
      BY <1>pos, <3>1, <3>2
  <2>3. UNCHANGED <<cpc, typed, c2s, s2c, backlog, mpc, cur, new_sock, sock, tokens, faults, req, used, resp, db, lock>>
    BY <1>13 DEF Scan, clientVars, mainVars, handed, locals, outside, serverSide, connections, workers
  <2> QED
    BY <2>1, <2>2, <2>3 DEF TypeOK
<1>14. ASSUME NEW c \in Clients, AddRecord(c) PROVE TypeOK'
  <2>1. wpc' \in [Clients -> ThreadSteps]
    BY <1>wpc, <1>14 DEF AddRecord, ThreadSteps, Running, Serving, Critical, Goto
  <2>2. resp' \in [Clients -> Response]
    <3>1. PICK tag \in Tags : resp' = resp \/ resp' = [resp EXCEPT ![c] = Answer(tag)]
      BY <1>14 DEF AddRecord, Respond, Tags
    <3>2. Answer(tag) \in Response
      BY DEF Answer, Response
    <3> QED
      BY <1>resp, <3>1, <3>2
  <2>3. db' \in [Slots -> Record]
    <3>1. db' = db \/ db' = [db EXCEPT ![First(Free)] = Slot(req[c].id, req[c].val, TRUE)]
      BY <1>14 DEF AddRecord
    <3>2. Slot(req[c].id, req[c].val, TRUE) \in Record
      BY <1>req DEF Request, Record, Slot
    <3> QED
      BY <1>db, <3>1, <3>2
  <2>4. UNCHANGED <<cpc, typed, c2s, s2c, backlog, mpc, cur, new_sock, sock, tokens, faults, req, pos, used, lock>>
    BY <1>14 DEF AddRecord, clientVars, mainVars, handed, locals, outside, serverSide, connections, workers
  <2> QED
    BY <2>1, <2>2, <2>3, <2>4 DEF TypeOK
<1>15. ASSUME NEW c \in Clients, DeleteRecord(c) PROVE TypeOK'
  <2>1. wpc' \in [Clients -> ThreadSteps]
    BY <1>wpc, <1>15 DEF DeleteRecord, ThreadSteps, Running, Serving, Critical, Goto
  <2>2. resp' \in [Clients -> Response]
    <3>1. PICK tag \in Tags : resp' = resp \/ resp' = [resp EXCEPT ![c] = Answer(tag)]
      BY <1>15 DEF DeleteRecord, Respond, Tags
    <3>2. Answer(tag) \in Response
      BY DEF Answer, Response
    <3> QED
      BY <1>resp, <3>1, <3>2
  <2>3. db' \in [Slots -> Record]
    <3>1. db' = db \/ db' = [db EXCEPT ![pos[c]] = Slot(@.id, @.val, FALSE)]
      BY <1>15 DEF DeleteRecord
    <3>2. pos[c] \in Slots => Slot(db[pos[c]].id, db[pos[c]].val, FALSE) \in Record
      BY <1>db DEF Record, Slot
    <3> QED
      BY <1>db, <3>1, <3>2
  <2>4. UNCHANGED <<cpc, typed, c2s, s2c, backlog, mpc, cur, new_sock, sock, tokens, faults, req, pos, used, lock>>
    BY <1>15 DEF DeleteRecord, clientVars, mainVars, handed, locals, outside, serverSide, connections, workers
  <2> QED
    BY <2>1, <2>2, <2>3, <2>4 DEF TypeOK
<1>16. ASSUME NEW c \in Clients, UpdateRecord(c) PROVE TypeOK'
  <2>1. wpc' \in [Clients -> ThreadSteps]
    BY <1>wpc, <1>16 DEF UpdateRecord, ThreadSteps, Running, Serving, Critical, Goto
  <2>2. resp' \in [Clients -> Response]
    <3>1. PICK tag \in Tags : resp' = resp \/ resp' = [resp EXCEPT ![c] = Answer(tag)]
      BY <1>16 DEF UpdateRecord, Respond, Tags
    <3>2. Answer(tag) \in Response
      BY DEF Answer, Response
    <3> QED
      BY <1>resp, <3>1, <3>2
  <2>3. db' \in [Slots -> Record]
    <3>1. db' = db \/ db' = [db EXCEPT ![pos[c]] = Slot(@.id, req[c].val, @.active)]
      BY <1>16 DEF UpdateRecord
    <3>2. req[c].val \in Values
      BY <1>req DEF Request
    <3> QED
      BY <1>db, <3>1, <3>2 DEF Record, Slot
  <2>4. UNCHANGED <<cpc, typed, c2s, s2c, backlog, mpc, cur, new_sock, sock, tokens, faults, req, pos, used, lock>>
    BY <1>16 DEF UpdateRecord, clientVars, mainVars, handed, locals, outside, serverSide, connections, workers
  <2> QED
    BY <2>1, <2>2, <2>3, <2>4 DEF TypeOK
<1>17. ASSUME NEW c \in Clients, ListRow(c) PROVE TypeOK'
  <2>1. wpc' \in [Clients -> ThreadSteps]
    BY <1>wpc, <1>17 DEF ListRow, ThreadSteps, Running, Serving, Critical, Goto
  <2>2. resp' \in [Clients -> Response]
    <3>1. <<db[pos[c]].id, db[pos[c]].val>> \in Ids \X Values
      BY <1>db, <1>pos, <1>17 DEF ListRow, Record
    <3>2. PICK more \in {{}, {<<db[pos[c]].id, db[pos[c]].val>>}} :
           \/ resp' = resp
           \/ resp' = [resp EXCEPT ![c] = [tag |-> "LIST", rows |-> @.rows \cup more]]
      BY <1>17 DEF ListRow
    <3>3. [tag |-> "LIST", rows |-> resp[c].rows \cup more] \in Response
      BY <1>resp, <3>1 DEF Response, Tags
    <3> QED
      BY <1>resp, <3>1, <3>2, <3>3
  <2>3. used' \in [Clients -> Nat]
    <3>1. db[pos[c]].val \in Values
      BY <1>db, <1>pos, <1>17 DEF ListRow, Record
    <3>2. used[c] + RowLen[db[pos[c]].val] \in Nat
      BY <1>db, <1>pos, <1>used, <3>1, RoomAssumption
    <3>3. \/ used' = used
          \/ used' = [used EXCEPT ![c] = @]
          \/ used' = [used EXCEPT ![c] = used[c] + RowLen[db[pos[c]].val]]
      BY <1>17 DEF ListRow
    <3> QED
      BY <1>used, <3>1, <3>2, <3>3
  <2>4. pos' \in [Clients -> 0..(MaxRecords + 1)]
    <3>1. pos' = [pos EXCEPT ![c] = @ + 1] /\ pos[c] \in Slots
      BY <1>17 DEF ListRow
    <3> QED
      BY <1>pos, <3>1, MaxRecordsAssumption DEF Slots
  <2>5. UNCHANGED <<cpc, typed, c2s, s2c, backlog, mpc, cur, new_sock, sock, tokens, faults, req, db, lock>>
    BY <1>17 DEF ListRow, clientVars, mainVars, handed, locals, outside, serverSide, connections, workers
  <2> QED
    BY <2>1, <2>2, <2>3, <2>4, <2>5 DEF TypeOK
<1>18. ASSUME NEW c \in Clients, DbUnlock(c) PROVE TypeOK'
  <2>1. lock' \in Clients \cup {None}
    BY <1>lock, <1>18 DEF DbUnlock
  <2>2. wpc' \in [Clients -> ThreadSteps]
    BY <1>wpc, <1>18 DEF DbUnlock, ThreadSteps, Running, Serving, Critical, Goto
  <2>3. UNCHANGED <<cpc, typed, c2s, s2c, backlog, mpc, cur, new_sock, sock, tokens, faults, req, pos, used, resp, db>>
    BY <1>18 DEF DbUnlock, clientVars, mainVars, handed, locals, outside, serverSide, connections, workers
  <2> QED
    BY <2>1, <2>2, <2>3 DEF TypeOK
<1>19. ASSUME NEW c \in Clients, Send(c) PROVE TypeOK'
  <2>o. OwnSend(c)
    BY <1>19, SendOwn
  <2>1. s2c' \in [Clients -> Seq(Response)]
    BY <1>s2c, <1>resp, <2>o DEF OwnSend
  <2>2. wpc' \in [Clients -> ThreadSteps]
    BY <1>wpc, <2>o DEF OwnSend, ThreadSteps, Running, Serving, Critical, Goto
  <2>3. UNCHANGED <<cpc, typed, c2s, backlog, mpc, cur, new_sock, sock, tokens, faults, req, pos, used, resp, db, lock>>
    BY <2>o DEF OwnSend, clientVars, mainVars, handed, locals, outside, serverSide, connections, workers
  <2> QED
    BY <2>1, <2>2, <2>3 DEF TypeOK
<1>20. ASSUME NEW c \in Clients, SemPost(c) PROVE TypeOK'
  <2>1. tokens' \in Nat
    BY <1>tokens, <1>20 DEF SemPost
  <2>2. wpc' \in [Clients -> ThreadSteps]
    BY <1>wpc, <1>20 DEF SemPost, ThreadSteps, Running, Serving, Critical, Goto
  <2>3. UNCHANGED <<cpc, typed, c2s, s2c, backlog, mpc, cur, new_sock, sock, faults, req, pos, used, resp, db, lock>>
    BY <1>20 DEF SemPost, clientVars, mainVars, handed, locals, outside, serverSide, connections, workers
  <2> QED
    BY <2>1, <2>2, <2>3 DEF TypeOK
<1>21. ASSUME NEW c \in Clients, Start(c) PROVE TypeOK'
  <2>1. sock' \in [Clients -> Clients \cup {None}] /\ new_sock' \in [Clients -> Clients \cup {None}]
    BY <1>sock, <1>new_sock, <1>21 DEF Start
  <2>2. wpc' \in [Clients -> ThreadSteps]
    BY <1>wpc, <1>21 DEF Start, ThreadSteps, Running, Serving, Critical, Goto
  <2>3. UNCHANGED <<cpc, typed, c2s, s2c, backlog, mpc, cur, tokens, faults, req, pos, used, resp, db, lock>>
    BY <1>21 DEF Start, clientVars, locals
  <2> QED
    BY <2>1, <2>2, <2>3 DEF TypeOK
<1>22. CASE UNCHANGED vars
  BY <1>22 DEF TypeOK, vars, clientVars, mainVars, handed, locals
<1> QED
  BY <1>1, <1>2, <1>3, <1>4, <1>5, <1>6, <1>7, <1>8, <1>9, <1>10, <1>11, <1>12, <1>13, <1>14, <1>15, <1>16, <1>17, <1>18, <1>19, <1>20, <1>21, <1>22
  DEF Next, Main, Client, Thread, Serve

-----------------------------------------------------------------------------
(* What the steps of a client and of a thread leave alone.                 *)

(* A terminal touches nothing of the server but the accept queue.          *)
LEMMA ClientFrame ==
  ASSUME TypeOK, NEW c \in Clients, Client(c)
  PROVE  /\ UNCHANGED <<mpc, cur, new_sock, sock, tokens, faults, wpc, req, pos, used, resp, db, lock>>
         /\ \A d \in Clients : cpc'[d] = "start" => cpc[d] = "start"
         /\ backlog' = backlog \/ Connect(c)
<1>1. UNCHANGED <<mpc, cur, new_sock, sock, tokens, faults, wpc, req, pos, used, resp, db, lock>>
  BY DEF Client, Connect, SendRequest, ReceiveReply, TypeQuit, Die, serverSide, mainVars, handed, locals
<1>2. PICK step \in {"idle", "wait", "closed"} : cpc' = [cpc EXCEPT ![c] = step]
  BY DEF Client, Connect, SendRequest, ReceiveReply, TypeQuit, Die
<1>3. cpc \in [Clients -> {"start", "idle", "wait", "closed"}]
  BY DEF TypeOK
<1>4. backlog' = backlog \/ Connect(c)
  BY DEF Client, SendRequest, ReceiveReply, TypeQuit, Die, serverSide, mainVars, handed
<1> QED
  BY <1>1, <1>2, <1>3, <1>4

(* A thread moves its own program counter, and may post its token.         *)
LEMMA ThreadFrame ==
  ASSUME TypeOK, NEW c \in Clients, Thread(c)
  PROVE  /\ wpc[c] \in Running
         /\ UNCHANGED <<cpc, typed, backlog, mpc, cur, faults>>
         /\ Start(c) \/ UNCHANGED handed
         /\ \/ /\ tokens' = tokens
               /\ \E step \in Serving : wpc' = [wpc EXCEPT ![c] = step]
            \/ /\ tokens' = tokens + 1
               /\ wpc' = [wpc EXCEPT ![c] = "done"]
<1>1. wpc[c] \in Running
  BY DEF Thread, Serve, Start, Recv, DbLock, DbLockRace, Scan, AddRecord, DeleteRecord, UpdateRecord,
         ListRow, DbUnlock, Send, SemPost, At, Running, Serving, Critical
<1>2. UNCHANGED <<cpc, typed, backlog, mpc, cur, faults>> /\ (Start(c) \/ UNCHANGED handed)
  BY DEF Thread, Serve, Start, Recv, DbLock, DbLockRace, Scan, AddRecord, DeleteRecord, UpdateRecord,
         ListRow, DbUnlock, Send, SemPost, outside, clientVars, mainVars, handed
<1>3. CASE SemPost(c)
  BY <1>1, <1>2, <1>3 DEF SemPost, Goto
<1>4. CASE Start(c) \/ Recv(c) \/ Serve(c)
  <2>1. tokens' = tokens
    BY <1>4 DEF Serve, Start, Recv, DbLock, DbLockRace, Scan, AddRecord, DeleteRecord, UpdateRecord,
                ListRow, DbUnlock, Send
  <2>2. \E step \in Serving : wpc' = [wpc EXCEPT ![c] = step]
    BY <1>4 DEF Serve, Start, Recv, DbLock, DbLockRace, Scan, AddRecord, DeleteRecord, UpdateRecord,
                ListRow, DbUnlock, Send, Goto, Serving, Critical
  <2> QED
    BY <1>1, <1>2, <2>1, <2>2
<1> QED
  BY <1>3, <1>4 DEF Thread

-----------------------------------------------------------------------------
(* One place for each connection.                                          *)

(* Every step keeps each connection in one place.                          *)
LEMMA HandoverStep == TypeOK /\ Handover /\ [Next]_vars => Handover'
<1> SUFFICES ASSUME TypeOK, Handover, [Next]_vars PROVE Handover'
  OBVIOUS
<1>t. /\ backlog \in Seq(Clients)
      /\ wpc \in [Clients -> ThreadSteps]
      /\ cpc \in [Clients -> {"start", "idle", "wait", "closed"}]
      /\ mpc = "create" => cur \in Clients
      /\ None \notin Clients
      /\ new_sock \in [Clients -> Clients \cup {None}]
      /\ sock \in [Clients -> Clients \cup {None}]
  BY NoneAssumption DEF TypeOK
<1>1. ASSUME NEW c \in Clients, Client(c), backlog' = backlog PROVE Handover'
  BY <1>t, <1>1, ClientFrame DEF Handover, Queued
<1>2. ASSUME NEW c \in Clients, Connect(c) PROVE Handover'
  <2>1. Client(c)
    BY <1>2 DEF Client
  <2>2. /\ backlog' = Append(backlog, c)
        /\ cpc[c] = "start" /\ cpc' = [cpc EXCEPT ![c] = "idle"]
    BY <1>2 DEF Connect
  <2>3. /\ Len(backlog') = Len(backlog) + 1 /\ Len(backlog) \in Nat
        /\ \A i \in 1..Len(backlog) : backlog'[i] = backlog[i] /\ backlog[i] \in Clients
        /\ backlog'[Len(backlog) + 1] = c
    BY <1>t, <2>2
  <2>4. Queued' = Queued \cup {c}
    BY <2>3 DEF Queued
  <2>5. c \notin Queued /\ c # cur /\ wpc[c] = "none"
    BY <2>2 DEF Handover
  <2>6. \A i, j \in 1..Len(backlog') : backlog'[i] = backlog'[j] => i = j
    <3> SUFFICES ASSUME NEW i \in 1..Len(backlog'), NEW j \in 1..Len(backlog'),
                        backlog'[i] = backlog'[j]
                 PROVE  i = j
      OBVIOUS
    <3>1. CASE i \in 1..Len(backlog) /\ j \in 1..Len(backlog)
      BY <3>1, <2>3 DEF Handover
    <3>2. \A k \in 1..Len(backlog) : backlog[k] # c
      BY <2>5 DEF Queued
    <3> QED
      BY <3>1, <3>2, <2>3
  <2>7. UNCHANGED <<wpc, mpc, cur, new_sock, sock>>
    BY <2>1, ClientFrame
  <2> QED
    BY <2>2, <2>4, <2>5, <2>6, <2>7, <1>t DEF Handover
<1>3. CASE SemWait \/ AcceptError
  <2>1. UNCHANGED <<cpc, backlog, wpc, cur, new_sock, sock>> /\ mpc # "create" /\ mpc' # "create"
    BY <1>3 DEF SemWait, AcceptError, connections, clientVars, handed
  <2> QED
    BY <2>1 DEF Handover, Queued
<1>4. CASE AcceptConnection
  <2>1. /\ UNCHANGED <<cpc, wpc, new_sock, sock>> /\ mpc # "create" /\ mpc' = "create"
        /\ backlog # <<>> /\ cur' = Head(backlog) /\ backlog' = Tail(backlog)
    BY <1>4 DEF AcceptConnection, connections, clientVars, handed
  <2>2. /\ Len(backlog) \in Nat /\ Len(backlog) > 0
        /\ cur' = backlog[1]
        /\ Len(backlog') = Len(backlog) - 1
        /\ \A i \in 1..Len(backlog') : backlog'[i] = backlog[i + 1]
    BY <1>t, <2>1
  <2>3. cur' \in Queued /\ Queued' \subseteq Queued
    BY <2>2 DEF Queued
  <2>4. cur' \notin Queued'
    BY <2>2 DEF Queued, Handover
  <2>5. \A i, j \in 1..Len(backlog') : backlog'[i] = backlog'[j] => i = j
    BY <2>2 DEF Handover
  <2> QED
    BY <2>1, <2>3, <2>4, <2>5 DEF Handover
<1>5. CASE CreateThread \/ CreateFails
  <2>1. /\ UNCHANGED <<cpc, backlog>> /\ mpc = "create" /\ mpc' = "wait" /\ cur' = None
        /\ \/ wpc' = [wpc EXCEPT ![cur] = "start"] /\ new_sock' = [new_sock EXCEPT ![cur] = cur]
           \/ wpc' = [wpc EXCEPT ![cur] = "lost"] /\ new_sock' = new_sock
        /\ sock' = sock
    BY <1>5 DEF CreateThread, CreateFails, connections, clientVars, handed
  <2>2. cur \in Clients /\ cur \notin Queued /\ cpc[cur] # "start"
    BY <1>t, <2>1 DEF Handover
  <2>3. Queued \subseteq Clients
    BY <1>t DEF Queued
  <2>4. \A d \in Clients : /\ wpc'[d] = "start" => new_sock'[d] = d
                           /\ wpc'[d] \in Serving => sock'[d] = d
    BY <1>t, <2>1, <2>2 DEF Handover, Serving, Critical
  <2>5. \A d \in Clients \ {cur} : wpc'[d] = wpc[d]
    BY <1>t, <2>1
  <2> QED
    BY <1>t, <2>1, <2>2, <2>3, <2>4, <2>5 DEF Handover, Queued
<1>6. ASSUME NEW c \in Clients, Thread(c) PROVE Handover'
  <2>1. PICK step \in Serving \cup {"done"} : wpc' = [wpc EXCEPT ![c] = step]
    BY <1>6, ThreadFrame
  <2>2. wpc[c] \in Running /\ wpc[c] # "none" /\ UNCHANGED <<cpc, backlog, mpc, cur>>
    BY <1>6, ThreadFrame DEF Running, Serving, Critical
  <2>3. \A d \in Clients : wpc[d] = "none" => wpc'[d] = "none"
    BY <1>t, <2>1, <2>2
  <2>4. Queued' = Queued /\ Queued \subseteq Clients
    BY <1>t, <2>2 DEF Queued
  <2>5. \A d \in Clients : /\ wpc'[d] = "start" => new_sock'[d] = d
                           /\ wpc'[d] \in Serving => sock'[d] = d
    <3>1. CASE Start(c)
      <4>1. sock'[c] = c /\ \A d \in Clients \ {c} : sock'[d] = sock[d] /\ new_sock'[d] = new_sock[d]
        BY <1>t, <3>1 DEF Start, At, Handover
      <4>2. wpc'[c] = "recv" /\ \A d \in Clients \ {c} : wpc'[d] = wpc[d]
        BY <1>t, <3>1 DEF Start, Goto
      <4> QED
        BY <4>1, <4>2 DEF Handover
    <3>2. CASE ~Start(c)
      <4>1. UNCHANGED <<new_sock, sock>>
        BY <1>6, <3>2, ThreadFrame DEF handed
      <4>2. wpc[c] \in Serving
        BY <1>6, <3>2 DEF Thread, Serve, Recv, DbLock, DbLockRace, Scan, AddRecord, DeleteRecord,
                          UpdateRecord, ListRow, DbUnlock, Send, SemPost, At, Serving, Critical
      <4>3. wpc'[c] # "start" /\ \A d \in Clients \ {c} : wpc'[d] = wpc[d]
        BY <1>t, <2>1 DEF Serving, Critical
      <4> QED
        BY <4>1, <4>2, <4>3 DEF Handover
    <3> QED
      BY <3>1, <3>2
  <2>6. /\ \A d \in Clients : cpc'[d] = "start" => wpc'[d] = "none" /\ d \notin Queued' /\ d # cur'
        /\ \A d \in Queued' : wpc'[d] = "none" /\ d # cur'
    BY <2>2, <2>3, <2>4 DEF Handover
  <2>7. /\ \A i, j \in 1..Len(backlog') : backlog'[i] = backlog'[j] => i = j
        /\ IF mpc' = "create" THEN wpc'[cur'] = "none" ELSE cur' = None
    BY <1>t, <2>2, <2>3 DEF Handover
  <2> QED
    BY <2>5, <2>6, <2>7 DEF Handover
<1>7. CASE UNCHANGED vars
  BY <1>7 DEF Handover, Queued, vars, clientVars, mainVars, handed
<1> QED
  BY <1>1, <1>2, <1>3, <1>4, <1>5, <1>6, <1>7, ClientFrame DEF Next, Main

(* No connection has a thread at first.                                    *)
LEMMA HandoverInit == Init => Handover
<1> SUFFICES ASSUME Init PROVE Handover
  OBVIOUS
<1>1. /\ backlog = <<>> /\ Len(backlog) = 0 /\ cur = None /\ mpc = "wait"
      /\ wpc = [c \in Clients |-> "none"]
      /\ None \notin Clients
  BY NoneAssumption DEF Init
<1>2. Queued = {}
  BY <1>1 DEF Queued
<1> QED
  BY <1>1, <1>2 DEF Handover, Serving, Critical

(* A read or a write has the right type because a thread holds its own     *)
(* socket, and it holds it only if the types are right: one induction.     *)
LEMMA TypeHandover == Spec => [](TypeOK /\ Handover)
<1>1. Init => TypeOK /\ Handover
  BY InitType, HandoverInit
<1>2. TypeOK /\ Handover /\ [Next]_vars => TypeOK' /\ Handover'
  BY TypeStep, HandoverStep
<1> QED
  BY <1>1, <1>2, PTL DEF Spec

(* TypeOK holds in every reachable state.                                  *)
THEOREM TypeCorrect == Spec => []TypeOK
BY TypeHandover, PTL

(* However late a thread looks at its argument, it serves the connection   *)
(* it was created for, and no connection is in two places.                 *)
THEOREM HandoverCorrect == Spec => []Handover
BY TypeHandover, PTL

-----------------------------------------------------------------------------
(* The tokens.                                                             *)

(* Every step keeps the count of the tokens.                               *)
LEMMA TokenStep == TypeOK /\ Handover /\ TokenAccounting /\ [Next]_vars => TokenAccounting'
<1> SUFFICES ASSUME TypeOK, Handover, TokenAccounting, [Next]_vars PROVE TokenAccounting'
  OBVIOUS
<1>t. /\ wpc \in [Clients -> ThreadSteps]
      /\ tokens \in Nat
      /\ MaxNum \in Nat
  BY BoundsAssumption DEF TypeOK
<1>h. IsFiniteSet(Holding) /\ Cardinality(Holding) \in Nat
  BY ClientsAssumption, FS_Subset, FS_CardinalityType DEF Holding
<1>1. ASSUME NEW c \in Clients, Client(c) PROVE TokenAccounting'
  BY <1>1, ClientFrame DEF TokenAccounting, Holding
<1>2. CASE SemWait
  <2>1. Holding' = Holding /\ tokens' = tokens - 1 /\ mpc = "wait" /\ mpc' = "accept"
    BY <1>2 DEF SemWait, Holding
  <2> QED
    BY <1>t, <1>h, <2>1 DEF TokenAccounting
<1>3. CASE AcceptConnection
  BY <1>3 DEF AcceptConnection, Holding, TokenAccounting
<1>4. CASE AcceptError
  <2>1. Holding' = Holding /\ tokens' = tokens + 1 /\ mpc = "accept" /\ mpc' = "wait"
    BY <1>4 DEF AcceptError, Holding
  <2> QED
    BY <1>t, <1>h, <2>1 DEF TokenAccounting
<1>5. CASE CreateThread \/ CreateFails
  <2>1. /\ tokens' = tokens /\ mpc = "create" /\ mpc' = "wait"
        /\ \E step \in {"start", "lost"} : wpc' = [wpc EXCEPT ![cur] = step]
    BY <1>5 DEF CreateThread, CreateFails
  <2>2. cur \in Clients /\ wpc[cur] = "none"
    BY <2>1 DEF Handover, TypeOK
  <2>3. cur \notin Holding /\ Holding' = Holding \cup {cur}
    BY <1>t, <2>1, <2>2 DEF Holding, Running, Serving, Critical
  <2>4. Cardinality(Holding') = Cardinality(Holding) + 1
    BY <1>h, <2>3, FS_AddElement
  <2> QED
    BY <1>t, <1>h, <2>1, <2>4 DEF TokenAccounting
<1>6. ASSUME NEW c \in Clients, Thread(c) PROVE TokenAccounting'
  <2>1. wpc[c] \in Running /\ UNCHANGED mpc
    BY <1>6, ThreadFrame
  <2>2. CASE tokens' = tokens /\ \E step \in Serving : wpc' = [wpc EXCEPT ![c] = step]
    <3>1. Holding' = Holding
      BY <1>t, <2>1, <2>2 DEF Holding, Running
    <3> QED
      BY <2>1, <2>2, <3>1 DEF TokenAccounting
  <2>3. CASE tokens' = tokens + 1 /\ wpc' = [wpc EXCEPT ![c] = "done"]
    <3>1. c \in Holding /\ Holding' = Holding \ {c}
      BY <1>t, <2>1, <2>3 DEF Holding, Running, Serving, Critical
    <3>2. Cardinality(Holding') = Cardinality(Holding) - 1
      BY <1>h, <3>1, FS_RemoveElement
    <3> QED
      BY <1>t, <1>h, <2>1, <2>3, <3>2 DEF TokenAccounting
  <2> QED
    BY <1>6, <2>2, <2>3, ThreadFrame
<1>7. CASE UNCHANGED vars
  BY <1>7 DEF TokenAccounting, Holding, vars, mainVars, handed
<1> QED
  BY <1>1, <1>2, <1>3, <1>4, <1>5, <1>6, <1>7 DEF Next, Main

(* No token is lost or made: for any MAX_NUM, any number of clients and    *)
(* any failures, the tokens in the semaphore and those held add up.        *)
THEOREM TokensCorrect == Spec => []TokenAccounting
<1>1. Init => TokenAccounting
  <2> SUFFICES ASSUME Init PROVE TokenAccounting
    OBVIOUS
  <2>1. Holding = {}
    BY DEF Init, Holding, Running, Serving, Critical
  <2> QED
    BY <2>1, FS_EmptySet, BoundsAssumption DEF Init, TokenAccounting
<1>2. TypeOK /\ Handover /\ TokenAccounting /\ [Next]_vars => TokenAccounting'
  BY TokenStep
<1> QED
  BY <1>1, <1>2, TypeCorrect, HandoverCorrect, PTL DEF Spec

(* So at most MAX_NUM connections are ever being served at a time.         *)
THEOREM AtMostMaxNum == Spec => [](Cardinality(Holding) <= MaxNum)
<1>1. TypeOK /\ TokenAccounting => Cardinality(Holding) <= MaxNum
  <2> SUFFICES ASSUME TypeOK, TokenAccounting PROVE Cardinality(Holding) <= MaxNum
    OBVIOUS
  <2>1. Cardinality(Holding) \in Nat /\ tokens \in Nat /\ MaxNum \in Nat
    BY ClientsAssumption, BoundsAssumption, FS_Subset, FS_CardinalityType DEF Holding, TypeOK
  <2> QED
    BY <2>1 DEF TokenAccounting
<1> QED
  BY <1>1, TypeCorrect, TokensCorrect, PTL

-----------------------------------------------------------------------------
(* The table.                                                              *)

(* Every step keeps db_lock exclusive and the scans true.                  *)
LEMMA ScanStep == TypeOK /\ Handover /\ ScanStillTrue /\ [Next]_vars => ScanStillTrue'
<1> SUFFICES ASSUME TypeOK, Handover, ScanStillTrue, [Next]_vars PROVE ScanStillTrue'
  OBVIOUS
<1>t. /\ wpc \in [Clients -> ThreadSteps]
      /\ pos \in [Clients -> 0..(MaxRecords + 1)]
      /\ req \in [Clients -> Request]
      /\ None \notin Clients
      /\ mpc = "create" => cur \in Clients
  BY NoneAssumption DEF TypeOK
<1>l. \A d \in Clients : wpc[d] \in Critical <=> lock = d
  BY DEF ScanStillTrue
<1>1. ASSUME UNCHANGED <<pos, req, db, lock>>,
             \A d \in Clients : wpc[d] \in Critical <=> wpc'[d] \in Critical,
             \A d \in Clients : wpc'[d] = "write" => wpc[d] = "write"
      PROVE  ScanStillTrue'
  BY <1>1 DEF ScanStillTrue, ActiveWith
<1>2. ASSUME NEW c \in Clients, Client(c) PROVE ScanStillTrue'
  BY <1>1, <1>2, ClientFrame
<1>3. CASE SemWait \/ AcceptConnection \/ AcceptError
  <2>1. UNCHANGED <<wpc, pos, req, db, lock>>
    BY <1>3 DEF SemWait, AcceptConnection, AcceptError, workers, locals
  <2> QED
    BY <1>1, <2>1
<1>4. CASE CreateThread \/ CreateFails
  <2>1. /\ UNCHANGED <<pos, req, db, lock>> /\ mpc = "create"
        /\ \E step \in {"start", "lost"} : wpc' = [wpc EXCEPT ![cur] = step]
    BY <1>4 DEF CreateThread, CreateFails, workers, locals
  <2>2. cur \in Clients /\ wpc[cur] = "none"
    BY <1>t, <2>1 DEF Handover
  <2>3. \A d \in Clients : wpc[d] \in Critical <=> wpc'[d] \in Critical
    BY <1>t, <2>1, <2>2 DEF Critical
  <2>4. \A d \in Clients : wpc'[d] = "write" => wpc[d] = "write"
    BY <1>t, <2>1, <2>2
  <2> QED
    BY <1>1, <2>1, <2>3, <2>4
<1>5. CASE UNCHANGED vars
  BY <1>1, <1>5 DEF vars, locals
<1>6. ASSUME NEW c \in Clients, Start(c) \/ Recv(c) \/ Send(c) \/ SemPost(c) PROVE ScanStillTrue'
  <2>1. /\ UNCHANGED <<pos, db, lock>>
        /\ wpc[c] \in {"start", "recv", "send", "post"}
        /\ \E step \in {"post", "send", "lock", "recv", "done"} : wpc' = [wpc EXCEPT ![c] = step]
    BY <1>6 DEF Start, Recv, Send, SemPost, locals, At, Goto
  <2>2. \A d \in Clients \ {c} : req'[d] = req[d]
    <3>1. req' = req \/ \E m \in {Head(c2s[sock[c]])} : req' = [req EXCEPT ![c] = m]
      BY <1>6 DEF Start, Recv, Send, SemPost, locals
    <3> QED
      BY <1>t, <3>1
  <2>3. \A d \in Clients : wpc[d] \in Critical <=> wpc'[d] \in Critical
    BY <1>t, <2>1 DEF Critical
  <2>4. \A d \in Clients : wpc'[d] = "write" => wpc[d] = "write" /\ d # c
    BY <1>t, <2>1
  <2> QED
    BY <2>1, <2>2, <2>3, <2>4 DEF ScanStillTrue, ActiveWith
<1>7. ASSUME NEW c \in Clients, DbLock(c) PROVE ScanStillTrue'
  <2>1. /\ lock = None /\ lock' = c
        /\ \E step \in {"list", "scan"} : wpc' = [wpc EXCEPT ![c] = step]
    BY <1>7 DEF DbLock, DbLockRace, Goto
  <2>2. \A d \in Clients : wpc[d] \notin Critical
    BY <1>t, <1>l, <2>1
  <2>3. \A d \in Clients : (wpc'[d] \in Critical <=> d = c) /\ wpc'[d] # "write"
    BY <1>t, <2>1, <2>2 DEF Critical
  <2> QED
    BY <2>1, <2>3 DEF ScanStillTrue
<1>8. ASSUME NEW c \in Clients, Scan(c) PROVE ScanStillTrue'
  <2>1. /\ wpc[c] = "scan" /\ wpc' = [wpc EXCEPT ![c] = "write"]
        /\ pos' = [pos EXCEPT ![c] = FirstOrZero(ActiveWith(req[c].id))]
        /\ UNCHANGED <<req, db, lock>>
    BY <1>8 DEF Scan, At, Goto
  <2>2. \A d \in Clients : (wpc'[d] \in Critical <=> lock' = d) /\ (wpc'[d] = "write" => d = c)
    BY <1>t, <1>l, <2>1 DEF Critical
  <2>3. IF pos'[c] = 0 THEN ActiveWith(req[c].id) = {} ELSE pos'[c] \in ActiveWith(req[c].id)
    <3>1. pos'[c] = FirstOrZero(ActiveWith(req[c].id))
      BY <1>t, <2>1
    <3>2. ActiveWith(req[c].id) \subseteq Slots /\ 0 \notin Slots
      BY DEF ActiveWith, Slots
    <3> QED
      BY <3>1, <3>2, FirstIsMember DEF FirstOrZero
  <2> QED
    BY <2>1, <2>2, <2>3 DEF ScanStillTrue, ActiveWith
<1>9. ASSUME NEW c \in Clients,
             AddRecord(c) \/ DeleteRecord(c) \/ UpdateRecord(c) \/ ListRow(c)
      PROVE  ScanStillTrue'
  <2>1. /\ wpc[c] \in {"write", "list"} /\ UNCHANGED lock
        /\ \E step \in {"list", "unlock"} : wpc' = [wpc EXCEPT ![c] = step]
    BY <1>9 DEF AddRecord, DeleteRecord, UpdateRecord, ListRow, At, Goto
  <2>2. \A d \in Clients : wpc[d] \in Critical <=> d = c
    BY <1>l, <2>1 DEF Critical
  <2>3. \A d \in Clients : (wpc'[d] \in Critical <=> lock' = d) /\ wpc'[d] # "write"
    BY <1>t, <1>l, <2>1, <2>2 DEF Critical
  <2> QED
    BY <2>3 DEF ScanStillTrue
<1>10. ASSUME NEW c \in Clients, DbUnlock(c) PROVE ScanStillTrue'
  <2>1. wpc[c] = "unlock" /\ wpc' = [wpc EXCEPT ![c] = "send"] /\ lock' = None
    BY <1>10 DEF DbUnlock, At, Goto
  <2>2. \A d \in Clients : wpc[d] \in Critical <=> d = c
    BY <1>l, <2>1 DEF Critical
  <2>3. \A d \in Clients : wpc'[d] \notin Critical
    BY <1>t, <2>1, <2>2 DEF Critical
  <2>4. \A d \in Clients : wpc'[d] # "write"
    BY <2>3 DEF Critical
  <2> QED
    BY <1>t, <2>1, <2>3, <2>4 DEF ScanStillTrue
<1> QED
  BY <1>2, <1>3, <1>4, <1>5, <1>6, <1>7, <1>8, <1>9, <1>10 DEF Next, Main, Thread, Serve

(* A write keeps the ids of the active records different.                  *)
LEMMA UniqueStep == TypeOK /\ ScanStillTrue /\ UniqueIds /\ [Next]_vars => UniqueIds'
<1> SUFFICES ASSUME TypeOK, ScanStillTrue, UniqueIds, [Next]_vars PROVE UniqueIds'
  OBVIOUS
<1>t. db \in [Slots -> Record] /\ pos \in [Clients -> 0..(MaxRecords + 1)]
  BY DEF TypeOK
<1>1. CASE UNCHANGED db
  BY <1>1 DEF UniqueIds
<1>2. ASSUME NEW c \in Clients, AddRecord(c), db' # db PROVE UniqueIds'
  <2>1. /\ wpc[c] = "write" /\ pos[c] = 0 /\ Free # {}
        /\ db' = [db EXCEPT ![First(Free)] = Slot(req[c].id, req[c].val, TRUE)]
    BY <1>2 DEF AddRecord, At
  <2>2. ActiveWith(req[c].id) = {}
    BY <2>1 DEF ScanStillTrue
  <2>3. First(Free) \in Free
    BY <2>1, FirstIsMember DEF Free
  <2> QED
    BY <1>t, <2>1, <2>2, <2>3 DEF UniqueIds, ActiveWith, Free, Slot
<1>3. ASSUME NEW c \in Clients, DeleteRecord(c), db' # db PROVE UniqueIds'
  <2>1. db' = [db EXCEPT ![pos[c]] = Slot(@.id, @.val, FALSE)]
    BY <1>3 DEF DeleteRecord
  <2> QED
    BY <1>t, <2>1 DEF UniqueIds, Slot
<1>4. ASSUME NEW c \in Clients, UpdateRecord(c), db' # db PROVE UniqueIds'
  <2>1. db' = [db EXCEPT ![pos[c]] = Slot(@.id, req[c].val, @.active)]
    BY <1>4 DEF UpdateRecord
  <2>2. \A s \in Slots : db'[s].id = db[s].id /\ db'[s].active = db[s].active
    BY <1>t, <2>1 DEF Slot
  <2> QED
    BY <2>2 DEF UniqueIds
<1>5. ASSUME db' # db
      PROVE  \E c \in Clients : AddRecord(c) \/ DeleteRecord(c) \/ UpdateRecord(c)
  BY <1>5 DEF Next, Main, Client, Thread, Serve, Connect, SendRequest, ReceiveReply, TypeQuit, Die,
              SemWait, AcceptConnection, AcceptError, CreateThread, CreateFails, Start, Recv, DbLock,
              DbLockRace, Scan, ListRow, DbUnlock, Send, SemPost, serverSide, workers, vars
<1> QED
  BY <1>1, <1>2, <1>3, <1>4, <1>5

(* db_lock excludes, and what a scan found is still so when it is used.    *)
THEOREM ScanCorrect == Spec => []ScanStillTrue
<1>1. Init => ScanStillTrue
  BY NoneAssumption DEF Init, ScanStillTrue, Critical
<1>2. TypeOK /\ Handover /\ ScanStillTrue /\ [Next]_vars => ScanStillTrue'
  BY ScanStep
<1> QED
  BY <1>1, <1>2, TypeCorrect, HandoverCorrect, PTL DEF Spec

(* No two active records ever share an id, for any number of clients,      *)
(* slots, ids and commands.                                                *)
THEOREM UniqueIdsCorrect == Spec => []UniqueIds
<1>1. Init => UniqueIds
  BY DEF Init, UniqueIds, Slot
<1>2. TypeOK /\ ScanStillTrue /\ UniqueIds /\ [Next]_vars => UniqueIds'
  BY UniqueStep
<1> QED
  BY <1>1, <1>2, TypeCorrect, ScanCorrect, PTL DEF Spec

-----------------------------------------------------------------------------
(* The length of a set of rows, as the fold of Bank computes it.           *)

RowSet == Ids \X Values
Pick(s) == CHOOSE x \in s : TRUE
SumOf(f, s) == IF s = {} THEN 0 ELSE RowLen[Pick(s)[2]] + f[s \ {Pick(s)}]
Sums(f, S) == f = [s \in SUBSET S |-> SumOf(f, s)]
Length(S) == (CHOOSE f : Sums(f, S))[S]

(* RowsLength of Bank is this sum.                                         *)
LEMMA RowsLengthIs == ASSUME NEW rows PROVE bank!RowsLength(rows) = Length(rows)
BY DEF bank!RowsLength, bank!MapThenSumSet, bank!MapThenFoldSet, Sums, SumOf, Pick, Length

(* A finite set without one of its elements is smaller.                    *)
LEMMA Smaller ==
  ASSUME NEW S, IsFiniteSet(S), NEW x \in S
  PROVE  /\ IsFiniteSet(S \ {x})
         /\ Cardinality(S) \in Nat /\ Cardinality(S \ {x}) \in Nat
         /\ Cardinality(S \ {x}) < Cardinality(S)
<1>1. IsFiniteSet(S \ {x}) /\ Cardinality(S \ {x}) = Cardinality(S) - 1
  BY FS_RemoveElement
<1>2. Cardinality(S) \in Nat /\ Cardinality(S \ {x}) \in Nat
  BY <1>1, FS_CardinalityType
<1> QED
  BY <1>1, <1>2

(* The row picked from a set belongs to it.                                *)
LEMMA PickIn ==
  ASSUME NEW s, s # {}
  PROVE  Pick(s) \in s
BY DEF Pick

(* Such a function at one set.                                             *)
LEMMA SumsAt ==
  ASSUME NEW f, NEW S, Sums(f, S), NEW s \in SUBSET S
  PROVE  f[s] = SumOf(f, s)
BY DEF Sums

(* Two functions that add up the same way agree on a finite set.           *)
LEMMA SumsUnique ==
  ASSUME NEW f, NEW S, NEW g, NEW T, Sums(f, S), Sums(g, T),
         NEW s, s \in SUBSET S, s \in SUBSET T, IsFiniteSet(s)
  PROVE  f[s] = g[s]
<1> DEFINE Wrong == {u \in SUBSET s : f[u] # g[u]}
           Sizes == {Cardinality(u) : u \in Wrong}
<1>1. \A u \in Wrong : IsFiniteSet(u) /\ Cardinality(u) \in Nat
  BY FS_Subset, FS_CardinalityType
<1>2. CASE Wrong # {}
  <2>1. Sizes # {} /\ Sizes \subseteq Nat
    BY <1>1, <1>2
  <2>2. PICK n \in Sizes : \A m \in Sizes : n <= m
    BY <2>1, NatMinimum
  <2>3. PICK u \in Wrong : Cardinality(u) = n
    BY <2>2
  <2>4. u # {}
    BY <2>3, SumsAt DEF SumOf
  <2>5. Pick(u) \in u
    BY <2>4, PickIn
  <2>6. Cardinality(u \ {Pick(u)}) < n /\ Cardinality(u \ {Pick(u)}) \in Nat /\ n \in Nat
    BY <1>1, <2>3, <2>5, Smaller
  <2>7. u \ {Pick(u)} \notin Wrong
    BY <2>2, <2>6
  <2>8. f[u \ {Pick(u)}] = g[u \ {Pick(u)}]
    BY <2>7
  <2>9. f[u] = SumOf(f, u) /\ g[u] = SumOf(g, u)
    BY SumsAt
  <2> QED
    BY <2>3, <2>8, <2>9 DEF SumOf
<1>3. CASE Wrong = {}
  BY <1>3
<1> QED
  BY <1>2, <1>3

(* Every finite set has such a function.                                   *)
LEMMA SumsExist ==
  ASSUME NEW S, IsFiniteSet(S)
  PROVE  \E f : Sums(f, S)
<1> DEFINE Wrong == {u \in SUBSET S : ~ \E f : Sums(f, u)}
           Sizes == {Cardinality(u) : u \in Wrong}
<1>1. \A u \in Wrong : IsFiniteSet(u) /\ Cardinality(u) \in Nat
  BY FS_Subset, FS_CardinalityType
<1>2. CASE Wrong # {}
  <2>1. Sizes # {} /\ Sizes \subseteq Nat
    BY <1>1, <1>2
  <2>2. PICK n \in Sizes : \A m \in Sizes : n <= m
    BY <2>1, NatMinimum
  <2>3. PICK u \in Wrong : Cardinality(u) = n
    BY <2>2
  <2>4. \A v \in SUBSET u : v # u => Sums(CHOOSE f : Sums(f, v), v) /\ IsFiniteSet(v)
    <3> SUFFICES ASSUME NEW v \in SUBSET u, v # u
                 PROVE  (\E f : Sums(f, v)) /\ IsFiniteSet(v)
      OBVIOUS
    <3>1. IsFiniteSet(u) /\ IsFiniteSet(v)
      BY <1>1, FS_Subset
    <3>2. Cardinality(v) < Cardinality(u) /\ Cardinality(v) \in Nat /\ n \in Nat
      BY <3>1, <2>3, FS_CardinalityType, FS_Subset
    <3>3. v \notin Wrong
      BY <3>2, <2>2, <2>3
    <3> QED
      BY <3>1, <3>3
  <2> DEFINE F == [s \in SUBSET u |-> IF s = {} THEN 0
                                      ELSE RowLen[Pick(s)[2]] + Length(s \ {Pick(s)})]
  <2>5. \A v \in SUBSET u : v # u => F[v] = Length(v)
    <3> SUFFICES ASSUME NEW v \in SUBSET u, v # u PROVE F[v] = Length(v)
      OBVIOUS
    <3> DEFINE g == CHOOSE f : Sums(f, v)
    <3>1. Sums(g, v) /\ Length(v) = g[v]
      BY <2>4 DEF Length
    <3> HIDE DEF g
    <3>2. g[v] = SumOf(g, v)
      BY <3>1, SumsAt
    <3>3. CASE v = {}
      BY <3>1, <3>2, <3>3 DEF SumOf
    <3>4. CASE v # {}
      <4> DEFINE w == v \ {Pick(v)}
      <4>1. Pick(v) \in v /\ w \in SUBSET v /\ w \in SUBSET u /\ w # u
        BY <3>4, PickIn
      <4> HIDE DEF w
      <4> DEFINE h == CHOOSE f : Sums(f, w)
      <4>2. Sums(h, w) /\ IsFiniteSet(w) /\ Length(w) = h[w]
        BY <2>4, <4>1 DEF Length
      <4> HIDE DEF h
      <4>3. g[w] = h[w]
        BY <3>1, <4>1, <4>2, SumsUnique
      <4>4. F[v] = RowLen[Pick(v)[2]] + Length(w)
        BY <3>4 DEF w
      <4>5. g[v] = RowLen[Pick(v)[2]] + g[w]
        BY <3>2, <3>4 DEF SumOf, w
      <4> QED
        BY <3>1, <4>2, <4>3, <4>4, <4>5
    <3> QED
      BY <3>3, <3>4
  <2>6. \A v \in SUBSET u : F[v] = SumOf(F, v)
    <3> SUFFICES ASSUME NEW v \in SUBSET u PROVE F[v] = SumOf(F, v)
      OBVIOUS
    <3>1. CASE v = {}
      BY <3>1 DEF SumOf
    <3>2. CASE v # {}
      <4>1. Pick(v) \in v
        BY <3>2, PickIn
      <4>2. F[v \ {Pick(v)}] = Length(v \ {Pick(v)})
        <5>1. v \ {Pick(v)} \in SUBSET u /\ v \ {Pick(v)} # u
          BY <4>1
        <5> HIDE DEF F
        <5> QED
          BY <2>5, <5>1
      <4>3. F[v] = RowLen[Pick(v)[2]] + Length(v \ {Pick(v)})
        BY <3>2
      <4> HIDE DEF F
      <4> QED
        BY <3>2, <4>2, <4>3 DEF SumOf
    <3> QED
      BY <3>1, <3>2
  <2>7. Sums(F, u)
    <3>1. F = [s \in SUBSET u |-> F[s]]
      OBVIOUS
    <3> HIDE DEF F
    <3> QED
      BY <2>6, <3>1 DEF Sums
  <2> QED
    BY <2>3, <2>7
<1>3. CASE Wrong = {}
  BY <1>3
<1> QED
  BY <1>2, <1>3

(* The length of a set of rows is taken apart at the row picked.           *)
LEMMA LengthPick ==
  ASSUME NEW S, IsFiniteSet(S)
  PROVE  Length(S) = IF S = {} THEN 0 ELSE RowLen[Pick(S)[2]] + Length(S \ {Pick(S)})
<1> DEFINE f == CHOOSE h : Sums(h, S)
<1>1. Sums(f, S) /\ Length(S) = f[S]
  BY SumsExist DEF Length
<1> HIDE DEF f
<1>2. f[S] = SumOf(f, S)
  BY <1>1, SumsAt
<1>3. CASE S = {}
  BY <1>1, <1>2, <1>3 DEF SumOf
<1>4. CASE S # {}
  <2> DEFINE w == S \ {Pick(S)}
             g == CHOOSE h : Sums(h, w)
  <2>1. Pick(S) \in S /\ IsFiniteSet(w) /\ w \in SUBSET S
    BY <1>4, PickIn, Smaller
  <2>5. f[S] = RowLen[Pick(S)[2]] + f[w]
    BY <1>2, <1>4 DEF SumOf
  <2> HIDE DEF w
  <2>2. Sums(g, w) /\ Length(w) = g[w]
    BY <2>1, SumsExist DEF Length
  <2> HIDE DEF g
  <2>3. f[w] = g[w]
    BY <1>1, <2>1, <2>2, SumsUnique
  <2> QED
    BY <1>1, <1>4, <2>2, <2>3, <2>5 DEF w
<1> QED
  BY <1>3, <1>4

(* The length of a finite set of rows is a natural number.                 *)
LEMMA LengthType ==
  ASSUME NEW S \in SUBSET RowSet, IsFiniteSet(S)
  PROVE  Length(S) \in Nat
<1> DEFINE Wrong == {u \in SUBSET S : Length(u) \notin Nat}
           Sizes == {Cardinality(u) : u \in Wrong}
<1>1. \A u \in Wrong : IsFiniteSet(u) /\ Cardinality(u) \in Nat
  BY FS_Subset, FS_CardinalityType
<1>2. CASE Wrong # {}
  <2>1. Sizes # {} /\ Sizes \subseteq Nat
    BY <1>1, <1>2
  <2>2. PICK n \in Sizes : \A m \in Sizes : n <= m
    BY <2>1, NatMinimum
  <2>3. PICK u \in Wrong : Cardinality(u) = n
    BY <2>2
  <2>4. u # {}
    BY <1>1, <2>3, LengthPick
  <2>5. Pick(u) \in u
    BY <2>4, PickIn
  <2>6. Cardinality(u \ {Pick(u)}) < n /\ Cardinality(u \ {Pick(u)}) \in Nat /\ n \in Nat
    BY <1>1, <2>3, <2>5, Smaller
  <2>7. Length(u \ {Pick(u)}) \in Nat
    BY <2>2, <2>6
  <2>8. RowLen[Pick(u)[2]] \in Nat
    BY <2>5, RoomAssumption DEF RowSet
  <2> QED
    BY <1>1, <2>3, <2>4, <2>7, <2>8, LengthPick
<1>3. CASE Wrong = {}
  BY <1>3
<1> QED
  BY <1>2, <1>3

(* It does not matter which row is taken out.                              *)
LEMMA LengthRemove ==
  ASSUME NEW S \in SUBSET RowSet, IsFiniteSet(S), NEW x \in S
  PROVE  Length(S) = RowLen[x[2]] + Length(S \ {x})
<1> DEFINE Splits(u) == \A y \in u : Length(u) = RowLen[y[2]] + Length(u \ {y})
<1> DEFINE Wrong == {u \in SUBSET S : ~Splits(u)}
           Sizes == {Cardinality(u) : u \in Wrong}
<1>1. \A u \in SUBSET S : IsFiniteSet(u) /\ Cardinality(u) \in Nat
  BY FS_Subset, FS_CardinalityType
<1>2. CASE Wrong # {}
  <2>1. Sizes # {} /\ Sizes \subseteq Nat
    BY <1>1, <1>2
  <2>2. PICK n \in Sizes : \A m \in Sizes : n <= m
    BY <2>1, NatMinimum
  <2>3. PICK u \in Wrong : Cardinality(u) = n
    BY <2>2
  <2>4. PICK y \in u : Length(u) # RowLen[y[2]] + Length(u \ {y})
    BY <2>3
  <2> DEFINE p == Pick(u)
  <2>5. p \in u /\ Length(u) = RowLen[p[2]] + Length(u \ {p})
    BY <1>1, <2>4, LengthPick, PickIn
  <2> HIDE DEF p
  <2>6. p # y
    BY <2>4, <2>5
  <2>7. \A z \in u : Splits(u \ {z})
    <3> SUFFICES ASSUME NEW z \in u PROVE u \ {z} \notin Wrong
      OBVIOUS
    <3>1. Cardinality(u \ {z}) < n /\ Cardinality(u \ {z}) \in Nat /\ n \in Nat
      BY <1>1, <2>3, Smaller
    <3> QED
      BY <2>2, <3>1
  <2>8. Length(u \ {p}) = RowLen[y[2]] + Length((u \ {p}) \ {y})
    BY <2>5, <2>6, <2>7
  <2>9. Length(u \ {y}) = RowLen[p[2]] + Length((u \ {y}) \ {p})
    BY <2>5, <2>6, <2>7
  <2>10. (u \ {p}) \ {y} = (u \ {y}) \ {p}
    OBVIOUS
  <2>11. RowLen[p[2]] \in Nat /\ RowLen[y[2]] \in Nat
    BY <2>5, RoomAssumption DEF RowSet
  <2>12. Length((u \ {y}) \ {p}) \in Nat
    <3>1. (u \ {y}) \ {p} \in SUBSET S
      OBVIOUS
    <3>2. (u \ {y}) \ {p} \in SUBSET RowSet
      OBVIOUS
    <3> QED
      BY <1>1, <3>1, <3>2, LengthType
  <2>13. PICK l \in Nat : l = Length((u \ {y}) \ {p}) /\ l = Length((u \ {p}) \ {y})
    BY <2>10, <2>12
  <2>14. Length(u) = RowLen[p[2]] + (RowLen[y[2]] + l)
    BY <2>5, <2>8, <2>13
  <2>15. RowLen[y[2]] + Length(u \ {y}) = RowLen[y[2]] + (RowLen[p[2]] + l)
    BY <2>9, <2>13
  <2>16. RowLen[p[2]] + (RowLen[y[2]] + l) = RowLen[y[2]] + (RowLen[p[2]] + l)
    BY <2>11
  <2> QED
    BY <2>4, <2>14, <2>15, <2>16
<1>3. CASE Wrong = {}
  BY <1>3
<1> QED
  BY <1>2, <1>3

(* Bank and BankServer share their vocabulary.                             *)
LEMMA SameVocabulary ==
  /\ bank!Request = Request /\ bank!Response = Response
  /\ \A tag : bank!Answer(tag) = Answer(tag)
  /\ \A S : bank!Cardinality(S) = Cardinality(S)
<1>1. bank!Request = Request /\ bank!Response = Response
  BY DEF bank!Request, bank!Response, Request, Response, bank!Ops, Ops, bank!Tags, Tags
<1>2. \A tag : bank!Answer(tag) = Answer(tag)
  BY DEF bank!Answer, Answer
<1>3. \A S : bank!Cardinality(S) = Cardinality(S)
  BY DEF bank!Cardinality, Cardinality
<1> QED
  BY <1>1, <1>2, <1>3
-----------------------------------------------------------------------------
(* The table as the terminals see it.                                      *)

Active == {s \in Slots : db[s].active}
RowAt(s) == <<db[s].id, db[s].val>>

StoreFacts ==
  /\ StoreView \in [Ids -> Values \cup {None}]
  /\ \A s \in Active : StoreView[db[s].id] = db[s].val /\ StoreView[db[s].id] # None
  /\ \A i \in Ids : StoreView[i] # None => \E s \in Active : db[s].id = i

(* Each id is recorded with the value of its one active slot.              *)
LEMMA StoreIs == TypeOK /\ UniqueIds => StoreFacts
<1> SUFFICES ASSUME TypeOK, UniqueIds PROVE StoreFacts
  OBVIOUS
<1>t. db \in [Slots -> Record] /\ None \notin Values
  BY NoneAssumption DEF TypeOK
<1>1. \A i \in Ids : ActiveWith(i) # {} => First(ActiveWith(i)) \in ActiveWith(i)
  BY FirstIsMember DEF ActiveWith
<1>2. \A s \in Slots : db[s].val \in Values /\ db[s].id \in Ids
  BY <1>t DEF Record
<1>3. StoreView \in [Ids -> Values \cup {None}]
  BY <1>1, <1>2 DEF StoreView, ActiveWith
<1>4. ASSUME NEW s \in Active PROVE StoreView[db[s].id] = db[s].val
  <2>1. s \in ActiveWith(db[s].id) /\ db[s].id \in Ids
    BY <1>2, <1>4 DEF Active, ActiveWith
  <2>2. First(ActiveWith(db[s].id)) = s
    BY <1>1, <2>1 DEF UniqueIds, ActiveWith
  <2> QED
    BY <2>1, <2>2 DEF StoreView
<1>5. \A i \in Ids : StoreView[i] # None => \E s \in Active : db[s].id = i
  BY DEF StoreView, ActiveWith, Active
<1>6. \A s \in Active : db[s].val # None
  BY <1>t, <1>2 DEF Active
<1> QED
  BY <1>3, <1>4, <1>5, <1>6 DEF StoreFacts

(* The recorded ids and rows are those of the active slots.                *)
LEMMA RecordedIs ==
  ASSUME TypeOK, UniqueIds
  PROVE  /\ bank!Recorded = {db[s].id : s \in Active}
         /\ bank!Rows = {RowAt(s) : s \in Active}
<1>1. StoreFacts
  BY StoreIs
<1>2. \A s \in Active : db[s].id \in Ids
  BY DEF TypeOK, Record, Active
<1>3. bank!Recorded = {db[s].id : s \in Active}
  BY <1>1, <1>2 DEF bank!Recorded, StoreFacts
<1>4. bank!Rows = {<<i, StoreView[i]>> : i \in bank!Recorded}
  BY DEF bank!Rows
<1> QED
  BY <1>1, <1>3, <1>4 DEF StoreFacts, RowAt

(* One active slot for each recorded id.                                   *)
LEMMA RecordedCount ==
  ASSUME TypeOK, UniqueIds
  PROVE  /\ IsFiniteSet(Active)
         /\ Cardinality(bank!Recorded) = MaxRecords <=> Free = {}
         /\ Cardinality(bank!Recorded) < MaxRecords <=> Free # {}
<1>1. IsFiniteSet(Slots) /\ Cardinality(Slots) = MaxRecords /\ MaxRecords \in Nat
  BY FS_Interval, MaxRecordsAssumption DEF Slots
<1>2. Active \in SUBSET Slots /\ (Free = {} <=> Active = Slots)
  BY DEF Active, Free
<1>3. /\ IsFiniteSet(Active) /\ Cardinality(Active) <= MaxRecords /\ Cardinality(Active) \in Nat
      /\ Cardinality(Active) = MaxRecords <=> Active = Slots
  BY <1>1, <1>2, FS_Subset, FS_CardinalityType
<1> DEFINE f == [s \in Active |-> db[s].id]
<1>4. f \in Bijection(Active, bank!Recorded)
  <2>1. bank!Recorded = {db[s].id : s \in Active}
    BY RecordedIs
  <2>2. \A s, t \in Active : db[s].id = db[t].id => s = t
    BY DEF Active, UniqueIds
  <2>3. /\ f \in [Active -> bank!Recorded]
        /\ \A s, t \in Active : f[s] = f[t] => s = t
        /\ \A i \in bank!Recorded : \E s \in Active : f[s] = i
    BY <2>1, <2>2
  <2> HIDE DEF f
  <2> QED
    BY <2>3 DEF Bijection, Injection, Surjection, IsInjective
<1>5. Cardinality(bank!Recorded) = Cardinality(Active)
  BY <1>3, <1>4, FS_Bijection DEF ExistsBijection
<1>6. PICK n \in Nat : n = Cardinality(Active)
  BY <1>3
<1>7. n <= MaxRecords /\ (n = MaxRecords <=> Free = {})
  BY <1>2, <1>3, <1>6
<1>8. Cardinality(bank!Recorded) = n
  BY <1>5, <1>6
<1> QED
  BY <1>1, <1>3, <1>7, <1>8

(* What each command does to it.                                           *)
LEMMA StoreSame ==
  ASSUME UNCHANGED db
  PROVE  StoreView' = StoreView
BY DEF StoreView, ActiveWith

(* Filling a free slot under a new id records that id.                     *)
LEMMA StoreAdded ==
  ASSUME StoreFacts, StoreFacts', db \in [Slots -> Record], UniqueIds',
         NEW f \in Free, NEW i \in Ids, NEW v \in Values,
         db' = [db EXCEPT ![f] = Slot(i, v, TRUE)]
  PROVE  StoreView' = [StoreView EXCEPT ![i] = v]
<1>1. \A s \in Slots : s # f => db'[s] = db[s]
  OBVIOUS
<1>2. db'[f].id = i /\ db'[f].val = v /\ db'[f].active
  BY DEF Free, Slot
<1>3. Active' = Active \cup {f} /\ f \in Slots /\ f \notin Active
  BY <1>1, <1>2 DEF Active, Free
<1>4. \A s \in Active : db[s].id # i
  BY <1>1, <1>2, <1>3 DEF UniqueIds, Active
<1>5. StoreView'[i] = v
  BY <1>2, <1>3 DEF StoreFacts
<1>6. ASSUME NEW j \in Ids, j # i PROVE StoreView'[j] = StoreView[j]
  <2>1. CASE \E s \in Active : db[s].id = j
    <3>1. PICK s \in Active : db[s].id = j
      BY <2>1
    <3>2. s \in Active' /\ db'[s] = db[s]
      BY <1>1, <1>3 DEF Active
    <3>3. StoreView[j] = db[s].val
      BY <3>1 DEF StoreFacts
    <3>4. StoreView'[j] = db'[s].val
      BY <3>1, <3>2 DEF StoreFacts
    <3> QED
      BY <3>2, <3>3, <3>4
  <2>2. CASE ~ \E s \in Active : db[s].id = j
    <3>1. StoreView[j] = None
      BY <2>2 DEF StoreFacts
    <3>2. ~ \E s \in Active' : db'[s].id = j
      BY <1>1, <1>2, <1>3, <1>6, <2>2 DEF Active
    <3>3. StoreView'[j] = None
      BY <3>2 DEF StoreFacts
    <3> QED
      BY <3>1, <3>3
  <2> QED
    BY <2>1, <2>2
<1>7. StoreView' \in [Ids -> Values \cup {None}] /\ StoreView \in [Ids -> Values \cup {None}]
  BY DEF StoreFacts
<1> HIDE DEF StoreView
<1> QED
  BY <1>5, <1>6, <1>7

(* Clearing an active flag forgets the id of that slot.                    *)
LEMMA StoreDeleted ==
  ASSUME StoreFacts, StoreFacts', db \in [Slots -> Record], UniqueIds,
         NEW p \in Active,
         db' = [db EXCEPT ![p] = Slot(@.id, @.val, FALSE)]
  PROVE  StoreView' = [StoreView EXCEPT ![db[p].id] = None]
<1>1. \A s \in Slots : s # p => db'[s] = db[s]
  OBVIOUS
<1>2. db'[p].active = FALSE /\ p \in Slots /\ db[p].id \in Ids
  BY DEF Active, Slot, Record
<1>3. Active' = Active \ {p}
  BY <1>1, <1>2 DEF Active
<1>4. \A s \in Active' : db[s].id # db[p].id
  BY <1>3 DEF UniqueIds, Active
<1>5. StoreView'[db[p].id] = None
  <2>1. ~ \E s \in Active' : db'[s].id = db[p].id
    BY <1>1, <1>3, <1>4 DEF Active
  <2> QED
    BY <1>2, <2>1 DEF StoreFacts
<1>6. ASSUME NEW j \in Ids, j # db[p].id PROVE StoreView'[j] = StoreView[j]
  <2>1. CASE \E s \in Active : db[s].id = j
    <3>1. PICK s \in Active : db[s].id = j
      BY <2>1
    <3>2. s \in Active' /\ db'[s] = db[s]
      BY <1>1, <1>3, <1>6, <3>1 DEF Active
    <3>3. StoreView[j] = db[s].val
      BY <3>1 DEF StoreFacts
    <3>4. StoreView'[j] = db'[s].val
      BY <3>1, <3>2 DEF StoreFacts
    <3> QED
      BY <3>2, <3>3, <3>4
  <2>2. CASE ~ \E s \in Active : db[s].id = j
    <3>1. StoreView[j] = None
      BY <2>2 DEF StoreFacts
    <3>2. ~ \E s \in Active' : db'[s].id = j
      BY <1>1, <1>3, <2>2 DEF Active
    <3>3. StoreView'[j] = None
      BY <3>2 DEF StoreFacts
    <3> QED
      BY <3>1, <3>3
  <2> QED
    BY <2>1, <2>2
<1>7. StoreView' \in [Ids -> Values \cup {None}] /\ StoreView \in [Ids -> Values \cup {None}]
  BY DEF StoreFacts
<1> QED
  BY <1>5, <1>6, <1>7

(* Writing the value of an active slot changes the record of its id.       *)
LEMMA StoreUpdated ==
  ASSUME StoreFacts, StoreFacts', db \in [Slots -> Record],
         NEW p \in Active, NEW v \in Values,
         db' = [db EXCEPT ![p] = Slot(@.id, v, @.active)]
  PROVE  StoreView' = [StoreView EXCEPT ![db[p].id] = v]
<1>1. \A s \in Slots : s # p => db'[s] = db[s]
  OBVIOUS
<1>2. /\ db'[p].active = db[p].active /\ db'[p].id = db[p].id /\ db'[p].val = v
      /\ p \in Slots /\ db[p].id \in Ids
  BY DEF Active, Slot, Record
<1>3. Active' = Active
  BY <1>1, <1>2 DEF Active
<1>4. \A s \in Active : db'[s].id = db[s].id
  BY <1>1, <1>2 DEF Active
<1>5. StoreView'[db[p].id] = v
  BY <1>2, <1>3 DEF StoreFacts
<1>6. ASSUME NEW j \in Ids, j # db[p].id PROVE StoreView'[j] = StoreView[j]
  <2>1. CASE \E s \in Active : db[s].id = j
    BY <1>1, <1>3, <1>4, <1>6, <2>1 DEF StoreFacts, Active
  <2>2. CASE ~ \E s \in Active : db[s].id = j
    <3>1. StoreView[j] = None
      BY <2>2 DEF StoreFacts
    <3>2. ~ \E s \in Active' : db'[s].id = j
      BY <1>3, <1>4, <2>2
    <3>3. StoreView'[j] = None
      BY <3>2 DEF StoreFacts
    <3> QED
      BY <3>1, <3>3
  <2> QED
    BY <2>1, <2>2
<1>7. StoreView' \in [Ids -> Values \cup {None}] /\ StoreView \in [Ids -> Values \cup {None}]
  BY DEF StoreFacts
<1> QED
  BY <1>5, <1>6, <1>7

(* Sequences of one and of two elements.                                   *)
LEMMA TupleFacts ==
  /\ \A x : <<x>> # <<>> /\ Head(<<x>>) = x /\ Tail(<<x>>) = <<>> /\ Append(<<>>, x) = <<x>>
  /\ \A x, y : /\ <<x, y>> # <<>> /\ Head(<<x, y>>) = x /\ Tail(<<x, y>>) = <<y>>
               /\ <<>> \o <<x, y>> = <<x, y>> /\ Append(<<x>>, y) = <<x, y>>
<1>1. \A x : <<x>> # <<>> /\ Head(<<x>>) = x
  OBVIOUS
<1>2. \A x : Tail(<<x>>) = <<>>
  OBVIOUS
<1>3. \A x : Append(<<>>, x) = <<x>>
  OBVIOUS
<1>4. \A x, y : <<x, y>> # <<>> /\ Head(<<x, y>>) = x
  OBVIOUS
<1>5. \A x, y : Tail(<<x, y>>) = <<y>>
  OBVIOUS
<1>6. \A x, y : <<>> \o <<x, y>> = <<x, y>>
  OBVIOUS
<1>7. \A x, y : Append(<<x>>, y) = <<x, y>>
  <2> SUFFICES ASSUME NEW x, NEW y PROVE Append(<<x>>, y) = <<x, y>>
    OBVIOUS
  <2> DEFINE s == <<x>>
  <2>1. s \in Seq({x, y}) /\ \E l \in Nat : l = Len(s) /\ l = 1
    OBVIOUS
  <2>2. s[1] = x
    OBVIOUS
  <2> HIDE DEF s
  <2> DEFINE a == Append(s, y)
  <2>3. /\ a \in Seq({x, y}) /\ Len(a) = Len(s) + 1
        /\ a[Len(s) + 1] = y /\ \A i \in 1..Len(s) : a[i] = s[i]
    <3>1. s \in Seq({x, y}) /\ y \in {x, y}
      BY <2>1
    <3> QED
      BY <3>1, AppendProperties
  <2>4. Len(s) = 1
    BY <2>1
  <2>5. a \in Seq({x, y}) /\ (\E l \in Nat : l = Len(a) /\ l = 2) /\ a[1] = x /\ a[2] = y
    <3> HIDE DEF a
    <3> QED
      BY <2>3, <2>4, <2>2
  <2> HIDE DEF a
  <2> DEFINE b == <<x, y>>
  <2>6. b \in Seq({x, y}) /\ (\E l \in Nat : l = Len(b) /\ l = 2) /\ b[1] = x /\ b[2] = y
    OBVIOUS
  <2> HIDE DEF b
  <2>7. \A i \in 1..Len(a) : a[i] = b[i]
    BY <2>5, <2>6
  <2>8. Len(a) = Len(b)
    BY <2>5, <2>6
  <2>9. a = b
    BY <2>5, <2>6, <2>7, <2>8, SeqEqual
  <2> QED
    BY <2>9 DEF a, b, s
<1> QED
  BY <1>1, <1>2, <1>3, <1>4, <1>5, <1>6, <1>7

(* Commands, answers and the two ways to leave are told apart.             *)
LEMMA CommandFacts ==
  /\ \A r \in Request : r.op \in Ops /\ r # Quit /\ r # Eof /\ r \notin Response
  /\ Quit.op = "QUIT" /\ Eof.op = "EOF"
  /\ None \notin Request /\ None \notin Response /\ None \notin Values /\ None \notin Clients
<1>1. \A r \in Request : r.op \in Ops /\ r # Quit /\ r # Eof
  BY DEF Request, Ops, Quit, Eof
<1>2. \A r \in Request : r \notin Response
  BY DEF Request, Response
<1> QED
  BY <1>1, <1>2, NoneAssumption DEF Quit, Eof

-----------------------------------------------------------------------------
(* One connection: where its command and its answer are.                   *)

Busy(c) == wpc[c] \in {"lock", "scan", "write", "list", "unlock", "send"}

Session(c) ==
  /\ cpc[c] \in {"start", "idle"} => ~Busy(c) /\ c2s[c] = <<>> /\ s2c[c] = <<>>
  /\ cpc[c] = "wait" =>
       \/ ~Busy(c) /\ s2c[c] = <<>> /\ \E r \in Request : c2s[c] = <<r>>
       \/ Busy(c) /\ s2c[c] = <<>> /\ c2s[c] = <<>>
       \/ ~Busy(c) /\ c2s[c] = <<>> /\ \E a \in Response : s2c[c] = <<a>>
  /\ cpc[c] = "closed" =>
       /\ s2c[c] = <<>>
       /\ Busy(c) => c2s[c] = <<Eof>>
       /\ \/ c2s[c] \in {<<>>, <<Eof>>, <<Quit, Eof>>}
          \/ \E r \in Request : c2s[c] = <<r, Eof>>
Sessions == \A c \in Clients : Session(c)

(* A step of a connection touches no other one.                            *)
SameFor(d) == /\ cpc'[d] = cpc[d] /\ c2s'[d] = c2s[d] /\ s2c'[d] = s2c[d] /\ wpc'[d] = wpc[d]
              /\ req'[d] = req[d] /\ pos'[d] = pos[d] /\ used'[d] = used[d] /\ resp'[d] = resp[d]

(* So no step of c changes what belongs to d.                              *)
LEMMA OthersSame ==
  ASSUME TypeOK, Handover, NEW c \in Clients, Client(c) \/ Thread(c), NEW d \in Clients, d # c
  PROVE  SameFor(d)
<1>t. /\ c2s \in [Clients -> Seq(Message)] /\ s2c \in [Clients -> Seq(Response)]
      /\ wpc \in [Clients -> ThreadSteps] /\ cpc \in [Clients -> {"start", "idle", "wait", "closed"}]
      /\ req \in [Clients -> Request] /\ pos \in [Clients -> 0..(MaxRecords + 1)]
      /\ used \in [Clients -> Nat] /\ resp \in [Clients -> Response]
  BY DEF TypeOK
<1>1. CASE Client(c)
  <2>1. UNCHANGED <<wpc, req, pos, used, resp>>
    BY <1>1, ClientFrame
  <2>2. cpc'[d] = cpc[d]
    BY <1>1, <1>t DEF Client, Connect, SendRequest, ReceiveReply, TypeQuit, Die
  <2>3. c2s'[d] = c2s[d]
    BY <1>1, <1>t DEF Client, Connect, SendRequest, ReceiveReply, TypeQuit, Die
  <2>4. s2c'[d] = s2c[d]
    BY <1>1, <1>t DEF Client, Connect, SendRequest, ReceiveReply, TypeQuit, Die
  <2> QED
    BY <2>1, <2>2, <2>3, <2>4 DEF SameFor
<1>2. CASE Thread(c)
  <2>o. (Recv(c) => OwnRecv(c)) /\ (Send(c) => OwnSend(c))
    BY RecvOwn, SendOwn
  <2>1. cpc' = cpc /\ wpc'[d] = wpc[d]
    BY <1>2, <1>t, ThreadFrame
  <2>2. c2s'[d] = c2s[d]
    BY <1>2, <1>t, <2>o DEF Thread, Serve, Start, OwnRecv, DbLock, DbLockRace, Scan, AddRecord, DeleteRecord, UpdateRecord,
                ListRow, DbUnlock, OwnSend, SemPost
  <2>3. s2c'[d] = s2c[d]
    BY <1>2, <1>t, <2>o DEF Thread, Serve, Start, OwnRecv, DbLock, DbLockRace, Scan, AddRecord, DeleteRecord, UpdateRecord,
                ListRow, DbUnlock, OwnSend, SemPost
  <2>4. req'[d] = req[d]
    BY <1>2, <1>t DEF Thread, Serve, Start, Recv, DbLock, DbLockRace, Scan, AddRecord, DeleteRecord, UpdateRecord,
                ListRow, DbUnlock, Send, SemPost, locals
  <2>5. pos'[d] = pos[d]
    BY <1>2, <1>t DEF Thread, Serve, Start, Recv, DbLock, DbLockRace, Scan, AddRecord, DeleteRecord, UpdateRecord,
                ListRow, DbUnlock, Send, SemPost, locals
  <2>6. used'[d] = used[d]
    BY <1>2, <1>t DEF Thread, Serve, Start, Recv, DbLock, DbLockRace, Scan, AddRecord, DeleteRecord, UpdateRecord,
                ListRow, DbUnlock, Send, SemPost, locals
  <2>7. resp'[d] = resp[d]
    BY <1>2, <1>t DEF Thread, Serve, Start, Recv, DbLock, DbLockRace, Scan, AddRecord, DeleteRecord, UpdateRecord,
                ListRow, DbUnlock, Send, SemPost, locals, Respond
  <2> QED
    BY <2>1, <2>2, <2>3, <2>4, <2>5, <2>6, <2>7 DEF SameFor
<1> QED
  BY <1>1, <1>2

(* main starts threads and touches no connection.                          *)
LEMMA MainSame ==
  ASSUME TypeOK, Handover, Main
  PROVE  /\ UNCHANGED <<cpc, c2s, s2c, req, pos, used, resp, db, lock>>
         /\ \A c \in Clients : \/ wpc'[c] = wpc[c]
                               \/ wpc[c] = "none" /\ wpc'[c] \in {"start", "lost"}
<1>1. UNCHANGED <<cpc, c2s, s2c, req, pos, used, resp, db, lock>>
  BY DEF Main, SemWait, AcceptConnection, AcceptError, CreateThread, CreateFails,
         connections, clientVars, workers, locals
<1>2. CASE SemWait \/ AcceptConnection \/ AcceptError
  BY <1>1, <1>2 DEF SemWait, AcceptConnection, AcceptError
<1>3. CASE CreateThread \/ CreateFails
  <2>1. cur \in Clients /\ wpc[cur] = "none"
    BY <1>3 DEF CreateThread, CreateFails, TypeOK, Handover
  <2>2. \E step \in {"start", "lost"} : wpc' = [wpc EXCEPT ![cur] = step]
    BY <1>3 DEF CreateThread, CreateFails
  <2> QED
    BY <1>1, <2>1, <2>2 DEF TypeOK
<1> QED
  BY <1>2, <1>3 DEF Main

(* Every step keeps a command and its answer in one place.                 *)
LEMMA SessionStep == TypeOK /\ Handover /\ Sessions /\ [Next]_vars => Sessions'
<1> SUFFICES ASSUME TypeOK, Handover, Sessions, [Next]_vars PROVE Sessions'
  OBVIOUS
<1>t. /\ c2s \in [Clients -> Seq(Message)] /\ s2c \in [Clients -> Seq(Response)]
      /\ wpc \in [Clients -> ThreadSteps] /\ cpc \in [Clients -> {"start", "idle", "wait", "closed"}]
      /\ resp \in [Clients -> Response]
  BY DEF TypeOK
<1>1. ASSUME NEW c \in Clients, Client(c) \/ Thread(c), Session(c)' PROVE Sessions'
  <2>1. \A d \in Clients : d # c => Session(d)'
    BY <1>1, OthersSame DEF SameFor, Sessions, Session, Busy
  <2> QED
    BY <1>1, <2>1 DEF Sessions
<1>2. CASE Main
  BY <1>2, MainSame DEF Sessions, Session, Busy
<1>3. CASE UNCHANGED vars
  BY <1>3 DEF vars, clientVars, Sessions, Session, Busy
<1>4. ASSUME NEW c \in Clients, Client(c) PROVE Session(c)'
  <2>w. wpc' = wpc /\ Session(c)
    BY <1>4, ClientFrame DEF Sessions
  <2>1. CASE Connect(c)
    <3>1. cpc[c] = "start" /\ cpc'[c] = "idle" /\ UNCHANGED <<c2s, s2c>>
      BY <1>t, <2>1 DEF Connect
    <3> QED
      BY <2>w, <3>1 DEF Session, Busy
  <2>2. CASE SendRequest(c)
    <3>1. PICK r \in Request : c2s' = [c2s EXCEPT ![c] = Append(@, r)]
      BY <2>2, RequestsAssumption DEF SendRequest
    <3>2. cpc[c] = "idle" /\ cpc'[c] = "wait" /\ s2c' = s2c
      BY <1>t, <2>2 DEF SendRequest
    <3>3. c2s'[c] = <<r>>
      BY <1>t, <2>w, <3>1, <3>2, TupleFacts DEF Session
    <3> QED
      BY <2>w, <3>2, <3>3 DEF Session, Busy
  <2>3. CASE ReceiveReply(c)
    <3>1. /\ cpc[c] = "wait" /\ cpc'[c] = "idle" /\ c2s' = c2s
          /\ s2c[c] # <<>> /\ s2c'[c] = Tail(s2c[c])
      BY <1>t, <2>3 DEF ReceiveReply
    <3>2. ~Busy(c) /\ c2s[c] = <<>> /\ \E a \in Response : s2c[c] = <<a>>
      BY <2>w, <3>1 DEF Session
    <3>3. s2c'[c] = <<>>
      BY <3>1, <3>2, TupleFacts
    <3> QED
      BY <2>w, <3>1, <3>2, <3>3 DEF Session, Busy
  <2>4. CASE TypeQuit(c)
    <3>1. cpc[c] = "idle" /\ cpc'[c] = "closed" /\ s2c' = s2c /\ c2s'[c] = c2s[c] \o <<Quit, Eof>>
      BY <1>t, <2>4 DEF TypeQuit
    <3>2. c2s'[c] = <<Quit, Eof>>
      BY <2>w, <3>1, TupleFacts DEF Session
    <3> QED
      BY <2>w, <3>1, <3>2 DEF Session, Busy
  <2>5. CASE Die(c)
    <3>1. /\ cpc[c] \in {"idle", "wait"} /\ cpc'[c] = "closed"
          /\ s2c'[c] = <<>> /\ c2s'[c] = Append(c2s[c], Eof)
      BY <1>t, <2>5 DEF Die
    <3>2. CASE c2s[c] = <<>>
      BY <2>w, <3>1, <3>2, TupleFacts DEF Session, Busy
    <3>3. CASE c2s[c] # <<>>
      <4>1. PICK r \in Request : c2s[c] = <<r>> /\ ~Busy(c)
        BY <2>w, <3>1, <3>3 DEF Session
      <4>2. c2s'[c] = <<r, Eof>>
        BY <3>1, <4>1, TupleFacts
      <4> QED
        BY <2>w, <3>1, <4>1, <4>2 DEF Session, Busy
    <3> QED
      BY <3>2, <3>3
  <2> QED
    BY <1>4, <2>1, <2>2, <2>3, <2>4, <2>5 DEF Client
<1>5. ASSUME NEW c \in Clients, Thread(c) PROVE Session(c)'
  <2>w. cpc' = cpc /\ Session(c)
    BY <1>5, ThreadFrame DEF Sessions
  <2>1. CASE Recv(c)
    <3>o. OwnRecv(c)
      BY <2>1, RecvOwn
    <3>1. /\ wpc[c] = "recv" /\ s2c' = s2c /\ c2s[c] # <<>> /\ c2s'[c] = Tail(c2s[c])
      BY <1>t, <3>o DEF OwnRecv, At
    <3>2. \/ Head(c2s[c]).op \in {"QUIT", "EOF"} /\ wpc'[c] = "post"
          \/ Head(c2s[c]).op \in Ops /\ wpc'[c] \in {"lock", "send"}
      BY <1>t, <3>o DEF OwnRecv, Goto, Ops
    <3>3. CASE cpc[c] = "wait"
      <4>1. PICK r \in Request : c2s[c] = <<r>> /\ s2c[c] = <<>>
        BY <2>w, <3>1, <3>3 DEF Session, Busy
      <4>2. c2s'[c] = <<>> /\ Head(c2s[c]) = r
        BY <3>1, <4>1, TupleFacts
      <4>3. r.op \in Ops
        BY CommandFacts
      <4>4. wpc'[c] \in {"lock", "send"}
        BY <3>2, <4>2, <4>3 DEF Ops
      <4> QED
        BY <2>w, <3>1, <3>3, <4>1, <4>2, <4>4 DEF Session, Busy
    <3>4. CASE cpc[c] = "closed"
      <4>1. CASE c2s[c] \in {<<Eof>>, <<Quit, Eof>>}
        <5>1. Head(c2s[c]) \in {Eof, Quit} /\ c2s'[c] \in {<<>>, <<Eof>>}
          <6>1. CASE c2s[c] = <<Eof>>
            BY <3>1, <6>1, TupleFacts
          <6>2. CASE c2s[c] = <<Quit, Eof>>
            BY <3>1, <6>2, TupleFacts
          <6> QED
            BY <4>1, <6>1, <6>2
        <5>2. wpc'[c] = "post"
          BY <3>2, <5>1, CommandFacts DEF Ops
        <5> QED
          BY <2>w, <3>1, <3>4, <5>1, <5>2 DEF Session, Busy
      <4>2. ASSUME NEW r \in Request, c2s[c] = <<r, Eof>> PROVE Session(c)'
        <5>1. c2s'[c] = <<Eof>>
          BY <3>1, <4>2, TupleFacts
        <5> QED
          BY <2>w, <3>1, <3>4, <5>1 DEF Session, Busy
      <4> QED
        BY <2>w, <3>1, <3>4, <4>1, <4>2 DEF Session
    <3> QED
      BY <1>t, <2>w, <3>1, <3>3, <3>4 DEF Session
  <2>2. CASE Serve(c) /\ ~Send(c)
    <3>1. Busy(c) /\ Busy(c)' /\ UNCHANGED <<c2s, s2c>>
      BY <1>t, <2>2 DEF Serve, DbLock, DbLockRace, Scan, AddRecord, DeleteRecord, UpdateRecord,
                ListRow, DbUnlock, At, Goto, Busy
    <3> QED
      BY <2>w, <3>1 DEF Session
  <2>3. CASE Send(c)
    <3>o. OwnSend(c)
      BY <2>3, SendOwn
    <3>1. /\ wpc[c] = "send" /\ wpc'[c] = "recv" /\ c2s' = c2s
          /\ s2c' = IF cpc[c] = "closed" THEN s2c ELSE [s2c EXCEPT ![c] = Append(@, resp[c])]
      BY <1>t, <3>o DEF OwnSend, At, Goto
    <3>2. CASE cpc[c] = "closed"
      BY <2>w, <3>1, <3>2 DEF Session, Busy
    <3>3. CASE cpc[c] # "closed"
      <4>1. cpc[c] = "wait" /\ c2s[c] = <<>> /\ s2c[c] = <<>>
        BY <1>t, <2>w, <3>1, <3>3 DEF Session, Busy
      <4>2. s2c'[c] = <<resp[c]>> /\ resp[c] \in Response
        BY <1>t, <3>1, <4>1, TupleFacts
      <4> QED
        BY <2>w, <3>1, <4>1, <4>2 DEF Session, Busy
    <3> QED
      BY <3>2, <3>3
  <2>4. CASE SemPost(c)
    <3>1. ~Busy(c) /\ ~Busy(c)' /\ UNCHANGED <<c2s, s2c>>
      BY <1>t, <2>4 DEF SemPost, At, Goto, Busy
    <3> QED
      BY <2>w, <3>1 DEF Session
  <2>5. CASE Start(c)
    <3>1. ~Busy(c) /\ ~Busy(c)' /\ UNCHANGED <<c2s, s2c>>
      BY <1>t, <2>5 DEF Start, At, Goto, Busy
    <3> QED
      BY <2>w, <3>1 DEF Session
  <2> QED
    BY <1>5, <2>1, <2>2, <2>3, <2>4, <2>5 DEF Thread
<1> QED
  BY <1>1, <1>2, <1>3, <1>4, <1>5 DEF Next

(* A terminal that has not connected has sent nothing.                     *)
LEMMA SessionInit == Init => Sessions
BY DEF Init, Sessions, Session, Busy

-----------------------------------------------------------------------------
(* A LIST under way.                                                       *)

Seen(p) == {RowAt(s) : s \in {t \in Active : t < p}}

(* What a LIST has gathered: rows it has passed, which stay within the     *)
(* room, and all of them but those that no longer fit.                     *)
Gathered(answer, length, rows) ==
  /\ answer.rows \subseteq rows
  /\ answer.tag = IF rows = {} THEN "EMPTY" ELSE "LIST"
  /\ length = Length(answer.rows)
  /\ answer.rows # {} => length < Room
  /\ \A r \in rows \ answer.rows : length + RowLen[r[2]] >= Room

Listing(c) ==
  wpc[c] = "list" =>
    /\ req[c].op = "LIST" /\ pos[c] \in Slots
    /\ Gathered(resp[c], used[c], Seen(pos[c]))
Listings == \A c \in Clients : Listing(c)

(* The rows a LIST has passed are finitely many.                           *)
LEMMA SeenType ==
  ASSUME TypeOK, NEW p \in Nat
  PROVE  Seen(p) \in SUBSET RowSet /\ IsFiniteSet(Seen(p)) /\ Length(Seen(p)) \in Nat
<1> DEFINE D == {t \in Active : t < p}
           f == [s \in D |-> RowAt(s)]
<1>1. IsFiniteSet(D)
  <2>1. IsFiniteSet(Slots)
    BY FS_Interval, MaxRecordsAssumption DEF Slots
  <2> QED
    BY <2>1, FS_Subset DEF Active
<1>2. f \in Surjection(D, Seen(p))
  BY DEF Surjection, Seen
<1>3. IsFiniteSet(Seen(p))
  <2> HIDE DEF D, f
  <2> QED
    BY <1>1, <1>2, FS_Surjection
<1>4. Seen(p) \in SUBSET RowSet
  BY DEF Seen, RowAt, RowSet, TypeOK, Record, Active
<1> QED
  BY <1>3, <1>4, LengthType

(* What one more slot adds to the rows passed.                             *)
LEMMA SeenNext ==
  ASSUME TypeOK, UniqueIds, NEW p \in Slots
  PROVE  /\ p \in Nat /\ p + 1 \in Nat
         /\ db[p].active => /\ Seen(p + 1) = Seen(p) \cup {RowAt(p)}
                            /\ RowAt(p) \notin Seen(p)
         /\ ~db[p].active => Seen(p + 1) = Seen(p)
<1>1. Slots \subseteq Nat
  BY DEF Slots
<1>2. p \in Nat /\ p + 1 \in Nat
  BY <1>1
<1>3. {t \in Active : t < p + 1} = {t \in Active : t < p} \cup (Active \cap {p})
  <2>1. \A t \in Nat : t < p + 1 <=> t < p \/ t = p
    BY <1>2
  <2>2. \A t \in Active : t < p + 1 <=> t < p \/ t = p
    BY <1>1, <2>1 DEF Active
  <2> QED
    BY <2>2
<1>4. CASE ~db[p].active
  BY <1>2, <1>3, <1>4 DEF Seen, Active
<1>5. CASE db[p].active
  <2>1. Seen(p + 1) = Seen(p) \cup {RowAt(p)}
    BY <1>3, <1>5 DEF Seen, Active
  <2>2. RowAt(p) \notin Seen(p)
    <3> SUFFICES ASSUME NEW s \in Active, s < p, RowAt(s) = RowAt(p) PROVE FALSE
      BY DEF Seen
    <3>1. db[s].id = db[p].id
      BY DEF RowAt
    <3>2. s = p
      BY <1>5, <3>1 DEF UniqueIds, Active
    <3> QED
      BY <1>2, <3>2
  <2> QED
    BY <1>2, <1>5, <2>1, <2>2
<1> QED
  BY <1>4, <1>5

(* One iteration of the loop keeps what has been gathered right.           *)
LEMMA RowStep ==
  ASSUME TypeOK, UniqueIds, NEW c \in Clients, Listing(c), ListRow(c)
  PROVE  /\ pos[c] \in Slots /\ wpc[c] = "list" /\ req[c].op = "LIST"
         /\ Gathered(resp'[c], used'[c], Seen(pos[c] + 1))
<1>1. pos[c] \in Slots /\ wpc[c] = "list" /\ req[c].op = "LIST"
  BY DEF ListRow, At, Listing
<1>2. Gathered(resp[c], used[c], Seen(pos[c]))
  BY <1>1 DEF Listing
<1> DEFINE p == pos[c]
           row == db[p]
           len == used[c] + RowLen[row.val]
           fits == len < Room
<1>t. /\ resp \in [Clients -> Response] /\ used \in [Clients -> Nat]
      /\ resp[c].rows \in SUBSET (Ids \X Values)
  BY DEF TypeOK, Response
<1>3. CASE ~row.active
  <2>1. resp' = resp /\ used' = used
    BY <1>3 DEF ListRow
  <2> QED
    BY <1>1, <1>2, <1>3, <2>1, SeenNext
<1>4. CASE row.active
  <2>1. /\ resp'[c].rows = resp[c].rows \cup (IF fits THEN {RowAt(p)} ELSE {})
        /\ resp'[c].tag = "LIST"
        /\ used'[c] = IF fits THEN len ELSE used[c]
    BY <1>4, <1>t DEF ListRow, RowAt
  <2>2. Seen(p + 1) = Seen(p) \cup {RowAt(p)} /\ RowAt(p) \notin Seen(p)
    BY <1>1, <1>4, SeenNext
  <2>3. /\ Seen(p + 1) \in SUBSET RowSet /\ IsFiniteSet(Seen(p + 1))
        /\ RowAt(p)[2] = row.val
        /\ \A r \in Seen(p + 1) : RowLen[r[2]] \in Nat
    <3>1. Seen(p + 1) \in SUBSET RowSet /\ IsFiniteSet(Seen(p + 1))
      BY <1>1, SeenNext, SeenType
    <3> QED
      BY <3>1, RoomAssumption DEF RowAt, RowSet
  <2>4. /\ RowLen[row.val] \in Nat /\ Room \in Nat /\ used[c] \in Nat
        /\ Gathered(resp[c], used[c], Seen(p))
    BY <1>1, <1>2, <1>t, <2>2, <2>3, RoomAssumption
  <2> HIDE DEF p, row
  <2>5. Seen(p + 1) # {} /\ resp'[c].rows \subseteq Seen(p + 1)
    BY <2>1, <2>2, <2>4 DEF Gathered
  <2>6. CASE fits
    <3>1. resp'[c].rows = resp[c].rows \cup {RowAt(p)} /\ used'[c] = len
      BY <2>1, <2>6
    <3>2. Length(resp'[c].rows) = used'[c]
      <4>1. resp'[c].rows \in SUBSET RowSet /\ IsFiniteSet(resp'[c].rows)
        BY <2>3, <2>5, FS_Subset
      <4>2. RowAt(p) \in resp'[c].rows /\ resp'[c].rows \ {RowAt(p)} = resp[c].rows
        BY <2>2, <2>4, <3>1 DEF Gathered
      <4>3. Length(resp'[c].rows) = RowLen[row.val] + Length(resp[c].rows)
        BY <2>3, <4>1, <4>2, LengthRemove
      <4> QED
        BY <2>4, <3>1, <4>3 DEF Gathered
    <3>3. ASSUME NEW r \in Seen(p + 1) \ resp'[c].rows PROVE used'[c] + RowLen[r[2]] >= Room
      <4>1. used[c] + RowLen[r[2]] >= Room
        BY <2>2, <2>4, <3>1 DEF Gathered
      <4> QED
        BY <2>3, <2>4, <3>1, <4>1
    <3> QED
      BY <1>1, <2>1, <2>5, <2>6, <3>1, <3>2, <3>3 DEF Gathered, p
  <2>7. CASE ~fits
    <3>1. resp'[c].rows = resp[c].rows /\ used'[c] = used[c]
      BY <2>1, <2>7
    <3>2. used[c] + RowLen[RowAt(p)[2]] >= Room
      BY <2>3, <2>4, <2>7
    <3> QED
      BY <1>1, <2>1, <2>2, <2>4, <2>5, <3>1, <3>2 DEF Gathered, p
  <2> QED
    BY <2>6, <2>7
<1> QED
  BY <1>3, <1>4

(* Only the thread in its critical section writes the table.               *)
LEMMA WriterOnly ==
  ASSUME [Next]_vars, db' # db
  PROVE  \E c \in Clients : /\ AddRecord(c) \/ DeleteRecord(c) \/ UpdateRecord(c)
                            /\ wpc[c] = "write"
<1>1. \E c \in Clients : AddRecord(c) \/ DeleteRecord(c) \/ UpdateRecord(c)
  BY DEF Next, Main, Client, Thread, Serve, Connect, SendRequest, ReceiveReply, TypeQuit, Die,
         SemWait, AcceptConnection, AcceptError, CreateThread, CreateFails, Start, Recv, DbLock,
         DbLockRace, Scan, ListRow, DbUnlock, Send, SemPost, serverSide, workers, vars
<1> QED
  BY <1>1 DEF AddRecord, DeleteRecord, UpdateRecord, At

(* A LIST goes on while others work outside the critical section.          *)
LEMMA ListingSame ==
  ASSUME NEW c \in Clients, Listing(c), db' = db,
         wpc'[c] = "list" => wpc[c] = "list" /\ SameFor(c)
  PROVE  Listing(c)'
BY DEF Listing, SameFor, Gathered, Seen, RowAt, Active

(* Every step keeps what a LIST has gathered right.                        *)
LEMMA ListingStep ==
  TypeOK /\ Handover /\ UniqueIds /\ ScanStillTrue /\ Listings /\ [Next]_vars => Listings'
<1> SUFFICES ASSUME TypeOK, Handover, UniqueIds, ScanStillTrue, Listings, [Next]_vars,
                    NEW c \in Clients, wpc'[c] = "list"
             PROVE  Listing(c)'
  BY DEF Listings, Listing
<1>l. Listing(c)
  BY DEF Listings
<1>t. /\ wpc \in [Clients -> ThreadSteps] /\ pos \in [Clients -> 0..(MaxRecords + 1)]
      /\ used \in [Clients -> Nat] /\ resp \in [Clients -> Response]
  BY DEF TypeOK
<1>1. CASE wpc[c] = "list" /\ SameFor(c)
  <2>1. lock = c
    BY <1>1 DEF ScanStillTrue, Critical
  <2>2. db' = db
    <3> SUFFICES ASSUME db' # db PROVE FALSE
      OBVIOUS
    <3>1. PICK d \in Clients : wpc[d] = "write"
      BY WriterOnly
    <3>2. lock = d
      BY <3>1 DEF ScanStillTrue, Critical
    <3> QED
      BY <1>1, <2>1, <3>1, <3>2
  <2> QED
    BY <1>l, <1>1, <2>2, ListingSame
<1>2. ASSUME NEW d \in Clients, Client(d) \/ Thread(d), d # c PROVE Listing(c)'
  <2>1. SameFor(c)
    BY <1>2, OthersSame
  <2> QED
    BY <1>1, <2>1 DEF SameFor
<1>3. CASE Main
  <2>1. wpc[c] = "list" /\ SameFor(c)
    BY <1>3, MainSame DEF SameFor
  <2> QED
    BY <1>1, <2>1
<1>4. CASE UNCHANGED vars
  BY <1>1, <1>4 DEF vars, clientVars, locals, SameFor
<1>5. CASE Client(c)
  <2>1. wpc[c] = "list" /\ UNCHANGED <<db, wpc, req, pos, used, resp>>
    BY <1>5, ClientFrame
  <2> QED
    BY <1>l, <2>1 DEF Listing, Gathered, Seen, RowAt, Active
<1>6. CASE DbLock(c)
  <2>1. /\ req' = req /\ req[c].op = "LIST" /\ pos'[c] = 1 /\ used'[c] = 0
        /\ resp'[c] = Answer("EMPTY")
    BY <1>6, <1>t DEF DbLock, DbLockRace, Goto, Respond
  <2>2. Seen(1)' = {}
    BY DEF Seen, Active, Slots
  <2>3. Length({}) = 0
    BY LengthPick, FS_EmptySet
  <2>4. 1 \in Slots
    BY MaxRecordsAssumption DEF Slots
  <2> QED
    BY <2>1, <2>2, <2>3, <2>4 DEF Listing, Gathered, Answer
<1>7. CASE ListRow(c)
  <2>1. pos[c] \in Slots /\ req[c].op = "LIST" /\ Gathered(resp'[c], used'[c], Seen(pos[c] + 1))
    BY <1>l, <1>7, RowStep
  <2>2. pos'[c] = pos[c] + 1 /\ pos[c] # MaxRecords /\ req' = req /\ db' = db
    BY <1>7, <1>t DEF ListRow, Goto
  <2>3. pos'[c] \in Slots
    BY <2>1, <2>2, MaxRecordsAssumption DEF Slots
  <2>4. Seen(pos[c])' = Seen(pos[c] + 1)
    BY <2>2 DEF Seen, RowAt, Active
  <2> QED
    BY <2>1, <2>2, <2>3, <2>4 DEF Listing, Gathered
<1>8. CASE Thread(c) /\ ~DbLock(c) /\ ~ListRow(c)
  <2>1. wpc'[c] # "list"
    BY <1>8, <1>t DEF Thread, Serve, Start, Recv, Scan, AddRecord, DeleteRecord, UpdateRecord,
                DbUnlock, Send, SemPost, Goto
  <2> QED
    BY <2>1
<1> QED
  BY <1>2, <1>3, <1>4, <1>5, <1>6, <1>7, <1>8 DEF Next

(* No LIST is under way at first.                                          *)
LEMMA ListingInit == Init => Listings
BY DEF Init, Listings, Listing

-----------------------------------------------------------------------------
(* Every step of the server is a step of the bank, or none.                *)

CallAt(c) == IF s2c[c] # <<>> THEN Head(s2c[c])
             ELSE IF wpc[c] \in {"unlock", "send"} THEN resp[c]
             ELSE IF wpc[c] \in {"lock", "scan", "write", "list"} THEN req[c]
             ELSE IF c2s[c] # <<>> /\ Head(c2s[c]).op \in Ops THEN Head(c2s[c])
             ELSE None

(* The calls as the terminals see them, one by one.                        *)
LEMMA CallIs == CallView = [c \in Clients |-> CallAt(c)]
BY DEF CallView, CallAt

(* A step of a connection changes no other call.                           *)
LEMMA CallStep ==
  ASSUME TypeOK, Handover, NEW c \in Clients, Client(c) \/ Thread(c)
  PROVE  CallView' = [CallView EXCEPT ![c] = CallAt(c)']
<1>1. \A d \in Clients : d # c => CallAt(d)' = CallAt(d)
  BY OthersSame DEF CallAt, SameFor
<1>2. CallView' = [d \in Clients |-> CallAt(d)']
  BY DEF CallView, CallAt
<1>3. CallView = [d \in Clients |-> CallAt(d)]
  BY CallIs
<1> HIDE DEF CallAt, CallView
<1> QED
  BY <1>1, <1>2, <1>3, Zenon

(* The steps that say nothing to a terminal.                               *)
LEMMA Stutter ==
  ASSUME TypeOK, Handover, NEW c \in Clients, Client(c) \/ Thread(c), CallAt(c)' = CallAt(c), db' = db
  PROVE  UNCHANGED bank!vars
<1>1. CallView' = [CallView EXCEPT ![c] = CallAt(c)]
  BY CallStep
<1>2. CallView[c] = CallAt(c) /\ CallView = [d \in Clients |-> CallView[d]]
  BY CallIs
<1>3. CallView' = CallView
  BY <1>1, <1>2
<1> QED
  BY <1>3, StoreSame DEF bank!vars

(* The answer of c reaches its terminal, or is lost with it.               *)
LEMMA Returns ==
  ASSUME TypeOK, Handover, NEW c \in Clients, Client(c) \/ Thread(c),
         CallAt(c) \in Response, CallAt(c)' = None, db' = db
  PROVE  bank!Return(c)
<1>1. CallView' = [CallView EXCEPT ![c] = None]
  BY CallStep
<1>2. CallView[c] = CallAt(c)
  BY CallIs
<1>3. StoreView' = StoreView
  BY StoreSame
<1> HIDE DEF StoreView, CallView
<1> QED
  BY <1>1, <1>2, <1>3, SameVocabulary DEF bank!Return, bank!Reply

(* A step of a terminal is a call, a return, or nothing.                   *)
LEMMA ClientMaps ==
  ASSUME TypeOK, Handover, Sessions, Sessions', NEW c \in Clients, Client(c)
  PROVE  [bank!Next]_(bank!vars)
<1>t. /\ c2s \in [Clients -> Seq(Message)] /\ s2c \in [Clients -> Seq(Response)]
      /\ wpc \in [Clients -> ThreadSteps] /\ cpc \in [Clients -> {"start", "idle", "wait", "closed"}]
      /\ resp \in [Clients -> Response] /\ req \in [Clients -> Request]
  BY DEF TypeOK
<1>w. /\ UNCHANGED <<wpc, req, resp, db>> /\ Session(c) /\ Session(c)'
  BY ClientFrame DEF Sessions
<1>1. CASE Connect(c)
  <2>1. UNCHANGED <<c2s, s2c>>
    BY <1>1 DEF Connect
  <2> QED
    BY <2>1, <1>w, Stutter DEF CallAt
<1>2. CASE SendRequest(c)
  <2>1. PICK r \in Requests : c2s' = [c2s EXCEPT ![c] = Append(@, r)]
    BY <1>2 DEF SendRequest
  <2>2. cpc[c] = "idle" /\ s2c' = s2c /\ ~Busy(c) /\ c2s[c] = <<>> /\ s2c[c] = <<>>
    BY <1>w, <1>2 DEF SendRequest, Session
  <2>3. c2s'[c] = <<r>> /\ r.op \in Ops
    BY <1>t, <2>1, <2>2, TupleFacts, CommandFacts, RequestsAssumption
  <2>4. CallAt(c) = None
    BY <2>2 DEF CallAt, Busy
  <2>5. CallAt(c)' = r
    BY <1>w, <2>2, <2>3, TupleFacts DEF CallAt, Busy
  <2>6. CallView' = [CallView EXCEPT ![c] = r] /\ CallView[c] = None /\ StoreView' = StoreView
    BY <1>w, <2>4, <2>5, CallStep, CallIs, StoreSame
  <2>7. bank!Invoke(c)
    <3> HIDE DEF CallView, StoreView
    <3> QED
      BY <2>6 DEF bank!Invoke
  <2> QED
    BY <2>7 DEF bank!Next
<1>3. CASE ReceiveReply(c)
  <2>1. /\ cpc[c] = "wait" /\ c2s' = c2s /\ s2c[c] # <<>> /\ s2c'[c] = Tail(s2c[c])
    BY <1>t, <1>3 DEF ReceiveReply
  <2>2. PICK a \in Response : s2c[c] = <<a>> /\ ~Busy(c) /\ c2s[c] = <<>>
    BY <1>w, <2>1 DEF Session
  <2>3. s2c'[c] = <<>> /\ Head(s2c[c]) = a
    BY <2>1, <2>2, TupleFacts
  <2>4. CallAt(c) = a /\ CallAt(c)' = None
    BY <1>w, <2>1, <2>2, <2>3 DEF CallAt, Busy
  <2> QED
    BY <1>w, <2>4, Returns DEF bank!Next
<1>4. CASE TypeQuit(c)
  <2>1. cpc[c] = "idle" /\ s2c' = s2c /\ c2s'[c] = c2s[c] \o <<Quit, Eof>>
    BY <1>t, <1>4 DEF TypeQuit
  <2>2. c2s[c] = <<>> /\ s2c[c] = <<>> /\ ~Busy(c) /\ c2s'[c] = <<Quit, Eof>>
    BY <1>w, <2>1, TupleFacts DEF Session
  <2>3. Head(c2s'[c]).op \notin Ops
    BY <2>2, TupleFacts, CommandFacts DEF Ops
  <2>4. CallAt(c)' = CallAt(c)
    BY <1>w, <2>1, <2>2, <2>3 DEF CallAt, Busy
  <2> QED
    BY <1>w, <2>4, Stutter
<1>5. CASE Die(c)
  <2>1. /\ cpc[c] \in {"idle", "wait"} /\ s2c'[c] = <<>> /\ c2s'[c] = Append(c2s[c], Eof)
    BY <1>t, <1>5 DEF Die
  <2>2. CASE s2c[c] # <<>>
    <3>1. PICK a \in Response : s2c[c] = <<a>> /\ ~Busy(c) /\ c2s[c] = <<>>
      BY <1>w, <2>1, <2>2 DEF Session
    <3>2. Head(s2c[c]) = a /\ c2s'[c] = <<Eof>> /\ Head(c2s'[c]) = Eof
      BY <2>1, <3>1, TupleFacts
    <3>3. Eof.op \notin Ops
      BY CommandFacts DEF Ops
    <3>4. CallAt(c) = a /\ CallAt(c)' = None
      BY <1>w, <2>1, <2>2, <3>1, <3>2, <3>3 DEF CallAt, Busy
    <3> QED
      BY <1>w, <3>4, Returns DEF bank!Next
  <2>3. CASE s2c[c] = <<>> /\ c2s[c] = <<>>
    <3>1. c2s'[c] = <<Eof>> /\ Head(c2s'[c]) = Eof /\ Eof.op \notin Ops
      BY <2>1, <2>3, TupleFacts, CommandFacts DEF Ops
    <3>2. CallAt(c)' = CallAt(c)
      BY <1>w, <2>1, <2>3, <3>1 DEF CallAt
    <3> QED
      BY <1>w, <3>2, Stutter
  <2>4. CASE s2c[c] = <<>> /\ c2s[c] # <<>>
    <3>1. PICK r \in Request : c2s[c] = <<r>>
      BY <1>w, <2>1, <2>4 DEF Session
    <3>2. c2s'[c] = <<r, Eof>>
      BY <2>1, <3>1, TupleFacts
    <3>3. Head(c2s'[c]) = r /\ Head(c2s[c]) = r /\ c2s'[c] # <<>> /\ r.op \in Ops
      BY <3>1, <3>2, TupleFacts, CommandFacts
    <3>4. CallAt(c)' = CallAt(c)
      BY <1>w, <2>1, <2>4, <3>3 DEF CallAt
    <3> QED
      BY <1>w, <3>4, Stutter
  <2> QED
    BY <2>2, <2>3, <2>4
<1> QED
  BY <1>1, <1>2, <1>3, <1>4, <1>5 DEF Client

(* A command that has its slot takes effect.                               *)
LEMMA WriteMaps ==
  ASSUME TypeOK, TypeOK', Handover, UniqueIds, UniqueIds', ScanStillTrue, Sessions, NEW c \in Clients,
         AddRecord(c) \/ DeleteRecord(c) \/ UpdateRecord(c)
  PROVE  bank!Add(c) \/ bank!Delete(c) \/ bank!Update(c)
<1>t. /\ wpc \in [Clients -> ThreadSteps] /\ resp \in [Clients -> Response]
      /\ req \in [Clients -> Request] /\ db \in [Slots -> Record]
      /\ cpc \in [Clients -> {"start", "idle", "wait", "closed"}]
  BY DEF TypeOK
<1>c. Thread(c)
  BY DEF Thread, Serve
<1>w. /\ wpc[c] = "write" /\ wpc'[c] = "unlock" /\ UNCHANGED <<cpc, c2s, s2c, req>>
  BY <1>t DEF AddRecord, DeleteRecord, UpdateRecord, At, Goto, outside, clientVars
<1>s. s2c[c] = <<>>
  BY <1>t, <1>w DEF Sessions, Session, Busy
<1> DEFINE r == req[c]
<1>r. r \in Request /\ r.id \in Ids /\ r.val \in Values
  BY <1>t DEF Request
<1>f. StoreFacts /\ StoreFacts'
  <2>1. (TypeOK /\ UniqueIds => StoreFacts)'
    BY StoreIs, PTL
  <2> QED
    BY <2>1, StoreIs
<1>1. CallAt(c) = r /\ CallAt(c)' = resp'[c]
  BY <1>w, <1>s DEF CallAt
<1>2. CallView[c] = r /\ CallView' = [CallView EXCEPT ![c] = resp'[c]]
  BY <1>1, <1>c, CallIs, CallStep
<1>3. /\ bank!Recorded = {db[s].id : s \in Active}
      /\ Cardinality(bank!Recorded) = MaxRecords <=> Free = {}
      /\ Cardinality(bank!Recorded) < MaxRecords <=> Free # {}
  BY RecordedIs, RecordedCount
<1>4. IF pos[c] = 0 THEN r.id \notin bank!Recorded
      ELSE pos[c] \in Active /\ db[pos[c]].id = r.id /\ r.id \in bank!Recorded
  <2>1. IF pos[c] = 0 THEN ActiveWith(r.id) = {} ELSE pos[c] \in ActiveWith(r.id)
    BY <1>w DEF ScanStillTrue
  <2> QED
    BY <1>3, <2>1 DEF ActiveWith, Active
<1>n. \A S : bank!Cardinality(S) = Cardinality(S)
  BY SameVocabulary
<1>a. bank!Request = Request /\ \A tag : bank!Answer(tag) = Answer(tag)
  BY SameVocabulary
<1>5. CASE AddRecord(c)
  <2>0. r.op = "ADD"
    BY <1>5 DEF AddRecord
  <2>1. CASE pos[c] # 0 /\ resp'[c] = Answer("EXISTS") /\ db' = db
    <3>1. StoreView' = StoreView
      BY <2>1, StoreSame
    <3> HIDE DEF r, StoreView, CallView
    <3> QED
      BY <1>r, <1>2, <1>4, <1>a, <2>0, <2>1, <3>1 DEF bank!Add, bank!Asked, bank!Reply
  <2>2. CASE pos[c] = 0 /\ Free = {} /\ resp'[c] = Answer("FULL") /\ db' = db
    <3>1. StoreView' = StoreView
      BY <2>2, StoreSame
    <3> HIDE DEF r, StoreView, CallView
    <3> QED
      BY <1>r, <1>2, <1>3, <1>4, <1>a, <1>n, <2>0, <2>2, <3>1 DEF bank!Add, bank!Asked, bank!Reply
  <2>3. CASE /\ pos[c] = 0 /\ Free # {} /\ resp'[c] = Answer("ADDED")
             /\ db' = [db EXCEPT ![First(Free)] = Slot(r.id, r.val, TRUE)]
    <3>1. First(Free) \in Free
      BY <2>3, FirstIsMember DEF Free
    <3>2. StoreView' = [StoreView EXCEPT ![r.id] = r.val]
      <4>1. PICK i \in Ids, v \in Values : i = r.id /\ v = r.val
        BY <1>r
      <4>2. PICK f \in Free : f = First(Free)
        BY <3>1
      <4>3. db' = [db EXCEPT ![f] = Slot(i, v, TRUE)]
        BY <2>3, <4>1, <4>2
      <4>4. StoreView' = [StoreView EXCEPT ![i] = v]
        BY <1>t, <1>f, <4>3, StoreAdded
      <4> QED
        BY <4>1, <4>4
    <3> HIDE DEF r, StoreView, CallView
    <3> QED
      BY <1>r, <1>2, <1>3, <1>4, <1>a, <1>n, <2>0, <2>3, <3>2 DEF bank!Add, bank!Asked, bank!Reply
  <2> QED
    BY <1>5, <1>t, <2>1, <2>2, <2>3 DEF AddRecord, Respond
<1>6. CASE DeleteRecord(c)
  <2>0. r.op = "DELETE"
    BY <1>6 DEF DeleteRecord
  <2>1. CASE pos[c] = 0 /\ resp'[c] = Answer("NOTFOUND") /\ db' = db
    <3>1. StoreView' = StoreView
      BY <2>1, StoreSame
    <3> HIDE DEF r, StoreView, CallView
    <3> QED
      BY <1>r, <1>2, <1>4, <1>a, <2>0, <2>1, <3>1 DEF bank!Delete, bank!Change, bank!Asked, bank!Reply
  <2>2. CASE /\ pos[c] # 0 /\ resp'[c] = Answer("DELETED")
             /\ db' = [db EXCEPT ![pos[c]] = Slot(@.id, @.val, FALSE)]
    <3>1. StoreView' = [StoreView EXCEPT ![r.id] = None]
      BY <1>t, <1>f, <1>4, <2>2, StoreDeleted
    <3> HIDE DEF r, StoreView, CallView
    <3> QED
      BY <1>r, <1>2, <1>4, <1>a, <2>0, <2>2, <3>1 DEF bank!Delete, bank!Change, bank!Asked, bank!Reply
  <2> QED
    BY <1>6, <1>t, <2>1, <2>2 DEF DeleteRecord, Respond
<1>7. CASE UpdateRecord(c)
  <2>0. r.op = "UPDATE"
    BY <1>7 DEF UpdateRecord
  <2>1. CASE pos[c] = 0 /\ resp'[c] = Answer("NOTFOUND") /\ db' = db
    <3>1. StoreView' = StoreView
      BY <2>1, StoreSame
    <3> HIDE DEF r, StoreView, CallView
    <3> QED
      BY <1>r, <1>2, <1>4, <1>a, <2>0, <2>1, <3>1 DEF bank!Update, bank!Change, bank!Asked, bank!Reply
  <2>2. CASE /\ pos[c] # 0 /\ resp'[c] = Answer("UPDATED")
             /\ db' = [db EXCEPT ![pos[c]] = Slot(@.id, r.val, @.active)]
    <3>1. StoreView' = [StoreView EXCEPT ![r.id] = r.val]
      <4>1. PICK v \in Values : v = r.val
        BY <1>r
      <4>2. PICK p \in Active : p = pos[c] /\ db[p].id = r.id
        BY <1>4, <2>2
      <4>3. db' = [db EXCEPT ![p] = Slot(@.id, v, @.active)]
        BY <2>2, <4>1, <4>2
      <4>4. StoreView' = [StoreView EXCEPT ![db[p].id] = v]
        BY <1>t, <1>f, <4>3, StoreUpdated
      <4> QED
        BY <4>1, <4>2, <4>4
    <3> HIDE DEF r, StoreView, CallView
    <3> QED
      BY <1>r, <1>2, <1>4, <1>a, <2>0, <2>2, <3>1 DEF bank!Update, bank!Change, bank!Asked, bank!Reply
  <2> QED
    BY <1>7, <1>t, <2>1, <2>2 DEF UpdateRecord, Respond
<1> QED
  BY <1>5, <1>6, <1>7

(* A LIST takes effect when its loop ends.                                 *)
LEMMA ListMaps ==
  ASSUME TypeOK, TypeOK', Handover, UniqueIds, Sessions, Listings, NEW c \in Clients, ListRow(c)
  PROVE  bank!List(c) \/ UNCHANGED bank!vars
<1>t. /\ wpc \in [Clients -> ThreadSteps] /\ req \in [Clients -> Request]
      /\ cpc \in [Clients -> {"start", "idle", "wait", "closed"}] /\ resp' \in [Clients -> Response]
  BY DEF TypeOK
<1>c. Thread(c)
  BY DEF Thread, Serve
<1>1. /\ pos[c] \in Slots /\ wpc[c] = "list" /\ req[c].op = "LIST"
      /\ Gathered(resp'[c], used'[c], Seen(pos[c] + 1))
  BY RowStep DEF Listings
<1>2. /\ UNCHANGED <<cpc, c2s, s2c, req, db>>
      /\ wpc'[c] = IF pos[c] = MaxRecords THEN "unlock" ELSE "list"
  BY <1>t DEF ListRow, Goto, outside, clientVars
<1>3. s2c[c] = <<>>
  BY <1>t, <1>1 DEF Sessions, Session, Busy
<1>4. CASE pos[c] # MaxRecords
  <2>1. CallAt(c)' = CallAt(c)
    BY <1>1, <1>2, <1>3, <1>4 DEF CallAt
  <2> QED
    BY <1>2, <1>c, <2>1, Stutter
<1>5. CASE pos[c] = MaxRecords
  <2>1. bank!Rows = Seen(pos[c] + 1)
    <3>1. {t \in Active : t < pos[c] + 1} = Active
      BY <1>5, MaxRecordsAssumption DEF Active, Slots
    <3> QED
      BY <3>1, RecordedIs DEF Seen
  <2> DEFINE rows == resp'[c].rows
  <2>2. bank!RowsLength(rows) = Length(rows)
    BY RowsLengthIs
  <2>3. /\ rows \in SUBSET bank!Rows
        /\ rows # {} => bank!RowsLength(rows) < Room
        /\ \A r \in bank!Rows \ rows : bank!RowsLength(rows) + RowLen[r[2]] >= Room
        /\ resp'[c].tag = IF bank!Rows = {} THEN "EMPTY" ELSE "LIST"
    <3>1. Gathered(resp'[c], used'[c], bank!Rows)
      BY <1>1, <2>1
    <3> HIDE DEF Length
    <3> QED
      BY <2>2, <3>1 DEF Gathered
  <2>4. CallAt(c) = req[c] /\ CallAt(c)' = resp'[c]
    BY <1>1, <1>2, <1>3, <1>5 DEF CallAt
  <2>5. CallView[c] = req[c] /\ CallView' = [CallView EXCEPT ![c] = resp'[c]]
    BY <1>c, <2>4, CallIs, CallStep
  <2>6. resp'[c] = [tag |-> resp'[c].tag, rows |-> resp'[c].rows] /\ req[c] \in Request
    BY <1>t DEF Response
  <2>7. StoreView' = StoreView /\ bank!Request = Request
    BY <1>2, StoreSame, SameVocabulary
  <2>8. resp'[c] = [tag |-> IF bank!Rows = {} THEN "EMPTY" ELSE "LIST", rows |-> rows]
    BY <2>3, <2>6
  <2> HIDE DEF rows, StoreView, CallView
  <2>9. bank!Asked(c, "LIST")
    BY <1>1, <2>5, <2>6, <2>7 DEF bank!Asked
  <2>10. bank!Reply(c, [tag |-> IF bank!Rows = {} THEN "EMPTY" ELSE "LIST", rows |-> rows])
    BY <2>5, <2>8 DEF bank!Reply
  <2> QED
    BY <2>3, <2>7, <2>9, <2>10 DEF bank!List
<1> QED
  BY <1>4, <1>5

(* A step of a thread: a command takes effect, an answer is lost, or       *)
(* nothing that a terminal sees.                                           *)
LEMMA ThreadMaps ==
  ASSUME TypeOK, TypeOK', Handover, UniqueIds, UniqueIds', ScanStillTrue, Sessions, Sessions', Listings,
         NEW c \in Clients, Thread(c)
  PROVE  [bank!Next]_(bank!vars)
<1>t. /\ c2s \in [Clients -> Seq(Message)] /\ s2c \in [Clients -> Seq(Response)]
      /\ wpc \in [Clients -> ThreadSteps] /\ cpc \in [Clients -> {"start", "idle", "wait", "closed"}]
      /\ resp \in [Clients -> Response] /\ req \in [Clients -> Request]
  BY DEF TypeOK
<1>w. cpc' = cpc /\ Session(c) /\ Session(c)'
  BY ThreadFrame DEF Sessions
<1>1. CASE Recv(c)
  <2>o. OwnRecv(c)
    BY <1>1, RecvOwn
  <2>1. /\ wpc[c] = "recv" /\ s2c' = s2c /\ c2s[c] # <<>> /\ c2s'[c] = Tail(c2s[c]) /\ db' = db
    BY <1>t, <2>o DEF OwnRecv, At
  <2>2. s2c[c] = <<>>
    BY <1>t, <1>w, <2>1 DEF Session, Busy
  <2> DEFINE m == Head(c2s[c])
  <2>3. m \in Message
    BY <1>t, <2>1
  <2>4. CASE m.op \in {"QUIT", "EOF"} /\ wpc'[c] = "post"
    <3>1. c2s'[c] = <<>> \/ Head(c2s'[c]).op \notin Ops
      <4>1. CASE c2s[c] = <<Eof>>
        BY <2>1, <4>1, TupleFacts
      <4>2. CASE c2s[c] = <<Quit, Eof>>
        <5>1. c2s'[c] = <<Eof>>
          BY <2>1, <4>2, TupleFacts
        <5> QED
          BY <5>1, TupleFacts, CommandFacts DEF Ops
      <4>3. \A r \in Request : c2s[c] # <<r>> /\ c2s[c] # <<r, Eof>>
        <5> SUFFICES ASSUME NEW r \in Request, c2s[c] = <<r>> \/ c2s[c] = <<r, Eof>> PROVE FALSE
          OBVIOUS
        <5>1. m = r
          BY TupleFacts
        <5> QED
          BY <2>4, <5>1, CommandFacts DEF Ops
      <4> QED
        BY <1>t, <1>w, <2>1, <2>2, <4>1, <4>2, <4>3 DEF Session, Busy
    <3>2. CallAt(c)' = None /\ CallAt(c) = None
      BY <2>1, <2>2, <2>4, <3>1 DEF CallAt, Ops
    <3> QED
      BY <1>1, <2>1, <3>2, Stutter DEF Thread
  <2>5. CASE m.op = "BAD" /\ wpc'[c] = "send" /\ resp'[c] = Answer("INVALID")
    <3>1. CallAt(c) = m /\ CallAt(c)' = Answer("INVALID")
      BY <2>1, <2>2, <2>5 DEF CallAt, Ops
    <3>2. m \in Request
      BY <2>3, <2>5, CommandFacts DEF Message
    <3>3. CallView[c] = m /\ CallView' = [CallView EXCEPT ![c] = Answer("INVALID")]
      BY <1>1, <3>1, CallIs, CallStep DEF Thread
    <3>4. StoreView' = StoreView
      BY <2>1, StoreSame
    <3>5. bank!Reject(c)
      <4> HIDE DEF m, StoreView, CallView
      <4> QED
        BY <2>5, <3>2, <3>3, <3>4, SameVocabulary DEF bank!Reject, bank!Asked, bank!Reply
    <3> QED
      BY <3>5 DEF bank!Next
  <2>6. CASE m.op \in Ops \ {"BAD"} /\ wpc'[c] = "lock" /\ req'[c] = m
    <3>1. CallAt(c) = m /\ CallAt(c)' = m
      BY <2>1, <2>2, <2>6 DEF CallAt
    <3> QED
      BY <1>1, <2>1, <3>1, Stutter DEF Thread
  <2> QED
    BY <2>o, <1>t, <2>4, <2>5, <2>6 DEF OwnRecv, Goto, Respond
<1>2. CASE DbLock(c) \/ Scan(c)
  <2>1. /\ UNCHANGED <<c2s, s2c, req, db>>
        /\ wpc[c] \in {"lock", "scan"} /\ wpc'[c] \in {"scan", "write", "list"}
    BY <1>2, <1>t DEF DbLock, DbLockRace, Scan, At, Goto
  <2>2. CallAt(c)' = CallAt(c)
    BY <2>1 DEF CallAt
  <2> QED
    BY <2>1, <2>2, Stutter
<1>3. CASE AddRecord(c) \/ DeleteRecord(c) \/ UpdateRecord(c)
  BY <1>3, WriteMaps DEF bank!Next
<1>4. CASE ListRow(c)
  BY <1>4, ListMaps DEF bank!Next
<1>5. CASE DbUnlock(c)
  <2>1. UNCHANGED <<c2s, s2c, resp, db>> /\ wpc[c] = "unlock" /\ wpc'[c] = "send"
    BY <1>5, <1>t DEF DbUnlock, At, Goto, locals
  <2>2. CallAt(c)' = CallAt(c)
    BY <2>1 DEF CallAt
  <2> QED
    BY <2>1, <2>2, Stutter
<1>6. CASE Send(c)
  <2>o. OwnSend(c)
    BY <1>6, SendOwn
  <2>1. /\ wpc[c] = "send" /\ wpc'[c] = "recv" /\ c2s' = c2s /\ db' = db
        /\ s2c' = IF cpc[c] = "closed" THEN s2c ELSE [s2c EXCEPT ![c] = Append(@, resp[c])]
    BY <2>o, <1>t DEF OwnSend, At, Goto
  <2>2. s2c[c] = <<>>
    BY <1>t, <1>w, <2>1 DEF Session, Busy
  <2>3. CallAt(c) = resp[c] /\ resp[c] \in Response
    BY <1>t, <2>1, <2>2 DEF CallAt
  <2>4. CASE cpc[c] = "closed"
    <3>1. c2s[c] = <<Eof>>
      BY <1>w, <2>1, <2>4 DEF Session, Busy
    <3>2. Head(c2s'[c]).op \notin Ops
      BY <2>1, <3>1, TupleFacts, CommandFacts DEF Ops
    <3>3. CallAt(c)' = None
      BY <2>1, <2>2, <2>4, <3>2 DEF CallAt
    <3> QED
      BY <1>6, <2>1, <2>3, <3>3, Returns DEF bank!Next, Thread, Serve
  <2>5. CASE cpc[c] # "closed"
    <3>1. s2c'[c] = <<resp[c]>>
      BY <1>t, <2>1, <2>2, <2>5, TupleFacts
    <3>2. CallAt(c)' = resp[c]
      BY <3>1, TupleFacts DEF CallAt
    <3> QED
      BY <1>6, <2>1, <2>3, <3>2, Stutter DEF Thread, Serve
  <2> QED
    BY <2>4, <2>5
<1>7. CASE SemPost(c)
  <2>1. UNCHANGED <<c2s, s2c, db>> /\ wpc[c] = "post" /\ wpc'[c] = "done"
    BY <1>7, <1>t DEF SemPost, At, Goto
  <2>2. CallAt(c)' = CallAt(c)
    BY <2>1 DEF CallAt
  <2> QED
    BY <2>1, <2>2, Stutter
<1>8. CASE Start(c)
  <2>1. UNCHANGED <<c2s, s2c, db>> /\ wpc[c] = "start" /\ wpc'[c] = "recv"
    BY <1>8, <1>t DEF Start, At, Goto
  <2>2. CallAt(c)' = CallAt(c)
    BY <2>1 DEF CallAt
  <2> QED
    BY <2>1, <2>2, Stutter
<1> QED
  BY <1>1, <1>2, <1>3, <1>4, <1>5, <1>6, <1>7, <1>8 DEF Thread, Serve

(* Every step of the program is a step of the bank, or none.               *)
LEMMA StepMaps ==
  /\ TypeOK /\ TypeOK' /\ Handover /\ UniqueIds /\ UniqueIds' /\ ScanStillTrue
  /\ Sessions /\ Sessions' /\ Listings /\ [Next]_vars
  => [bank!Next]_(bank!vars)
<1> SUFFICES ASSUME TypeOK, TypeOK', Handover, UniqueIds, UniqueIds', ScanStillTrue,
                    Sessions, Sessions', Listings, [Next]_vars
             PROVE  [bank!Next]_(bank!vars)
  OBVIOUS
<1>1. ASSUME NEW c \in Clients, Client(c) PROVE [bank!Next]_(bank!vars)
  BY <1>1, ClientMaps
<1>2. ASSUME NEW c \in Clients, Thread(c) PROVE [bank!Next]_(bank!vars)
  BY <1>2, ThreadMaps
<1>3. CASE Main \/ UNCHANGED vars
  <2>1. /\ UNCHANGED <<c2s, s2c, req, resp, db>>
        /\ \A c \in Clients : \/ wpc'[c] = wpc[c]
                              \/ wpc[c] = "none" /\ wpc'[c] \in {"start", "lost"}
    BY <1>3, MainSame DEF vars, locals
  <2>2. \A c \in Clients : CallAt(c)' = CallAt(c)
    BY <2>1 DEF CallAt
  <2>3. CallView' = [c \in Clients |-> CallAt(c)'] /\ CallView = [c \in Clients |-> CallAt(c)]
    BY CallIs DEF CallView, CallAt
  <2>4. CallView' = CallView
    <3> HIDE DEF CallAt, CallView
    <3> QED
      BY <2>2, <2>3, Zenon
  <2> QED
    BY <2>1, <2>4, StoreSame DEF bank!vars
<1> QED
  BY <1>1, <1>2, <1>3 DEF Next

(* The bank starts empty.                                                  *)
LEMMA InitMaps == Init => bank!Init
<1> SUFFICES ASSUME Init PROVE bank!Init
  OBVIOUS
<1>1. \A i \in Ids : ActiveWith(i) = {}
  BY DEF Init, ActiveWith, Slot
<1>2. StoreView = [i \in Ids |-> None]
  BY <1>1 DEF StoreView
<1>3. CallView = [c \in Clients |-> None]
  BY DEF Init, CallView
<1> QED
  BY <1>2, <1>3 DEF bank!Init

(* The server is linearizable: whatever the number of terminals, slots,    *)
(* ids and commands, and however their threads interleave, each command    *)
(* takes effect at one instant, on one table, as the bank promises, and a  *)
(* LIST leaves rows out only when they do not all fit.                     *)
THEOREM BankImplemented == Spec => ImplementsBank
<1>1. Spec => []Sessions
  <2>1. Init => Sessions
    BY SessionInit
  <2>2. TypeOK /\ Handover /\ Sessions /\ [Next]_vars => Sessions'
    BY SessionStep
  <2> QED
    BY <2>1, <2>2, TypeCorrect, HandoverCorrect, PTL DEF Spec
<1>2. Spec => []Listings
  <2>1. Init => Listings
    BY ListingInit
  <2>2. TypeOK /\ Handover /\ UniqueIds /\ ScanStillTrue /\ Listings /\ [Next]_vars => Listings'
    BY ListingStep
  <2> QED
    BY <2>1, <2>2, TypeCorrect, HandoverCorrect, UniqueIdsCorrect, ScanCorrect, PTL DEF Spec
<1> QED
  BY <1>1, <1>2, InitMaps, StepMaps, TypeCorrect, HandoverCorrect, UniqueIdsCorrect, ScanCorrect,
     PTL DEF Spec, ImplementsBank, bank!Spec
=============================================================================
