----------------------------- MODULE BankServer -----------------------------
(***************************************************************************)
(* The bank of hands-on 14: ho14/server.c with its clients, ho14/client.c. *)
(*                                                                         *)
(* main takes a token of thread_limiter, accepts a connection and hands it *)
(* to a new detached thread; the thread serves that one terminal, one      *)
(* command at a time, until QUIT or end of stream, and gives the token     *)
(* back.  The threads share the slot array db under db_lock.  A thread is  *)
(* named by the connection it was created for; the socket it reads is what *)
(* it finds at the address it was given.                                   *)
(*                                                                         *)
(* Bounds that the program does not have: MaxOps commands per client, and  *)
(* MaxFaults failures of accept or pthread_create.                         *)
(***************************************************************************)
EXTENDS BankTypes, Sequences

CONSTANTS MaxNum,       \* MAX_NUM, the tokens of thread_limiter
          Backlog,      \* the queue of listen(): MAX_NUM as well
          MaxOps,       \* bound: commands a client types
          MaxFaults,    \* bound: failed calls of accept and pthread_create
          FaultKinds    \* the calls that may fail, of {"accept", "create"}

ASSUME BoundsAssumption ==
    MaxNum \in Nat /\ Backlog \in Nat /\ MaxOps \in Nat /\ MaxFaults \in Nat

VARIABLES
    cpc,      \* the client program: "start", "idle", "wait", "closed"
    typed,    \* commands typed so far
    c2s, s2c, \* the two directions of each connection
    backlog,  \* connections completed by the kernel and not yet accepted
    mpc, cur, \* main: its step, and client_sock from accept to pthread_create
    new_sock, \* per thread: the integer its argument points to
    sock,     \* per thread: its own client_sock
    tokens,   \* the value of thread_limiter
    faults,   \* calls that have failed
    wpc,      \* the thread of each connection
    req, pos, used, resp,   \* its locals: command, scan position, strlen, response
    db, lock  \* the table and the holder of db_lock

clientVars == <<cpc, typed>>
handed == <<new_sock, sock>>
mainVars == <<mpc, cur, faults, backlog, handed>>
locals == <<req, pos, used, resp>>
vars == <<clientVars, c2s, s2c, mainVars, tokens, wpc, locals, db, lock>>

Slots == 1..MaxRecords
Record == [id : Ids, val : Values, active : BOOLEAN]
Slot(id, val, active) == [id |-> id, val |-> val, active |-> active]
Quit == [op |-> "QUIT"]
Eof == [op |-> "EOF"]
Message == Request \cup {Quit, Eof}

(* Steps inside the critical section, and steps of a thread that exists.   *)
Critical == {"scan", "write", "list", "unlock"}
Serving == {"recv", "lock", "send", "post"} \cup Critical
Running == {"start"} \cup Serving
(* "lost": pthread_create failed, nobody will serve or close the socket.   *)
ThreadSteps == Running \cup {"none", "lost", "done"}

TypeOK ==
    /\ cpc \in [Clients -> {"start", "idle", "wait", "closed"}]
    /\ typed \in [Clients -> 0..MaxOps]
    /\ c2s \in [Clients -> Seq(Message)]
    /\ s2c \in [Clients -> Seq(Response)]
    /\ backlog \in Seq(Clients)
    /\ mpc \in {"wait", "accept", "create"}
    /\ cur \in Clients \cup {None}
    /\ (mpc = "create") => cur \in Clients
    /\ new_sock \in [Clients -> Clients \cup {None}]
    /\ sock \in [Clients -> Clients \cup {None}]
    /\ tokens \in Nat
    /\ faults \in 0..MaxFaults
    /\ wpc \in [Clients -> ThreadSteps]
    /\ req \in [Clients -> Request]
    /\ pos \in [Clients -> 0..(MaxRecords + 1)]
    /\ used \in [Clients -> Nat]
    /\ resp \in [Clients -> Response]
    /\ db \in [Slots -> Record]
    /\ lock \in Clients \cup {None}

Init == /\ cpc = [c \in Clients |-> "start"]
        /\ typed = [c \in Clients |-> 0]
        /\ c2s = [c \in Clients |-> <<>>]
        /\ s2c = [c \in Clients |-> <<>>]
        /\ backlog = <<>>
        /\ mpc = "wait" /\ cur = None
        /\ new_sock = [c \in Clients |-> None]
        /\ sock = [c \in Clients |-> None]
        /\ tokens = MaxNum
        /\ faults = 0
        /\ wpc = [c \in Clients |-> "none"]
        /\ req = [c \in Clients |-> CHOOSE r \in Request : TRUE]
        /\ pos = [c \in Clients |-> 0]
        /\ used = [c \in Clients |-> 0]
        /\ resp = [c \in Clients |-> Answer("INVALID")]
        /\ db = [s \in Slots |-> Slot(CHOOSE i \in Ids : TRUE, CHOOSE v \in Values : TRUE, FALSE)]
        /\ lock = None

-----------------------------------------------------------------------------
(* The client.                                                             *)

serverSide == <<mainVars, tokens, wpc, locals, db, lock>>

Connect(c) == /\ cpc[c] = "start"
              /\ Len(backlog) < Backlog
              /\ cpc' = [cpc EXCEPT ![c] = "idle"]
              /\ backlog' = Append(backlog, c)
              /\ UNCHANGED <<typed, c2s, s2c, mpc, cur, handed, faults, tokens, wpc, locals, db, lock>>

SendRequest(c) == /\ cpc[c] = "idle"
                  /\ typed[c] < MaxOps
                  /\ \E r \in Requests : c2s' = [c2s EXCEPT ![c] = Append(@, r)]
                  /\ typed' = [typed EXCEPT ![c] = @ + 1]
                  /\ cpc' = [cpc EXCEPT ![c] = "wait"]
                  /\ UNCHANGED <<s2c, serverSide>>

ReceiveReply(c) == /\ cpc[c] = "wait"
                   /\ s2c[c] # <<>>
                   /\ s2c' = [s2c EXCEPT ![c] = Tail(@)]
                   /\ cpc' = [cpc EXCEPT ![c] = "idle"]
                   /\ UNCHANGED <<typed, c2s, serverSide>>

TypeQuit(c) == /\ cpc[c] = "idle"
               /\ c2s' = [c2s EXCEPT ![c] = @ \o <<Quit, Eof>>]
               /\ cpc' = [cpc EXCEPT ![c] = "closed"]
               /\ UNCHANGED <<typed, s2c, serverSide>>

(* Standard input ends at the prompt, or the process is killed anywhere:   *)
(* the kernel closes the connection and unread answers are dropped.        *)
Die(c) == /\ cpc[c] \in {"idle", "wait"}
          /\ c2s' = [c2s EXCEPT ![c] = Append(@, Eof)]
          /\ s2c' = [s2c EXCEPT ![c] = <<>>]
          /\ cpc' = [cpc EXCEPT ![c] = "closed"]
          /\ UNCHANGED <<typed, serverSide>>

Client(c) == Connect(c) \/ SendRequest(c) \/ ReceiveReply(c) \/ TypeQuit(c) \/ Die(c)

-----------------------------------------------------------------------------
(* main: token, accept, thread.                                            *)

connections == <<clientVars, c2s, s2c>>
workers == <<locals, db, lock>>

(* Mutation: a trywait whose result is not looked at.                       *)
SemTryWait == /\ mpc = "wait"
              /\ tokens' = tokens - 1
              /\ mpc' = "accept"
              /\ UNCHANGED <<connections, cur, handed, faults, backlog, wpc, workers>>

SemWait == /\ mpc = "wait"
           /\ tokens > 0
           /\ tokens' = tokens - 1
           /\ mpc' = "accept"
           /\ UNCHANGED <<connections, cur, handed, faults, backlog, wpc, workers>>

AcceptConnection == /\ mpc = "accept"
                    /\ backlog # <<>>
                    /\ cur' = Head(backlog)
                    /\ backlog' = Tail(backlog)
                    /\ mpc' = "create"
                    /\ UNCHANGED <<connections, handed, faults, tokens, wpc, workers>>

MayFail(call) == call \in FaultKinds /\ faults < MaxFaults

(* Mutation: no sem_post when accept fails.                                *)
AcceptErrorLeak == /\ mpc = "accept"
                   /\ MayFail("accept")
                   /\ faults' = faults + 1
                   /\ mpc' = "wait"
                   /\ UNCHANGED <<connections, cur, handed, backlog, tokens, wpc, workers>>

AcceptError == /\ mpc = "accept"
               /\ MayFail("accept")
               /\ faults' = faults + 1
               /\ tokens' = tokens + 1
               /\ mpc' = "wait"
               /\ UNCHANGED <<connections, cur, handed, backlog, wpc, workers>>

(* The thread is given the address of a copy made for it alone.            *)
CreateThread == /\ mpc = "create"
                /\ new_sock' = [new_sock EXCEPT ![cur] = cur]
                /\ wpc' = [wpc EXCEPT ![cur] = "start"]
                /\ mpc' = "wait" /\ cur' = None
                /\ UNCHANGED <<connections, sock, faults, backlog, tokens, workers>>

(* The result of pthread_create is not looked at: with no thread, nobody   *)
(* reads the socket and nobody posts its token.  (pthread_detach is then   *)
(* called on a stale or unset thread id; its effect is not modelled.)      *)
CreateFails == /\ mpc = "create"
               /\ MayFail("create")
               /\ faults' = faults + 1
               /\ wpc' = [wpc EXCEPT ![cur] = "lost"]
               /\ mpc' = "wait" /\ cur' = None
               /\ UNCHANGED <<connections, handed, backlog, tokens, workers>>

Main == SemWait \/ AcceptConnection \/ AcceptError \/ CreateThread \/ CreateFails

-----------------------------------------------------------------------------
(* handle_client and process_request: the thread made for connection c.    *)

At(c, step) == wpc[c] = step
Goto(c, step) == wpc' = [wpc EXCEPT ![c] = step]
Respond(c, tag) == resp' = [resp EXCEPT ![c] = Answer(tag)]

outside == <<clientVars, mainVars>>

(* Mutation: main passes the address of its own client_sock, and the       *)
(* thread looks at it when main has already accepted another connection.   *)
StartShared(c) == /\ At(c, "start")
                  /\ cur # None
                  /\ sock' = [sock EXCEPT ![c] = cur]
                  /\ Goto(c, "recv")
                  /\ UNCHANGED <<clientVars, mpc, cur, new_sock, faults, backlog,
                                 c2s, s2c, tokens, locals, db, lock>>

(* The thread takes its socket from the copy and frees it; by now main may *)
(* have accepted another connection.                                       *)
Start(c) == /\ At(c, "start")
            /\ sock' = [sock EXCEPT ![c] = new_sock[c]]
            /\ new_sock' = [new_sock EXCEPT ![c] = None]
            /\ Goto(c, "recv")
            /\ UNCHANGED <<clientVars, mpc, cur, faults, backlog,
                           c2s, s2c, tokens, locals, db, lock>>

(* The default response is written first; a command that sscanf cannot     *)
(* parse leaves it there and never takes the lock.                         *)
Recv(c) == /\ At(c, "recv")
           /\ c2s[sock[c]] # <<>>
           /\ c2s' = [c2s EXCEPT ![sock[c]] = Tail(@)]
           /\ LET m == Head(c2s[sock[c]]) IN
                \/ /\ m.op \in {"QUIT", "EOF"}
                   /\ Goto(c, "post")
                   /\ UNCHANGED <<req, resp>>
                \/ /\ m.op = "BAD"
                   /\ Goto(c, "send")
                   /\ Respond(c, "INVALID")
                   /\ UNCHANGED req
                \/ /\ m.op \in Ops \ {"BAD"}
                   /\ Goto(c, "lock")
                   /\ req' = [req EXCEPT ![c] = m]
                   /\ Respond(c, "INVALID")
           /\ UNCHANGED <<outside, s2c, tokens, pos, used, db, lock>>

(* process_request from the lock on; alone, it is the mutation that does   *)
(* not wait for db_lock.                                                   *)
DbLockRace(c) == /\ At(c, "lock")
                 /\ lock' = c
                 /\ \/ /\ req[c].op = "LIST"
                       /\ Goto(c, "list")
                       /\ pos' = [pos EXCEPT ![c] = 1]
                       /\ used' = [used EXCEPT ![c] = 0]
                       /\ Respond(c, "EMPTY")
                    \/ /\ req[c].op # "LIST"
                       /\ Goto(c, "scan")
                       /\ UNCHANGED <<pos, used, resp>>
                 /\ UNCHANGED <<outside, c2s, s2c, tokens, req, db>>

DbLock(c) == lock = None /\ DbLockRace(c)

ActiveWith(id) == {s \in Slots : db[s].active /\ db[s].id = id}
First(S) == CHOOSE s \in S : \A t \in S : s <= t
FirstOrZero(S) == IF S = {} THEN 0 ELSE First(S)

(* Mutation: a scan that forgets to look at the active flag.               *)
ScanIgnoresActive(c) == /\ At(c, "scan")
                        /\ pos' = [pos EXCEPT ![c] = FirstOrZero({s \in Slots : db[s].id = req[c].id})]
                        /\ Goto(c, "write")
                        /\ UNCHANGED <<outside, c2s, s2c, tokens, req, used, resp, db, lock>>

(* The loop that looks for an active record with the id: its slot, or 0.   *)
Scan(c) == /\ At(c, "scan")
           /\ pos' = [pos EXCEPT ![c] = FirstOrZero(ActiveWith(req[c].id))]
           /\ Goto(c, "write")
           /\ UNCHANGED <<outside, c2s, s2c, tokens, req, used, resp, db, lock>>

Free == {s \in Slots : ~db[s].active}

AddRecord(c) ==
    /\ At(c, "write") /\ req[c].op = "ADD"
    /\ \/ /\ pos[c] # 0
          /\ Respond(c, "EXISTS")
          /\ UNCHANGED db
       \/ /\ pos[c] = 0 /\ Free = {}
          /\ Respond(c, "FULL")
          /\ UNCHANGED db
       \/ /\ pos[c] = 0 /\ Free # {}
          /\ Respond(c, "ADDED")
          /\ db' = [db EXCEPT ![First(Free)] = Slot(req[c].id, req[c].val, TRUE)]
    /\ Goto(c, "unlock")
    /\ UNCHANGED <<outside, c2s, s2c, tokens, req, pos, used, lock>>

DeleteRecord(c) ==
    /\ At(c, "write") /\ req[c].op = "DELETE"
    /\ \/ /\ pos[c] # 0
          /\ Respond(c, "DELETED")
          /\ db' = [db EXCEPT ![pos[c]] = Slot(@.id, @.val, FALSE)]
       \/ /\ pos[c] = 0
          /\ Respond(c, "NOTFOUND")
          /\ UNCHANGED db
    /\ Goto(c, "unlock")
    /\ UNCHANGED <<outside, c2s, s2c, tokens, req, pos, used, lock>>

UpdateRecord(c) ==
    /\ At(c, "write") /\ req[c].op = "UPDATE"
    /\ \/ /\ pos[c] # 0
          /\ Respond(c, "UPDATED")
          /\ db' = [db EXCEPT ![pos[c]] = Slot(@.id, req[c].val, @.active)]
       \/ /\ pos[c] = 0
          /\ Respond(c, "NOTFOUND")
          /\ UNCHANGED db
    /\ Goto(c, "unlock")
    /\ UNCHANGED <<outside, c2s, s2c, tokens, req, pos, used, lock>>

(* One iteration of the LIST loop.  A row that would take the text to Room *)
(* is left out, and a later, shorter one may still fit.                    *)
ListRow(c) ==
    LET row == db[pos[c]]
        len == used[c] + RowLen[row.val]
        fits == len < Room
    IN  /\ At(c, "list") /\ pos[c] \in Slots
        /\ \/ /\ row.active
              /\ resp' = [resp EXCEPT ![c] =
                            [tag |-> "LIST",
                             rows |-> @.rows \cup (IF fits THEN {<<row.id, row.val>>} ELSE {})]]
              /\ used' = [used EXCEPT ![c] = IF fits THEN len ELSE @]
           \/ /\ ~row.active
              /\ UNCHANGED <<resp, used>>
        /\ pos' = [pos EXCEPT ![c] = @ + 1]
        /\ Goto(c, IF pos[c] = MaxRecords THEN "unlock" ELSE "list")
        /\ UNCHANGED <<outside, c2s, s2c, tokens, req, db, lock>>

(* The four calls of pthread_mutex_unlock; every branch of a command meets *)
(* the one at its end.  Mutation: a duplicate returns without unlocking.   *)
DbUnlockForgotten(c) == /\ At(c, "unlock")
                        /\ lock' = IF resp[c].tag = "EXISTS" THEN lock ELSE None
                        /\ Goto(c, "send")
                        /\ UNCHANGED <<outside, c2s, s2c, tokens, locals, db>>

DbUnlock(c) == /\ At(c, "unlock")
               /\ lock' = None
               /\ Goto(c, "send")
               /\ UNCHANGED <<outside, c2s, s2c, tokens, locals, db>>

(* An answer to a client that has gone is dropped by the kernel.           *)
Send(c) == /\ At(c, "send")
           /\ s2c' = IF cpc[sock[c]] = "closed" THEN s2c
                     ELSE [s2c EXCEPT ![sock[c]] = Append(@, resp[c])]
           /\ Goto(c, "recv")
           /\ UNCHANGED <<outside, c2s, tokens, locals, db, lock>>

(* Mutation: a thread that ends without sem_post.                          *)
SemPostForgotten(c) == /\ At(c, "post")
                       /\ Goto(c, "done")
                       /\ UNCHANGED <<outside, c2s, s2c, tokens, locals, db, lock>>

(* close(client_sock), which no terminal of this program can still see,    *)
(* and sem_post.                                                           *)
SemPost(c) == /\ At(c, "post")
              /\ tokens' = tokens + 1
              /\ Goto(c, "done")
              /\ UNCHANGED <<outside, c2s, s2c, locals, db, lock>>

Serve(c) == \/ DbLock(c) \/ Scan(c) \/ AddRecord(c) \/ DeleteRecord(c) \/ UpdateRecord(c)
            \/ ListRow(c) \/ DbUnlock(c) \/ Send(c)
Thread(c) == Start(c) \/ Recv(c) \/ Serve(c) \/ SemPost(c)

Next == Main \/ \E c \in Clients : Client(c) \/ Thread(c)

(* The system always runs a thread that can run, main included, and shows  *)
(* an answer that has arrived.  Nobody has to connect, type or leave.      *)
Fairness == /\ WF_vars(SemWait) /\ WF_vars(AcceptConnection) /\ WF_vars(CreateThread)
            /\ \A c \in Clients : WF_vars(Thread(c)) /\ WF_vars(ReceiveReply(c))

Spec == Init /\ [][Next]_vars
FairSpec == Spec /\ Fairness

-----------------------------------------------------------------------------
(* Properties.                                                             *)

(* thread_limiter counts exactly the tokens nobody holds: main holds one   *)
(* from sem_wait to the next sem_wait, a thread (or a connection that got  *)
(* no thread) holds one until it posts it.  So never more than MaxNum      *)
(* connections are served, whatever fails.                                 *)
Holding == {c \in Clients : wpc[c] \in Running \cup {"lost"}}
TokenAccounting ==
    tokens + Cardinality(Holding) + (IF mpc = "wait" THEN 0 ELSE 1) = MaxNum

(* A connection is in one place: not yet made, in the accept queue once,   *)
(* in main's hands, or with the thread made for it, which serves that      *)
(* connection and no other, although main goes on to accept the next one   *)
(* before the thread has looked at its argument.                           *)
Queued == {backlog[i] : i \in 1..Len(backlog)}
Handover ==
    /\ \A c \in Clients : cpc[c] = "start" => wpc[c] = "none" /\ c \notin Queued /\ c # cur
    /\ \A c \in Queued : wpc[c] = "none" /\ c # cur
    /\ \A i, j \in 1..Len(backlog) : backlog[i] = backlog[j] => i = j
    /\ IF mpc = "create" THEN wpc[cur] = "none" ELSE cur = None
    /\ \A c \in Clients : wpc[c] = "start" => new_sock[c] = c
    /\ \A c \in Clients : wpc[c] \in Serving => sock[c] = c

(* "non permette transazioni duplici": no two active records of the table  *)
(* have the same id, although slots are freed and reused in any order.     *)
UniqueIds ==
    \A s, t \in Slots : db[s].active /\ db[t].active /\ db[s].id = db[t].id => s = t

(* What a thread knows in its critical section is still true when it acts  *)
(* on it: db_lock has one holder, and the slot its scan returned is the    *)
(* active record with the id, or 0 because there is none.                  *)
ScanStillTrue ==
    /\ \A c \in Clients : wpc[c] \in Critical <=> lock = c
    /\ \A c \in Clients : wpc[c] = "write" =>
          IF pos[c] = 0 THEN ActiveWith(req[c].id) = {} ELSE pos[c] \in ActiveWith(req[c].id)

(* The table and the calls as the terminals see them: a call takes effect  *)
(* when its thread turns the command into an answer.                       *)
StoreView == [i \in Ids |-> IF ActiveWith(i) = {} THEN None ELSE db[First(ActiveWith(i))].val]
CallView == [c \in Clients |->
               IF s2c[c] # <<>> THEN Head(s2c[c])
               ELSE IF wpc[c] \in {"unlock", "send"} THEN resp[c]
               ELSE IF wpc[c] \in {"lock", "scan", "write", "list"} THEN req[c]
               ELSE IF c2s[c] # <<>> /\ Head(c2s[c]).op \in Ops THEN Head(c2s[c])
               ELSE None]
bank == INSTANCE Bank WITH store <- StoreView, call <- CallView

(* Every command of every terminal behaves as if it were executed alone,   *)
(* on one table: the server is linearizable and implements Bank.           *)
ImplementsBank == bank!Spec

(* A terminal that a thread serves gets every answer it waits for,         *)
(* whatever the other terminals do: a thread never blocks another for ever.*)
Answered == \A c \in Clients :
    (cpc[c] = "wait" /\ wpc[c] \in Running) ~> cpc[c] # "wait"

(* If no user stays at the prompt for ever, every terminal that waits for  *)
(* an answer gets it, even when more than MaxNum of them have connected,   *)
(* as long as no thread failed to start.                                   *)
NobodyIdles == \A c \in Clients : []<>(cpc[c] # "idle")
EveryoneServed == NobodyIdles =>
    \A c \in Clients : cpc[c] = "wait" ~> (cpc[c] # "wait" \/ \E d \in Clients : wpc[d] = "lost")

(* "La chiusura dell'innesco client [...] riconsegnando un token libero al *)
(* thread_limiter": once main has let a connection in, the departure of    *)
(* its client brings the token back.                                       *)
TokenComesBack == \A c \in Clients :
    (cpc[c] = "closed" /\ wpc[c] # "none") ~> (wpc[c] = "done")
=============================================================================
