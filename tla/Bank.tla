-------------------------------- MODULE Bank --------------------------------
(***************************************************************************)
(* What the bank promises its terminals: one table of transactions, at     *)
(* most one per id and at most MaxRecords in all, on which every command   *)
(* takes effect at one instant between the moment it is typed and the      *)
(* moment its answer is shown.  BankServer is shown to implement this.     *)
(***************************************************************************)
EXTENDS BankTypes, FiniteSetsExt

VARIABLES store,  \* store[i]: the value recorded under id i, or None
          call    \* call[c]: None, the command c waits on, or its answer

vars == <<store, call>>

Recorded == {i \in Ids : store[i] # None}
Rows == {<<i, store[i]>> : i \in Recorded}
RowsLength(rows) == MapThenSumSet(LAMBDA r : RowLen[r[2]], rows)

TypeOK == /\ store \in [Ids -> Values \cup {None}]
          /\ call \in [Clients -> {None} \cup Request \cup Response]

Init == /\ store = [i \in Ids |-> None]
        /\ call = [c \in Clients |-> None]

Asked(c, op) == call[c] \in Request /\ call[c].op = op
Reply(c, answer) == call' = [call EXCEPT ![c] = answer]

Invoke(c) == /\ call[c] = None
             /\ \E r \in Requests : call' = [call EXCEPT ![c] = r]
             /\ UNCHANGED store

Return(c) == /\ call[c] \in Response
             /\ Reply(c, None)
             /\ UNCHANGED store

Add(c) == /\ Asked(c, "ADD")
          /\ \/ /\ call[c].id \in Recorded
                /\ Reply(c, Answer("EXISTS"))
                /\ UNCHANGED store
             \/ /\ call[c].id \notin Recorded
                /\ Cardinality(Recorded) = MaxRecords
                /\ Reply(c, Answer("FULL"))
                /\ UNCHANGED store
             \/ /\ call[c].id \notin Recorded
                /\ Cardinality(Recorded) < MaxRecords
                /\ Reply(c, Answer("ADDED"))
                /\ store' = [store EXCEPT ![call[c].id] = call[c].val]

Change(c, op, value, tag) ==
    /\ Asked(c, op)
    /\ \/ /\ call[c].id \in Recorded
          /\ Reply(c, Answer(tag))
          /\ store' = [store EXCEPT ![call[c].id] = value]
       \/ /\ call[c].id \notin Recorded
          /\ Reply(c, Answer("NOTFOUND"))
          /\ UNCHANGED store

Delete(c) == Change(c, "DELETE", None, "DELETED")
Update(c) == Change(c, "UPDATE", call[c].val, "UPDATED")

(* The rows of a LIST stay within the room, and a row is left out only     *)
(* when it does not fit beside those that are printed, wherever it comes.  *)
List(c) == /\ Asked(c, "LIST")
           /\ \E rows \in SUBSET Rows :
                 /\ rows # {} => RowsLength(rows) < Room
                 /\ \A r \in Rows \ rows : RowsLength(rows) + RowLen[r[2]] >= Room
                 /\ Reply(c, [tag |-> IF Rows = {} THEN "EMPTY" ELSE "LIST",
                              rows |-> rows])
           /\ UNCHANGED store

Reject(c) == /\ Asked(c, "BAD")
             /\ Reply(c, Answer("INVALID"))
             /\ UNCHANGED store

Next == \E c \in Clients : \/ Invoke(c) \/ Return(c)
                           \/ Add(c) \/ Delete(c) \/ Update(c) \/ List(c) \/ Reject(c)

Spec == Init /\ [][Next]_vars
=============================================================================
