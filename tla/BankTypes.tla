------------------------------ MODULE BankTypes ------------------------------
(***************************************************************************)
(* The vocabulary shared by the bank's promise (Bank) and by the program   *)
(* that keeps it (BankServer): the commands a terminal can type, the       *)
(* answers process_request can write, and the length budget of a LIST.     *)
(***************************************************************************)
EXTENDS Integers, FiniteSets

CONSTANTS Clients,      \* the client processes (ho14/client.c)
          Ids,          \* transaction identifiers
          Values,       \* an (amount, reason) pair, kept as one value
          None,         \* no value, no request, no lock holder
          Requests,     \* the commands the clients type
          MaxRecords,   \* MAX_RECORDS, the slots of db
          RowLen,       \* RowLen[v]: the length of the text of a LIST row
          Room          \* the characters a LIST leaves to its rows

Ops == {"ADD", "DELETE", "UPDATE", "LIST", "BAD"}
Request == [op : Ops, id : Ids, val : Values]

Tags == {"ADDED", "EXISTS", "FULL", "DELETED", "UPDATED", "NOTFOUND",
         "LIST", "EMPTY", "INVALID"}
Response == [tag : Tags, rows : SUBSET (Ids \X Values)]

Answer(tag) == [tag |-> tag, rows |-> {}]

ASSUME RequestsAssumption == Requests \subseteq Request
ASSUME NoneAssumption == None \notin Values \cup Clients \cup Request \cup Response
ASSUME MaxRecordsAssumption == MaxRecords \in Nat \ {0}
ASSUME RoomAssumption == RowLen \in [Values -> Nat] /\ Room \in Nat
ASSUME DomainsAssumption == Ids # {} /\ Values # {}
ASSUME ClientsAssumption == IsFiniteSet(Clients)
=============================================================================
