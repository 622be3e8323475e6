---------------------------- MODULE SharedCounter ----------------------------
(***************************************************************************)
(* The shared counter of hands-on 11.  Each thread increments it MaxValue  *)
(* times: ho11/ex1_no_sync.c without a lock, ho11/ex2_sync.c with one.     *)
(*                                                                         *)
(* The increment without a lock is a data race; it is modelled as the load *)
(* and the store that an unoptimised build makes of it.                    *)
(***************************************************************************)
EXTENDS Naturals, FiniteSets

CONSTANTS Threads, None,
          MaxValue      \* MAX_VALUE

CounterAssumption ==
    IsFiniteSet(Threads) /\ Threads # {} /\ None \notin Threads /\ MaxValue \in Nat

VARIABLES locked,   \* which of the two programs, chosen once
          pc,       \* "loop", "load", "store", "unlock", "done"
          i,        \* the loop variable
          register, \* the value loaded
          counter,  \* shared_counter
          lock,     \* the holder of counter_mutex, or None
          printed   \* what a thread prints at its end

vars == <<locked, pc, i, register, counter, lock, printed>>

Expected == Cardinality(Threads) * MaxValue

TypeOK == /\ locked \in BOOLEAN
          /\ pc \in [Threads -> {"loop", "load", "store", "unlock", "done"}]
          /\ i \in [Threads -> 0..MaxValue]
          /\ register \in [Threads -> Nat]
          /\ counter \in 0..Expected
          /\ lock \in Threads \cup {None}
          /\ printed \in [Threads -> 0..Expected]

Init == /\ locked \in BOOLEAN
        /\ pc = [t \in Threads |-> "loop"]
        /\ i = [t \in Threads |-> 0]
        /\ register = [t \in Threads |-> 0]
        /\ counter = 0
        /\ lock = None
        /\ printed = [t \in Threads |-> 0]

Goto(t, step) == pc' = [pc EXCEPT ![t] = step]

(* Mutation: the mutex is taken without a look at it.                      *)
EnterAnyway(t) == /\ pc[t] = "loop"
                  /\ i[t] < MaxValue
                  /\ lock' = t
                  /\ Goto(t, "load")
                  /\ UNCHANGED <<locked, i, register, counter, printed>>

Enter(t) == /\ pc[t] = "loop"
            /\ i[t] < MaxValue
            /\ IF locked THEN lock = None /\ lock' = t ELSE UNCHANGED lock
            /\ Goto(t, "load")
            /\ UNCHANGED <<locked, i, register, counter, printed>>

Load(t) == /\ pc[t] = "load"
           /\ register' = [register EXCEPT ![t] = counter]
           /\ Goto(t, "store")
           /\ UNCHANGED <<locked, i, counter, lock, printed>>

Store(t) == /\ pc[t] = "store"
            /\ counter' = register[t] + 1
            /\ i' = [i EXCEPT ![t] = @ + 1]
            /\ Goto(t, IF locked THEN "unlock" ELSE "loop")
            /\ UNCHANGED <<locked, register, lock, printed>>

Unlock(t) == /\ pc[t] = "unlock"
             /\ lock' = None
             /\ Goto(t, "loop")
             /\ UNCHANGED <<locked, i, register, counter, printed>>

(* The thread prints the counter, without the lock in both programs.       *)
EndLoop(t) == /\ pc[t] = "loop"
              /\ i[t] = MaxValue
              /\ printed' = [printed EXCEPT ![t] = counter]
              /\ Goto(t, "done")
              /\ UNCHANGED <<locked, i, register, counter, lock>>

Thread(t) == Enter(t) \/ Load(t) \/ Store(t) \/ Unlock(t) \/ EndLoop(t)

Next == \E t \in Threads : Thread(t)

Ended == \A t \in Threads : pc[t] = "done"

(* With the lock main prints the expected value (ex2_sync.c:39), and each  *)
(* thread one that holds its own increments (ex2_sync.c:18).  Without it   *)
(* (ex1_no_sync.c:35) updates are lost down to two increments, never below. *)
(* Either way, somebody printed the final value: the last to end.          *)
FinalValue ==
    /\ Ended => \E t \in Threads : printed[t] = counter
    /\ Ended => IF locked THEN counter = Expected
                ELSE /\ counter <= Expected
                     /\ counter >= IF Cardinality(Threads) = 1 \/ MaxValue < 2 THEN MaxValue ELSE 2
    /\ \A t \in Threads : locked /\ pc[t] = "done" => printed[t] >= MaxValue
=============================================================================
