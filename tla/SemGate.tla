------------------------------- MODULE SemGate -------------------------------
(***************************************************************************)
(* The semaphore of hands-on 11, ho11/ex3_semaphore.c: at most Limit       *)
(* threads at a time inside the critical section.                          *)
(***************************************************************************)
EXTENDS Naturals, FiniteSets

CONSTANTS Threads, Limit    \* 2, the initial value of the semaphore

GateAssumption == IsFiniteSet(Threads) /\ Limit \in Nat \ {0}

VARIABLES pc,       \* "wait", "inside", "done"
          sem       \* the value of max_concurrency_sem

vars == <<pc, sem>>

TypeOK == pc \in [Threads -> {"wait", "inside", "done"}] /\ sem \in 0..Limit

Init == pc = [t \in Threads |-> "wait"] /\ sem = Limit

(* Mutation: sem_trywait whose result is not looked at.                    *)
TryEnter(t) == /\ pc[t] = "wait"
               /\ sem' = IF sem > 0 THEN sem - 1 ELSE 0
               /\ pc' = [pc EXCEPT ![t] = "inside"]

Enter(t) == /\ pc[t] = "wait"
            /\ sem > 0
            /\ sem' = sem - 1
            /\ pc' = [pc EXCEPT ![t] = "inside"]

Leave(t) == /\ pc[t] = "inside"
            /\ sem' = sem + 1
            /\ pc' = [pc EXCEPT ![t] = "done"]

Thread(t) == Enter(t) \/ Leave(t)

Next == \E t \in Threads : Thread(t)

Inside == {t \in Threads : pc[t] = "inside"}

(* Threads inside and free places add up to the limit (ex3_semaphore.c:15- *)
(* 22), so never more than Limit are inside.                               *)
PlacesAddUp == Cardinality(Inside) + sem = Limit
=============================================================================
