----------------------------- MODULE CondBarrier -----------------------------
(***************************************************************************)
(* The barrier of hands-on 13, ho13/ex2_barrier.c: a count under a mutex;  *)
(* the last thread broadcasts a condition variable, the others wait for it *)
(* in a loop.  pthread_cond_wait may also return without a broadcast.      *)
(***************************************************************************)
EXTENDS Naturals, FiniteSets

CONSTANTS Threads, None

ThreadsAssumption == IsFiniteSet(Threads) /\ None \notin Threads

N == Cardinality(Threads)

VARIABLES pc,      \* "work", "count", "broadcast", "check", "asleep", "woken", "unlock", "passed"
          count,
          lock,    \* the holder of the mutex, or None
          joined   \* main has joined all threads

vars == <<pc, count, lock, joined>>

TypeOK == /\ pc \in [Threads -> {"work", "count", "broadcast", "check", "asleep", "woken", "unlock", "passed"}]
          /\ count \in 0..N
          /\ lock \in Threads \cup {None}
          /\ joined \in BOOLEAN

Init == /\ pc = [t \in Threads |-> "work"]
        /\ count = 0
        /\ lock = None
        /\ joined = FALSE

Goto(t, step) == pc' = [pc EXCEPT ![t] = step]

Lock(t) == /\ pc[t] = "work"
           /\ lock = None
           /\ lock' = t
           /\ Goto(t, "count")
           /\ UNCHANGED <<count, joined>>

Counts(t) == /\ pc[t] = "count"
             /\ count' = count + 1
             /\ Goto(t, IF count' = N THEN "broadcast" ELSE "check")
             /\ UNCHANGED <<lock, joined>>

(* Mutation: pthread_cond_signal in place of the broadcast.                *)
Signal(t) == /\ pc[t] = "broadcast"
             /\ LET sleepers == {u \in Threads : pc[u] = "asleep"}
                    chosen == IF sleepers = {} THEN {} ELSE {CHOOSE u \in sleepers : TRUE}
                IN  pc' = [u \in Threads |-> IF u = t THEN "unlock"
                                             ELSE IF u \in chosen THEN "woken" ELSE pc[u]]
             /\ UNCHANGED <<count, lock, joined>>

Broadcast(t) == /\ pc[t] = "broadcast"
                /\ pc' = [u \in Threads |-> IF u = t THEN "unlock"
                                            ELSE IF pc[u] = "asleep" THEN "woken" ELSE pc[u]]
                /\ UNCHANGED <<count, lock, joined>>

(* The mutex is given up and the thread put to sleep in one step.          *)
CondWait(t) == /\ pc[t] = "check"
               /\ count < N
               /\ lock' = None
               /\ Goto(t, "asleep")
               /\ UNCHANGED <<count, joined>>

WakeSpuriously(t) == /\ pc[t] = "asleep"
                     /\ Goto(t, "woken")
                     /\ UNCHANGED <<count, lock, joined>>

(* Mutation: "if" in place of "while", the count is not looked at again.   *)
RelockOnly(t) == /\ pc[t] = "woken"
                 /\ lock = None
                 /\ lock' = t
                 /\ Goto(t, "unlock")
                 /\ UNCHANGED <<count, joined>>

Relock(t) == /\ pc[t] = "woken"
             /\ lock = None
             /\ lock' = t
             /\ Goto(t, "check")
             /\ UNCHANGED <<count, joined>>

EndLoop(t) == /\ pc[t] = "check"
              /\ count >= N
              /\ Goto(t, "unlock")
              /\ UNCHANGED <<count, lock, joined>>

Unlock(t) == /\ pc[t] = "unlock"
             /\ lock' = None
             /\ Goto(t, "passed")
             /\ UNCHANGED <<count, joined>>

(* What a thread does by itself, when it is scheduled.                     *)
Run(t) == \/ Lock(t) \/ Counts(t) \/ Broadcast(t) \/ CondWait(t)
          \/ Relock(t) \/ EndLoop(t) \/ Unlock(t)

Join == /\ ~joined
        /\ \A t \in Threads : pc[t] = "passed"
        /\ joined' = TRUE
        /\ UNCHANGED <<pc, count, lock>>

Next == (\E t \in Threads : Run(t) \/ WakeSpuriously(t)) \/ Join

Spec == Init /\ [][Next]_vars

Arrived == {t \in Threads : pc[t] \notin {"work", "count"}}
Passed == {t \in Threads : pc[t] = "passed"}
barrier == INSTANCE Rendezvous WITH arrived <- Arrived, passed <- Passed
=============================================================================
