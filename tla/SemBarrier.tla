----------------------------- MODULE SemBarrier -----------------------------
(***************************************************************************)
(* The barrier of hands-on 12, ho12/ex1_barrier.c: a counter under the     *)
(* semaphore mutex; the last thread to count posts barrier_sem once for    *)
(* each of the others, who wait for it.                                    *)
(***************************************************************************)
EXTENDS Naturals, FiniteSets

CONSTANT Threads

ThreadsAssumption == IsFiniteSet(Threads) /\ Threads # {}

N == Cardinality(Threads)

VARIABLES pc,           \* "work", "count", "post", "leave", "wait", "passed"; "lost"
          counter,
          mutex, barrierSem,   \* values of the two semaphores
          posts,        \* the loop variable of the last thread
          joined        \* main has joined all threads

vars == <<pc, counter, mutex, barrierSem, posts, joined>>

(* "lost": pthread_create failed, whose result main does not look at.      *)
Steps == {"work", "count", "post", "leave", "wait", "passed", "lost"}

TypeOK == /\ pc \in [Threads -> Steps]
          /\ counter \in 0..N
          /\ mutex \in 0..1
          /\ barrierSem \in Nat
          /\ posts \in Nat
          /\ joined \in BOOLEAN

Init == /\ pc \in [Threads -> {"work", "lost"}]
        /\ counter = 0
        /\ mutex = 1 /\ barrierSem = 0
        /\ posts = 0
        /\ joined = FALSE

Goto(t, step) == pc' = [pc EXCEPT ![t] = step]

WaitMutex(t) == /\ pc[t] = "work"
                /\ mutex > 0
                /\ mutex' = mutex - 1
                /\ Goto(t, "count")
                /\ UNCHANGED <<counter, barrierSem, posts, joined>>

(* Mutation: the last thread is taken to be the one before.                *)
CountOneShort(t) == /\ pc[t] = "count"
                    /\ counter' = counter + 1
                    /\ Goto(t, IF counter' = N - 1 THEN "post" ELSE "leave")
                    /\ UNCHANGED <<mutex, barrierSem, posts, joined>>

Count(t) == /\ pc[t] = "count"
            /\ counter' = counter + 1
            /\ Goto(t, IF counter' = N THEN "post" ELSE "leave")
            /\ UNCHANGED <<mutex, barrierSem, posts, joined>>

PostBarrier(t) == /\ pc[t] = "post"
                  /\ posts < N - 1
                  /\ barrierSem' = barrierSem + 1
                  /\ posts' = posts + 1
                  /\ UNCHANGED <<pc, counter, mutex, joined>>

(* Mutation: one post too many.                                            *)
LastPostsToo(t) == /\ pc[t] = "post"
                   /\ posts = N - 1
                   /\ barrierSem' = barrierSem + 1
                   /\ mutex' = mutex + 1
                   /\ Goto(t, "passed")
                   /\ UNCHANGED <<counter, posts, joined>>

LastLeaves(t) == /\ pc[t] = "post"
                 /\ posts = N - 1
                 /\ mutex' = mutex + 1
                 /\ Goto(t, "passed")
                 /\ UNCHANGED <<counter, barrierSem, posts, joined>>

PostMutex(t) == /\ pc[t] = "leave"
                /\ mutex' = mutex + 1
                /\ Goto(t, "wait")
                /\ UNCHANGED <<counter, barrierSem, posts, joined>>

WaitBarrier(t) == /\ pc[t] = "wait"
                  /\ barrierSem > 0
                  /\ barrierSem' = barrierSem - 1
                  /\ Goto(t, "passed")
                  /\ UNCHANGED <<counter, mutex, posts, joined>>

Thread(t) == \/ WaitMutex(t) \/ Count(t) \/ PostBarrier(t) \/ LastLeaves(t)
             \/ PostMutex(t) \/ WaitBarrier(t)

(* The id of a thread that was not created is unset: joining it is         *)
(* undefined, and taken to return; if it crashes, the program stops.       *)
Join == /\ ~joined
        /\ \A t \in Threads : pc[t] \in {"passed", "lost"}
        /\ joined' = TRUE
        /\ UNCHANGED <<pc, counter, mutex, barrierSem, posts>>

Next == (\E t \in Threads : Thread(t)) \/ Join

Spec == Init /\ [][Next]_vars

Arrived == {t \in Threads : pc[t] \notin {"work", "count", "lost"}}
Passed == {t \in Threads : pc[t] = "passed"}
AllStarted == \A t \in Threads : pc[t] # "lost"
barrier == INSTANCE Rendezvous WITH arrived <- Arrived, passed <- Passed

(* The threads behind the barrier left it one post each, and none too many *)
(* would let a thread through when the barrier were used again.            *)
NothingLeft == joined => mutex = 1 /\ barrierSem = 0
=============================================================================
