----------------------------- MODULE Rendezvous -----------------------------
(***************************************************************************)
(* What a barrier promises: a thread passes it only after every thread has *)
(* arrived.  The two barriers of hands-on 12 and 13 implement it.          *)
(***************************************************************************)
CONSTANT Threads

VARIABLES arrived, passed   \* sets of threads

Init == arrived = {} /\ passed = {}

Arrive(t) == /\ t \in Threads \ arrived
             /\ arrived' = arrived \cup {t}
             /\ UNCHANGED passed

Pass(t) == /\ arrived = Threads
           /\ t \in Threads \ passed
           /\ passed' = passed \cup {t}
           /\ UNCHANGED arrived

Next == \E t \in Threads : Arrive(t) \/ Pass(t)

Spec == Init /\ [][Next]_<<arrived, passed>>
=============================================================================
