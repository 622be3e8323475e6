------------------------------ MODULE CondJoin ------------------------------
(***************************************************************************)
(* The hand-made join of hands-on 13, ho13/ex1_join.c: the child sets      *)
(* child_done and signals under the mutex, the parent waits in a loop.     *)
(***************************************************************************)
EXTENDS Naturals

Threads == {"parent", "child"}

VARIABLES pc,         \* of each of the two
          childDone,
          lock        \* the holder of the mutex, or "nobody"

vars == <<pc, childDone, lock>>

ParentSteps == {"lock", "check", "asleep", "woken", "unlock", "returned"}
ChildSteps == {"work", "set", "signal", "unlock", "exited"}

TypeOK == /\ pc \in [Threads -> ParentSteps \cup ChildSteps]
          /\ childDone \in 0..1
          /\ lock \in Threads \cup {"nobody"}

Init == /\ pc = [t \in Threads |-> IF t = "parent" THEN "lock" ELSE "work"]
        /\ childDone = 0
        /\ lock = "nobody"

Goto(t, step) == pc' = [pc EXCEPT ![t] = step]

Acquire(t, from, to) == /\ pc[t] = from
                        /\ lock = "nobody"
                        /\ lock' = t
                        /\ Goto(t, to)
                        /\ UNCHANGED childDone

Release(t, from, to) == /\ pc[t] = from
                        /\ lock' = "nobody"
                        /\ Goto(t, to)
                        /\ UNCHANGED childDone

ChildLock == Acquire("child", "work", "set")

SetDone == /\ pc["child"] = "set"
           /\ childDone' = 1
           /\ Goto("child", "signal")
           /\ UNCHANGED lock

(* Mutation: the signal is forgotten.                                      *)
NoSignal == /\ pc["child"] = "signal"
            /\ Goto("child", "unlock")
            /\ UNCHANGED <<childDone, lock>>

SignalParent == /\ pc["child"] = "signal"
                /\ pc' = [pc EXCEPT !["child"] = "unlock",
                                    !["parent"] = IF @ = "asleep" THEN "woken" ELSE @]
                /\ UNCHANGED <<childDone, lock>>

ChildUnlock == Release("child", "unlock", "exited")

ParentLock == Acquire("parent", "lock", "check")

ParentWaits == /\ childDone = 0
               /\ Release("parent", "check", "asleep")

WakeSpuriously == /\ pc["parent"] = "asleep"
                  /\ Goto("parent", "woken")
                  /\ UNCHANGED <<childDone, lock>>

(* Mutation: "if" in place of "while", child_done is not looked at again.  *)
RelockOnly == Acquire("parent", "woken", "unlock")

Relock == Acquire("parent", "woken", "check")

ParentSees == /\ pc["parent"] = "check"
              /\ childDone # 0
              /\ Goto("parent", "unlock")
              /\ UNCHANGED <<childDone, lock>>

ParentUnlock == Release("parent", "unlock", "returned")

Child == ChildLock \/ SetDone \/ SignalParent \/ ChildUnlock
Parent == ParentLock \/ ParentWaits \/ Relock \/ ParentSees \/ ParentUnlock

Next == Child \/ Parent \/ WakeSpuriously

(* The parent says the child has finished (ex1_join.c:48) only after the   *)
(* child has said so and left the critical section.                        *)
JoinWaits == pc["parent"] \in {"unlock", "returned"} => pc["child"] = "exited"
=============================================================================
