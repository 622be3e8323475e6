-------------------------- MODULE ThreadLabsProofs --------------------------
(***************************************************************************)
(* The thread exercises and the fork-join programs, proved for any numbers *)
(* of threads, increments, places, items and tasks.                        *)
(*                                                                         *)
(* Each exercise has its invariant and steps of its own; Frame says that a *)
(* step of the whole is a step or a stutter of each.  The invariants       *)
(* count: places and threads inside the gate, posts of the barrier and     *)
(* threads let through, free and filled slots and items between the ring's *)
(* indices, increments stored and updates that can still be lost.          *)
(*                                                                         *)
(* The fork-join programs need more: what they find must not depend on how *)
(* the input is cut.  The intervals, shards and chunks are slices of one   *)
(* range, so counts over them, and bags, add up to the count or the bag of *)
(* the whole; a word count sees one piece more for each cut inside a word. *)
(* ResultInv says how far each task is in its part; the folds of main are  *)
(* compared with their sums by a minimal counterexample (SameFold).        *)
(***************************************************************************)
EXTENDS MCThreadLabs, TLAPS, FiniteSetTheorems, SequenceTheorems, WellFoundedInduction

(* The instances count their sets as this module does.                     *)
LEMMA SameSets ==
  /\ \A X : N!Cardinality(X) = Cardinality(X) /\ (N!IsFiniteSet(X) <=> IsFiniteSet(X))
  /\ \A X : G!Cardinality(X) = Cardinality(X) /\ (G!IsFiniteSet(X) <=> IsFiniteSet(X))
  /\ \A X : S!Cardinality(X) = Cardinality(X) /\ (S!IsFiniteSet(X) <=> IsFiniteSet(X))
  /\ \A X : B!Cardinality(X) = Cardinality(X) /\ (B!IsFiniteSet(X) <=> IsFiniteSet(X))
  BY DEF Cardinality, N!Cardinality, G!Cardinality, S!Cardinality, B!Cardinality,
         IsFiniteSet, N!IsFiniteSet, G!IsFiniteSet, S!IsFiniteSet, B!IsFiniteSet

LEMMA Frame ==
  ASSUME [Next]_vars
  PROVE  /\ UNCHANGED lab
         /\ [N!Next]_nVars /\ [G!Next]_gVars /\ [S!Next]_sVars /\ [B!Next]_bVars
         /\ [J!Next]_jVars /\ [F!Next]_fVars /\ [K!Next]_kVars
<1> USE DEF Only, Keep
<1>1. CASE UNCHANGED vars
  BY <1>1 DEF vars
<1>2. CASE \E t \in nThreads : CounterStep(t)
  BY <1>2 DEF CounterStep, N!Next
<1>3. CASE \E t \in gThreads : GateStep(t)
  BY <1>3 DEF GateStep, G!Next
<1>4. CASE \E t \in sThreads : SemBarrierStep(t)
  BY <1>4 DEF SemBarrierStep, S!Next
<1>5. CASE \E t \in bThreads : CondBarrierStep(t)
  BY <1>5 DEF CondBarrierStep, B!Next
<1>6. CASE ChildStep \/ ParentStep
  BY <1>6 DEF ChildStep, ParentStep, J!Next
<1>7. CASE ProducerStep \/ ConsumerStep
  BY <1>7 DEF ProducerStep, ConsumerStep, F!Next
<1>8. CASE ForkJoinTask \/ ForkJoinMain
  BY <1>8 DEF ForkJoinTask, ForkJoinMain, K!Next
<1>9. CASE MainStep
  BY <1>9 DEF MainStep, S!Next, B!Next, F!Next
<1>10. CASE Spurious
  BY <1>10 DEF Spurious, B!Next, J!Next
<1>11. CASE Failure
  BY <1>11 DEF Failure, K!Next
<1> QED
  BY <1>1, <1>2, <1>3, <1>4, <1>5, <1>6, <1>7, <1>8, <1>9, <1>10, <1>11 DEF Next

-----------------------------------------------------------------------------
(* The gate.                                                               *)

GateInv == G!TypeOK /\ G!PlacesAddUp

LEMMA GateInit == G!Init => GateInv
<1> SUFFICES ASSUME G!Init PROVE GateInv
  OBVIOUS
<1>1. G!GateAssumption
  BY LabsAssumption
<1>2. G!Inside = {}
  BY DEF G!Init, G!Inside
<1>3. Cardinality(G!Inside) = 0
  BY <1>2, FS_EmptySet
<1> QED
  BY <1>1, <1>3, SameSets DEF GateInv, G!Init, G!TypeOK, G!PlacesAddUp, G!GateAssumption

LEMMA GateStepInv == GateInv /\ [G!Next]_gVars => GateInv'
<1> SUFFICES ASSUME GateInv, [G!Next]_gVars PROVE GateInv'
  OBVIOUS
<1> USE SameSets DEF GateInv, G!TypeOK, G!PlacesAddUp
<1>0. /\ IsFiniteSet(G!Inside) /\ Cardinality(G!Inside) \in Nat /\ Limit \in Nat
  BY LabsAssumption, FS_Subset, FS_CardinalityType DEF G!GateAssumption, G!Inside
<1>1. ASSUME NEW t \in gThreads, G!Enter(t) PROVE GateInv'
  <2>1. gSem > 0 /\ gSem' = gSem - 1 /\ gPc' = [gPc EXCEPT ![t] = "inside"] /\ gPc[t] = "wait"
    BY <1>1 DEF G!Enter
  <2>2. G!Inside' = G!Inside \cup {t} /\ t \notin G!Inside
    BY <2>1 DEF G!Inside
  <2>3. Cardinality(G!Inside') = Cardinality(G!Inside) + 1
    BY <1>0, <2>2, FS_AddElement
  <2> QED
    BY <1>0, <2>1, <2>3
<1>2. ASSUME NEW t \in gThreads, G!Leave(t) PROVE GateInv'
  <2>1. gSem' = gSem + 1 /\ gPc' = [gPc EXCEPT ![t] = "done"] /\ gPc[t] = "inside"
    BY <1>2 DEF G!Leave
  <2>2. G!Inside' = G!Inside \ {t} /\ t \in G!Inside
    BY <2>1 DEF G!Inside
  <2>3. Cardinality(G!Inside') = Cardinality(G!Inside) - 1
    BY <1>0, <2>2, FS_RemoveElement
  <2>4. Cardinality(G!Inside') \in Nat
    BY <1>0, <2>2, FS_RemoveElement, FS_CardinalityType
  <2> QED
    BY <1>0, <2>1, <2>3, <2>4
<1>3. CASE UNCHANGED gVars
  BY <1>3 DEF gVars, G!Inside
<1> QED
  BY <1>1, <1>2, <1>3 DEF G!Next, G!Thread

-----------------------------------------------------------------------------
(* The hand-made join.                                                     *)

JoinInv == /\ J!TypeOK
           /\ jPc["parent"] \in J!ParentSteps /\ jPc["child"] \in J!ChildSteps
           /\ jLock = "parent" <=> jPc["parent"] \in {"check", "unlock"}
           /\ jLock = "child" <=> jPc["child"] \in {"set", "signal", "unlock"}
           /\ jChildDone = 1 <=> jPc["child"] \in {"signal", "unlock", "exited"}
           /\ J!JoinWaits

LEMMA JoinInit == J!Init => JoinInv
  BY DEF J!Init, JoinInv, J!TypeOK, J!ParentSteps, J!ChildSteps, J!Threads, J!JoinWaits

LEMMA JoinStepInv == JoinInv /\ [J!Next]_jVars => JoinInv'
<1> SUFFICES ASSUME JoinInv, [J!Next]_jVars PROVE JoinInv'
  OBVIOUS
<1> USE DEF JoinInv, J!TypeOK, J!ParentSteps, J!ChildSteps, J!Threads, J!JoinWaits,
            J!Goto, J!Acquire, J!Release
<1>1. CASE J!Child
  BY <1>1 DEF J!Child, J!ChildLock, J!SetDone, J!SignalParent, J!ChildUnlock
<1>2. CASE J!Parent
  BY <1>2 DEF J!Parent, J!ParentLock, J!ParentWaits, J!Relock, J!ParentSees, J!ParentUnlock
<1>3. CASE J!WakeSpuriously
  BY <1>3 DEF J!WakeSpuriously
<1>4. CASE UNCHANGED jVars
  BY <1>4 DEF jVars
<1> QED
  BY <1>1, <1>2, <1>3, <1>4 DEF J!Next

-----------------------------------------------------------------------------
(* The barrier of two semaphores.                                          *)

sN == Cardinality(sThreads)

(* The semaphore mutex keeps all but one thread out of the counting.       *)
SemMutexInv == LET Holders == {t \in sThreads : sPc[t] \in {"count", "post", "leave"}}
               IN  /\ \A t, u \in Holders : t = u
                   /\ sMutex = 1 <=> Holders = {}

SemPosting == \E t \in sThreads : sPc[t] = "post"

(* The posts are those of the threads let through, and the ones to come.   *)
SemPostInv ==
  /\ sCounter < sN => ~SemPosting /\ sPosts = 0 /\ sBarrierSem = 0 /\ S!Passed = {}
  /\ sCounter = sN => IF SemPosting
                      THEN sBarrierSem + Cardinality(S!Passed) = sPosts /\ sPosts < sN
                      ELSE sBarrierSem + Cardinality(S!Passed) = sN

SemInv == /\ S!TypeOK /\ SemMutexInv /\ SemPostInv
          /\ sCounter = Cardinality(S!Arrived)
          /\ sJoined => \A t \in sThreads : sPc[t] \in {"passed", "lost"}

LEMMA SemCounts ==
  /\ IsFiniteSet(sThreads) /\ sN \in Nat /\ sN > 0 /\ S!N = sN
  /\ \A X \in SUBSET sThreads : /\ IsFiniteSet(X) /\ Cardinality(X) \in Nat
                                /\ Cardinality(X) <= sN
                                /\ Cardinality(X) = sN => X = sThreads
<1>1. IsFiniteSet(sThreads) /\ sThreads # {}
  BY LabsAssumption, SameSets DEF S!ThreadsAssumption
<1>2. sN \in Nat /\ sN # 0
  BY <1>1, FS_CardinalityType, FS_EmptySet DEF sN
<1>3. S!N = sN
  BY SameSets DEF S!N, sN
<1>4. ASSUME NEW X \in SUBSET sThreads
      PROVE  /\ IsFiniteSet(X) /\ Cardinality(X) \in Nat
             /\ Cardinality(X) <= sN
             /\ Cardinality(X) = sN => X = sThreads
  <2>1. IsFiniteSet(X) /\ Cardinality(X) <= sN /\ (Cardinality(X) = sN => X = sThreads)
    BY <1>1, FS_Subset DEF sN
  <2> QED
    BY <2>1, FS_CardinalityType
<1> QED
  BY <1>1, <1>2, <1>3, <1>4

LEMMA SemInit == S!Init => SemInv
<1> SUFFICES ASSUME S!Init PROVE SemInv
  OBVIOUS
<1>0. sPc \in [sThreads -> {"work", "lost"}]
  BY DEF S!Init
<1>1. S!TypeOK
  <2>1. 0 \in 0..S!N
    BY SemCounts
  <2>2. sPc \in [sThreads -> S!Steps]
    BY <1>0 DEF S!Steps
  <2>3. sCounter \in 0..S!N
    BY <2>1 DEF S!Init
  <2>4. sMutex \in 0..1 /\ sBarrierSem \in Nat /\ sPosts \in Nat
    BY DEF S!Init
  <2>5. sJoined \in BOOLEAN
    BY DEF S!Init
  <2> QED
    BY <2>2, <2>3, <2>4, <2>5 DEF S!TypeOK
<1>2. S!Arrived = {} /\ S!Passed = {} /\ ~SemPosting
  BY <1>0 DEF S!Arrived, S!Passed, SemPosting
<1>3. Cardinality(S!Arrived) = 0
  BY <1>2, FS_EmptySet
<1> QED
  <2>1. SemMutexInv
    BY <1>0 DEF S!Init, SemMutexInv
  <2>2. SemPostInv
    BY <1>2, SemCounts DEF S!Init, SemPostInv
  <2> QED
    BY <1>1, <1>3, <2>1, <2>2 DEF S!Init, SemInv

LEMMA SemStepInv == SemInv /\ [S!Next]_sVars => SemInv'
<1> SUFFICES ASSUME SemInv, [S!Next]_sVars PROVE SemInv'
  OBVIOUS
<1>0. S!TypeOK
  BY DEF SemInv
<1>n. /\ IsFiniteSet(sThreads) /\ sN \in Nat /\ sN > 0 /\ S!N = sN
      /\ \A X \in SUBSET sThreads : /\ IsFiniteSet(X) /\ Cardinality(X) \in Nat
                                    /\ Cardinality(X) <= sN
                                    /\ Cardinality(X) = sN => X = sThreads
  BY SemCounts
<1>s. S!Arrived \in SUBSET sThreads /\ S!Passed \in SUBSET sThreads
  BY DEF S!Arrived, S!Passed
<1>1. ASSUME NEW t \in sThreads, S!WaitMutex(t) PROVE SemInv'
  <2>1. /\ sPc[t] = "work" /\ sMutex = 1 /\ sMutex' = 0
        /\ sPc' = [sPc EXCEPT ![t] = "count"]
        /\ UNCHANGED <<sCounter, sBarrierSem, sPosts, sJoined>>
    BY <1>0, <1>1 DEF S!TypeOK, S!WaitMutex, S!Goto
  <2>2. S!Arrived' = S!Arrived /\ S!Passed' = S!Passed /\ SemPosting' = SemPosting
    BY <1>0, <2>1 DEF S!TypeOK, S!Arrived, S!Passed, SemPosting
  <2>3. SemMutexInv'
    BY <1>0, <2>1 DEF S!TypeOK, SemInv, SemMutexInv
  <2>4. S!TypeOK'
    BY <1>0, <2>1 DEF S!TypeOK, S!Steps
  <2> QED
    BY <1>0, <2>1, <2>2, <2>3, <2>4 DEF SemInv, SemPostInv, sN, S!TypeOK
<1>2. ASSUME NEW t \in sThreads, S!Count(t) PROVE SemInv'
  <2>1. /\ sPc[t] = "count" /\ sCounter' = sCounter + 1
        /\ sPc' = [sPc EXCEPT ![t] = IF sCounter + 1 = sN THEN "post" ELSE "leave"]
        /\ UNCHANGED <<sMutex, sBarrierSem, sPosts, sJoined>>
    BY <1>n, <1>2 DEF S!Count, S!Goto
  <2>2. S!Arrived' = S!Arrived \cup {t} /\ t \notin S!Arrived /\ S!Passed' = S!Passed
    BY <1>0, <2>1 DEF S!TypeOK, S!Arrived, S!Passed
  <2>3. Cardinality(S!Arrived') = sCounter + 1
    BY <1>n, <1>s, <2>2, FS_AddElement DEF SemInv
  <2>4. sCounter \in Nat /\ sCounter < sN
    <3>1. S!Arrived' \in SUBSET sThreads
      BY <1>s, <2>2
    <3>2. Cardinality(S!Arrived') <= sN
      BY <1>n, <3>1
    <3> QED
      BY <1>0, <1>n, <2>3, <3>2 DEF S!TypeOK
  <2>5. S!TypeOK'
    BY <1>0, <1>n, <2>1, <2>4 DEF S!TypeOK, S!Steps
  <2>6. SemMutexInv'
    BY <1>0, <2>1 DEF S!TypeOK, SemInv, SemMutexInv
  <2>7. ~SemPosting /\ sPosts = 0 /\ sBarrierSem = 0 /\ S!Passed = {}
    BY <2>4 DEF SemInv, SemPostInv
  <2>8. SemPosting' <=> sCounter' = sN
    BY <1>0, <2>1, <2>7 DEF S!TypeOK, SemPosting
  <2>9. Cardinality(S!Passed') = 0
    BY <2>2, <2>7, FS_EmptySet
  <2>10. SemPostInv'
    BY <1>n, <2>1, <2>2, <2>4, <2>7, <2>8, <2>9 DEF SemPostInv, sN
  <2>11. ~sJoined
    BY <2>1 DEF SemInv
  <2> QED
    BY <2>1, <2>3, <2>5, <2>6, <2>10, <2>11 DEF SemInv
<1>3. ASSUME NEW t \in sThreads, S!PostBarrier(t) PROVE SemInv'
  <2>1. /\ sPc[t] = "post" /\ sPosts < sN - 1
        /\ sBarrierSem' = sBarrierSem + 1 /\ sPosts' = sPosts + 1
        /\ UNCHANGED <<sPc, sCounter, sMutex, sJoined>>
    BY <1>n, <1>3 DEF S!PostBarrier
  <2>2. UNCHANGED <<S!Arrived, S!Passed, SemPosting>> /\ SemPosting
    BY <2>1 DEF S!Arrived, S!Passed, SemPosting
  <2>3. S!TypeOK' /\ SemMutexInv'
    BY <1>0, <2>1 DEF S!TypeOK, SemInv, SemMutexInv
  <2>4. Cardinality(S!Passed) \in Nat
    BY <1>n, <1>s
  <2>5. SemPostInv'
    BY <1>0, <1>n, <2>1, <2>2, <2>4 DEF S!TypeOK, SemInv, SemPostInv, sN
  <2> QED
    BY <2>1, <2>2, <2>3, <2>5 DEF SemInv
<1>4. ASSUME NEW t \in sThreads,
             S!LastLeaves(t) \/ S!WaitBarrier(t)
      PROVE  SemInv'
  <2>1. /\ sPc[t] \in {"post", "wait"} /\ sPc' = [sPc EXCEPT ![t] = "passed"]
        /\ UNCHANGED <<sCounter, sPosts, sJoined>>
    BY <1>4 DEF S!LastLeaves, S!WaitBarrier, S!Goto
  <2>2. /\ S!Arrived' = S!Arrived /\ S!Passed' = S!Passed \cup {t} /\ t \notin S!Passed
    BY <1>0, <2>1 DEF S!TypeOK, S!Arrived, S!Passed
  <2>3. /\ Cardinality(S!Passed') = Cardinality(S!Passed) + 1
        /\ Cardinality(S!Passed) \in Nat
    BY <1>n, <1>s, <2>2, FS_AddElement
  <2>4. sCounter = sN
    BY <1>0, <1>n, <1>4 DEF S!TypeOK, SemInv, SemPostInv, SemPosting, S!LastLeaves, S!WaitBarrier
  <2>5. CASE S!LastLeaves(t)
    <3>1. sPc[t] = "post" /\ sPosts = sN - 1 /\ sMutex' = sMutex + 1 /\ UNCHANGED sBarrierSem
      BY <1>n, <2>5 DEF S!LastLeaves
    <3>2. SemPosting /\ ~SemPosting'
      BY <1>0, <2>1, <3>1 DEF S!TypeOK, SemInv, SemMutexInv, SemPosting
    <3>3. sMutex = 0 /\ sMutex' = 1
      BY <1>0, <3>1 DEF S!TypeOK, SemInv, SemMutexInv
    <3>4. SemMutexInv'
      BY <1>0, <2>1, <3>1, <3>3 DEF S!TypeOK, SemInv, SemMutexInv
    <3>5. SemPostInv'
      BY <1>0, <1>n, <2>1, <2>3, <2>4, <3>1, <3>2 DEF S!TypeOK, SemInv, SemPostInv, sN
    <3>6. S!TypeOK'
      BY <1>0, <2>1, <3>1, <3>3 DEF S!TypeOK, S!Steps
    <3> QED
      BY <1>0, <2>1, <2>2, <3>4, <3>5, <3>6 DEF SemInv, S!TypeOK
  <2>6. CASE S!WaitBarrier(t)
    <3>1. /\ sPc[t] = "wait" /\ sBarrierSem > 0 /\ sBarrierSem' = sBarrierSem - 1
          /\ UNCHANGED sMutex
      BY <2>6 DEF S!WaitBarrier
    <3>2. SemPosting' = SemPosting
      BY <1>0, <2>1, <3>1 DEF S!TypeOK, SemPosting
    <3>3. SemMutexInv'
      BY <1>0, <2>1, <3>1 DEF S!TypeOK, SemInv, SemMutexInv
    <3>4. SemPostInv'
      BY <1>0, <1>n, <2>1, <2>3, <2>4, <3>1, <3>2 DEF S!TypeOK, SemInv, SemPostInv, sN
    <3>5. S!TypeOK'
      BY <1>0, <2>1, <3>1 DEF S!TypeOK, S!Steps
    <3> QED
      BY <1>0, <2>1, <2>2, <3>3, <3>4, <3>5 DEF SemInv, S!TypeOK
  <2> QED
    BY <1>4, <2>5, <2>6
<1>5. ASSUME NEW t \in sThreads, S!PostMutex(t) PROVE SemInv'
  <2>1. /\ sPc[t] = "leave" /\ sMutex' = sMutex + 1
        /\ sPc' = [sPc EXCEPT ![t] = "wait"]
        /\ UNCHANGED <<sCounter, sBarrierSem, sPosts, sJoined>>
    BY <1>5 DEF S!PostMutex, S!Goto
  <2>2. S!Arrived' = S!Arrived /\ S!Passed' = S!Passed /\ SemPosting' = SemPosting
    BY <1>0, <2>1 DEF S!TypeOK, S!Arrived, S!Passed, SemPosting
  <2>3. sMutex = 0 /\ sMutex' = 1
    BY <1>0, <2>1 DEF S!TypeOK, SemInv, SemMutexInv
  <2>4. SemMutexInv'
    BY <1>0, <2>1, <2>3 DEF S!TypeOK, SemInv, SemMutexInv
  <2>5. S!TypeOK'
    BY <1>0, <2>1, <2>3 DEF S!TypeOK, S!Steps
  <2> QED
    BY <1>0, <2>1, <2>2, <2>4, <2>5 DEF SemInv, SemPostInv, sN, S!TypeOK
<1>6. CASE S!Join
  <2>1. /\ \A t \in sThreads : sPc[t] \in {"passed", "lost"}
        /\ sJoined' = TRUE
        /\ UNCHANGED <<sPc, sCounter, sMutex, sBarrierSem, sPosts>>
    BY <1>6 DEF S!Join
  <2> QED
    BY <2>1 DEF SemInv, S!TypeOK, SemMutexInv, SemPostInv, SemPosting, S!Arrived, S!Passed, sN
<1>7. CASE UNCHANGED sVars
  BY <1>7 DEF sVars, SemInv, S!TypeOK, SemMutexInv, SemPostInv, SemPosting, S!Arrived, S!Passed, sN
<1> QED
  BY <1>1, <1>2, <1>3, <1>4, <1>5, <1>6, <1>7 DEF S!Next, S!Thread

LEMMA SemNothingLeft == SemInv => S!NothingLeft
<1> SUFFICES ASSUME SemInv, sJoined PROVE sMutex = 1 /\ sBarrierSem = 0
  BY DEF S!NothingLeft
<1>1. \A t \in sThreads : sPc[t] \in {"passed", "lost"}
  BY DEF SemInv
<1>2. sMutex = 1
  BY <1>1 DEF SemInv, SemMutexInv
<1>3. ~SemPosting /\ S!Arrived = S!Passed
  BY <1>1 DEF S!Arrived, S!Passed, SemPosting
<1>4. CASE sCounter < sN
  BY <1>2, <1>4 DEF SemInv, SemPostInv
<1>5. CASE sCounter = sN
  BY <1>2, <1>3, <1>5, SemCounts DEF SemInv, S!TypeOK, SemPostInv
<1>6. sCounter < sN \/ sCounter = sN
  BY SemCounts DEF SemInv, S!TypeOK
<1> QED
  BY <1>4, <1>5, <1>6

(* A thread that counts itself arrives; one that leaves the barrier passes, *)
(* and then the posts show that all have counted.                          *)
LEMMA SemImplements == SemInv /\ [S!Next]_sVars => [S!barrier!Next]_<<S!Arrived, S!Passed>>
<1> SUFFICES ASSUME SemInv, [S!Next]_sVars PROVE [S!barrier!Next]_<<S!Arrived, S!Passed>>
  OBVIOUS
<1>0. S!TypeOK
  BY DEF SemInv
<1>1. ASSUME NEW t \in sThreads, S!Count(t) PROVE S!barrier!Arrive(t)
  <2>1. sPc[t] = "count" /\ \E s \in {"post", "leave"} : sPc' = [sPc EXCEPT ![t] = s]
    BY <1>1 DEF S!Count, S!Goto
  <2> QED
    BY <1>0, <2>1 DEF S!TypeOK, S!barrier!Arrive, S!Arrived, S!Passed
<1>2. ASSUME NEW t \in sThreads, S!LastLeaves(t) \/ S!WaitBarrier(t) PROVE S!barrier!Pass(t)
  <2>1. /\ sPc[t] \in {"post", "wait"} /\ sPc' = [sPc EXCEPT ![t] = "passed"]
    BY <1>2 DEF S!LastLeaves, S!WaitBarrier, S!Goto
  <2>2. sCounter = sN
    <3>1. sN \in Nat /\ S!N = sN
      BY SemCounts
    <3> QED
      BY <1>0, <1>2, <3>1 DEF S!TypeOK, SemInv, SemPostInv, SemPosting, S!LastLeaves, S!WaitBarrier
  <2>3. S!Arrived = sThreads
    <3>1. S!Arrived \in SUBSET sThreads
      BY DEF S!Arrived
    <3> QED
      BY <2>2, <3>1, SemCounts DEF SemInv
  <2> QED
    BY <1>0, <2>1, <2>3 DEF S!TypeOK, S!barrier!Pass, S!Arrived, S!Passed
<1>3. ASSUME NEW t \in sThreads, S!WaitMutex(t) \/ S!PostBarrier(t) \/ S!PostMutex(t)
      PROVE  UNCHANGED <<S!Arrived, S!Passed>>
  BY <1>0, <1>3 DEF S!TypeOK, S!WaitMutex, S!PostBarrier, S!PostMutex, S!Goto, S!Arrived, S!Passed
<1>4. CASE S!Join \/ UNCHANGED sVars
  BY <1>4 DEF S!Join, sVars, S!Arrived, S!Passed
<1> QED
  BY <1>1, <1>2, <1>3, <1>4 DEF S!Next, S!Thread, S!barrier!Next

-----------------------------------------------------------------------------
(* The barrier of a condition variable.                                    *)

bN == Cardinality(bThreads)

CondInv == /\ B!TypeOK
           /\ bCount = Cardinality(B!Arrived)
           /\ \A t \in bThreads : bPc[t] \in {"broadcast", "unlock", "passed"} => bCount = bN

LEMMA CondCounts ==
  /\ IsFiniteSet(bThreads) /\ bN \in Nat /\ B!N = bN
  /\ \A X \in SUBSET bThreads : /\ IsFiniteSet(X) /\ Cardinality(X) \in Nat
                                /\ Cardinality(X) <= bN
                                /\ Cardinality(X) = bN => X = bThreads
<1>1. IsFiniteSet(bThreads)
  BY LabsAssumption, SameSets DEF B!ThreadsAssumption
<1>2. bN \in Nat
  BY <1>1, FS_CardinalityType DEF bN
<1>3. B!N = bN
  BY SameSets DEF B!N, bN
<1>4. ASSUME NEW X \in SUBSET bThreads
      PROVE  /\ IsFiniteSet(X) /\ Cardinality(X) \in Nat
             /\ Cardinality(X) <= bN
             /\ Cardinality(X) = bN => X = bThreads
  <2>1. IsFiniteSet(X) /\ Cardinality(X) <= bN /\ (Cardinality(X) = bN => X = bThreads)
    BY <1>1, FS_Subset DEF bN
  <2> QED
    BY <2>1, FS_CardinalityType
<1> QED
  BY <1>1, <1>2, <1>3, <1>4

LEMMA CondInit == B!Init => CondInv
<1> SUFFICES ASSUME B!Init PROVE CondInv
  OBVIOUS
<1>1. B!TypeOK
  <2>1. 0 \in 0..B!N
    BY CondCounts
  <2> QED
    BY <2>1 DEF B!Init, B!TypeOK
<1>2. B!Arrived = {}
  BY DEF B!Init, B!Arrived
<1>3. Cardinality(B!Arrived) = 0
  BY <1>2, FS_EmptySet
<1> QED
  BY <1>1, <1>3 DEF B!Init, CondInv

LEMMA CondStepInv == CondInv /\ [B!Next]_bVars => CondInv'
<1> SUFFICES ASSUME CondInv, [B!Next]_bVars PROVE CondInv'
  OBVIOUS
<1>0. B!TypeOK
  BY DEF CondInv
<1>1. ASSUME NEW t \in bThreads, B!Counts(t) PROVE CondInv'
  <2>1. /\ bPc[t] = "count" /\ bCount' = bCount + 1 /\ UNCHANGED <<bLock, bJoined>>
        /\ bPc' = [bPc EXCEPT ![t] = IF bCount + 1 = bN THEN "broadcast" ELSE "check"]
    BY <1>1, CondCounts DEF B!Counts, B!Goto
  <2>2. /\ B!Arrived' = B!Arrived \cup {t} /\ t \notin B!Arrived
        /\ B!Arrived \in SUBSET bThreads /\ B!Arrived' \in SUBSET bThreads
    BY <1>0, <2>1 DEF B!TypeOK, B!Arrived
  <2>3. Cardinality(B!Arrived') = bCount + 1 /\ Cardinality(B!Arrived') <= bN
    BY <2>2, CondCounts, FS_AddElement DEF CondInv
  <2>4. B!TypeOK'
    BY <1>0, <2>1, <2>3, CondCounts DEF B!TypeOK
  <2>5. \A u \in bThreads \ {t} : bPc'[u] \notin {"broadcast", "unlock", "passed"}
    BY <1>0, <2>1, <2>3, CondCounts DEF B!TypeOK, CondInv
  <2>6. bPc'[t] \in {"broadcast", "unlock", "passed"} => bCount' = bN
    BY <1>0, <2>1 DEF B!TypeOK
  <2> QED
    BY <2>1, <2>3, <2>4, <2>5, <2>6 DEF CondInv, bN
<1>2. ASSUME NEW t \in bThreads,
             \/ B!Lock(t) \/ B!CondWait(t) \/ B!Relock(t) \/ B!EndLoop(t) \/ B!Unlock(t)
             \/ B!WakeSpuriously(t)
      PROVE  CondInv'
  <2>1. bCount' = bCount
    BY <1>2 DEF B!Lock, B!CondWait, B!Relock, B!EndLoop, B!Unlock, B!WakeSpuriously
  <2>2. B!TypeOK'
    BY <1>0, <1>2 DEF B!TypeOK, B!Goto, B!Lock, B!CondWait, B!Relock, B!EndLoop, B!Unlock,
           B!WakeSpuriously
  <2>3. B!Arrived' = B!Arrived
    BY <1>0, <1>2 DEF B!TypeOK, B!Arrived, B!Goto, B!Lock, B!CondWait, B!Relock, B!EndLoop,
           B!Unlock, B!WakeSpuriously
  <2>4. \A u \in bThreads : bPc'[u] \in {"broadcast", "unlock", "passed"} =>
          bPc[u] \in {"broadcast", "unlock", "passed"} \/ bCount >= bN
    BY <1>0, <1>2, CondCounts DEF B!TypeOK, B!Goto, B!Lock, B!CondWait, B!Relock, B!EndLoop,
           B!Unlock, B!WakeSpuriously
  <2>5. bCount <= bN /\ bCount \in Nat
    BY <1>0, CondCounts DEF B!TypeOK
  <2> QED
    BY <2>1, <2>2, <2>3, <2>4, <2>5, CondCounts DEF CondInv, bN
<1>3. ASSUME NEW t \in bThreads, B!Broadcast(t) PROVE CondInv'
  <2>1. /\ bPc[t] = "broadcast" /\ UNCHANGED <<bCount, bLock, bJoined>>
        /\ bPc' \in [bThreads -> {"work", "count", "broadcast", "check", "asleep", "woken",
                                  "unlock", "passed"}]
        /\ \A u \in bThreads : \/ bPc'[u] = bPc[u]
                               \/ bPc'[u] = "unlock" /\ u = t
                               \/ bPc'[u] = "woken" /\ bPc[u] = "asleep"
    BY <1>0, <1>3 DEF B!TypeOK, B!Broadcast
  <2>2. B!TypeOK' /\ B!Arrived' = B!Arrived
    BY <1>0, <2>1 DEF B!TypeOK, B!Arrived
  <2> QED
    BY <2>1, <2>2 DEF CondInv, bN
<1>4. CASE B!Join
  BY <1>4 DEF B!Join, CondInv, B!TypeOK, B!Arrived
<1>5. CASE UNCHANGED bVars
  BY <1>5 DEF bVars, CondInv, B!TypeOK, B!Arrived
<1> QED
  BY <1>1, <1>2, <1>3, <1>4, <1>5 DEF B!Next, B!Run

(* A thread that counts itself arrives; one that gives the mutex up at the *)
(* end passes, and has found the count complete.                           *)
LEMMA CondImplements == CondInv /\ [B!Next]_bVars => [B!barrier!Next]_<<B!Arrived, B!Passed>>
<1> SUFFICES ASSUME CondInv, [B!Next]_bVars PROVE [B!barrier!Next]_<<B!Arrived, B!Passed>>
  OBVIOUS
<1>0. B!TypeOK
  BY DEF CondInv
<1>1. ASSUME NEW t \in bThreads, B!Counts(t) PROVE B!barrier!Arrive(t)
  <2>1. bPc[t] = "count" /\ \E s \in {"broadcast", "check"} : bPc' = [bPc EXCEPT ![t] = s]
    BY <1>1 DEF B!Counts, B!Goto
  <2> QED
    BY <1>0, <2>1 DEF B!TypeOK, B!barrier!Arrive, B!Arrived, B!Passed
<1>2. ASSUME NEW t \in bThreads, B!Unlock(t) PROVE B!barrier!Pass(t)
  <2>1. bPc[t] = "unlock" /\ bPc' = [bPc EXCEPT ![t] = "passed"]
    BY <1>2 DEF B!Unlock, B!Goto
  <2>2. B!Arrived = bThreads
    <3>1. B!Arrived \in SUBSET bThreads
      BY DEF B!Arrived
    <3> QED
      BY <2>1, <3>1, CondCounts DEF CondInv
  <2> QED
    BY <1>0, <2>1, <2>2 DEF B!TypeOK, B!barrier!Pass, B!Arrived, B!Passed
<1>3. ASSUME NEW t \in bThreads,
             B!Lock(t) \/ B!CondWait(t) \/ B!Relock(t) \/ B!EndLoop(t) \/ B!WakeSpuriously(t)
      PROVE  UNCHANGED <<B!Arrived, B!Passed>>
  BY <1>0, <1>3 DEF B!TypeOK, B!Goto, B!Lock, B!CondWait, B!Relock, B!EndLoop,
         B!WakeSpuriously, B!Arrived, B!Passed
<1>4. ASSUME NEW t \in bThreads, B!Broadcast(t) PROVE UNCHANGED <<B!Arrived, B!Passed>>
  <2>1. \A u \in bThreads : \/ bPc'[u] = bPc[u]
                            \/ bPc'[u] = "unlock" /\ bPc[u] = "broadcast"
                            \/ bPc'[u] = "woken" /\ bPc[u] = "asleep"
    BY <1>0, <1>4 DEF B!TypeOK, B!Broadcast
  <2> QED
    BY <2>1 DEF B!Arrived, B!Passed
<1>5. CASE B!Join \/ UNCHANGED bVars
  BY <1>5 DEF B!Join, bVars, B!Arrived, B!Passed
<1> QED
  BY <1>1, <1>2, <1>3, <1>4, <1>5 DEF B!Next, B!Run, B!barrier!Next

-----------------------------------------------------------------------------
(* The bounded buffer.                                                     *)

(* One who is past a semaphore and has not posted the other one yet.       *)
Holding(pc) == IF pc \in {"mutex", "work", "release", "signal"} THEN 1 ELSE 0
Locking(pc) == IF pc \in {"work", "release"} THEN 1 ELSE 0

BookInv == /\ fEmpty = BufferSize - fP - Holding(fPpc) + fC
           /\ fFilled = fP - fC - Holding(fCpc)
           /\ fMutex = 1 - Locking(fPpc) - Locking(fCpc)
           /\ Holding(fPpc) = 1 => fP < NumItems
           /\ Holding(fCpc) = 1 => fC < NumItems

Inside == F!Made - F!Got
Ring(k) == IF k < BufferSize THEN k ELSE k - BufferSize

(* The items between out and in are the next ones to be got, in order.     *)
ContentInv == /\ fOut + Inside = fIn \/ fOut + Inside = fIn + BufferSize
              /\ \A k \in 0..(Inside - 1) : fBuffer[Ring(fOut + k)] = F!Item(F!Got + k)

BufferInv == F!TypeOK /\ BookInv /\ ContentInv

LEMMA Sizes == BufferSize \in Nat /\ BufferSize > 0 /\ NumItems \in Nat
  BY LabsAssumption DEF F!SizesAssumption

LEMMA RingAdvance == \A k \in F!Places : F!Advance(k) = Ring(k + 1) /\ Ring(k + 1) \in F!Places
  BY Sizes DEF F!Places, F!Advance, Ring

LEMMA ItemsFacts ==
  /\ DOMAIN F!Items = 1..NumItems /\ Len(F!Items) = NumItems
  /\ \A k \in 1..NumItems : F!Items[k] = 100 + k - 1
  BY Sizes DEF F!Items, F!Item

LEMMA InsideFacts ==
  ASSUME F!TypeOK, BookInv
  PROVE  /\ F!Made \in Nat /\ F!Got \in Nat /\ Inside \in 0..BufferSize
         /\ fOut \in F!Places /\ fIn \in F!Places /\ fP \in Nat /\ fC \in Nat
         /\ fPpc = "work" => Inside < BufferSize /\ F!Made = fP /\ fP < NumItems
         /\ fCpc = "work" => Inside > 0 /\ F!Got = fC /\ fC < NumItems
<1>1. /\ fP \in 0..NumItems /\ fC \in 0..NumItems /\ fOut \in F!Places /\ fIn \in F!Places
      /\ fEmpty \in 0..BufferSize /\ fFilled \in 0..BufferSize
  BY DEF F!TypeOK
<1> QED
  BY <1>1, Sizes DEF BookInv, Inside, F!Made, F!Got, Holding

LEMMA BufferInit == F!Init => BufferInv
<1> SUFFICES ASSUME F!Init PROVE BufferInv
  OBVIOUS
<1>1. /\ fPpc \in {"slot", "lost"} /\ fCpc \in {"slot", "lost"}
      /\ fP = 0 /\ fC = 0 /\ fIn = 0 /\ fOut = 0
      /\ fEmpty = BufferSize /\ fFilled = 0 /\ fMutex = 1 /\ fItem = None
      /\ fBuffer = [k \in F!Places |-> None]
  BY DEF F!Init
<1>2. fJoined \in BOOLEAN
  BY DEF F!Init
<1>3. 0 \in F!Places /\ 0 \in 0..NumItems /\ 0 \in 0..BufferSize /\ BufferSize \in 0..BufferSize
  BY Sizes DEF F!Places
<1>4. F!TypeOK
  BY <1>1, <1>2, <1>3 DEF F!TypeOK, F!Steps
<1>5. BookInv
  <2>1. Holding(fPpc) = 0 /\ Holding(fCpc) = 0 /\ Locking(fPpc) = 0 /\ Locking(fCpc) = 0
    BY <1>1 DEF Holding, Locking
  <2> QED
    BY <1>1, <2>1, Sizes DEF BookInv
<1>6. F!Made = 0 /\ F!Got = 0
  BY <1>1 DEF F!Made, F!Got
<1> QED
  BY <1>1, <1>4, <1>5, <1>6 DEF BufferInv, ContentInv, Inside

LEMMA BookStep == F!TypeOK /\ BookInv /\ [F!Next]_fVars => BookInv'
<1> SUFFICES ASSUME F!TypeOK, BookInv, [F!Next]_fVars PROVE BookInv'
  OBVIOUS
<1>1. /\ fP \in Nat /\ fC \in Nat /\ fEmpty \in Nat /\ fFilled \in Nat /\ fMutex \in 0..1
      /\ BufferSize \in Nat /\ NumItems \in Nat
  BY Sizes DEF F!TypeOK
<1> USE DEF BookInv, Holding, Locking, F!sems, F!producer, F!consumer
<1>2. CASE F!Producer
  BY <1>1, <1>2 DEF F!Producer, F!WaitEmpty, F!ProducerLocks, F!Produce, F!ProducerUnlocks,
                    F!PostFilled
<1>3. CASE F!Consumer
  BY <1>1, <1>3 DEF F!Consumer, F!WaitFilled, F!ConsumerLocks, F!Consume, F!ConsumerUnlocks,
                    F!PostEmpty
<1>4. CASE F!Join
  BY <1>4 DEF F!Join
<1>5. CASE UNCHANGED fVars
  BY <1>5 DEF fVars
<1> QED
  BY <1>2, <1>3, <1>4, <1>5 DEF F!Next

LEMMA BufferType == BufferInv /\ [F!Next]_fVars => F!TypeOK'
<1> SUFFICES ASSUME BufferInv, [F!Next]_fVars PROVE F!TypeOK'
  OBVIOUS
<1> DEFINE Values == {F!Items[k] : k \in DOMAIN F!Items} \cup {None}
<1>0. /\ fPpc \in F!Steps /\ fCpc \in F!Steps
      /\ fP \in 0..NumItems /\ fC \in 0..NumItems
      /\ fBuffer \in [F!Places -> Values] /\ fItem \in Values
      /\ fIn \in F!Places /\ fOut \in F!Places
      /\ fEmpty \in 0..BufferSize /\ fFilled \in 0..BufferSize /\ fMutex \in 0..1
      /\ BufferSize \in Nat /\ NumItems \in Nat
  BY Sizes DEF BufferInv, F!TypeOK
<1>book. BookInv /\ BookInv'
  BY BookStep DEF BufferInv
<1>in. F!Advance(fIn) \in F!Places /\ F!Advance(fOut) \in F!Places
  BY <1>0, RingAdvance
<1>item. fPpc = "work" => F!Item(fP) \in Values
  <2> SUFFICES ASSUME fPpc = "work" PROVE F!Item(fP) \in Values
    OBVIOUS
  <2>1. fP + 1 \in DOMAIN F!Items /\ F!Items[fP + 1] = F!Item(fP)
    BY <1>0, <1>book, ItemsFacts DEF BookInv, Holding, F!Item
  <2> QED
    BY <2>1
<1>get. fBuffer[fOut] \in Values
  BY <1>0
<1> HIDE DEF Values
<1> USE DEF F!sems, F!producer, F!consumer, F!Steps
<1>1. /\ fPpc' \in F!Steps /\ fCpc' \in F!Steps
      /\ fBuffer' \in [F!Places -> Values] /\ fItem' \in Values
      /\ fIn' \in F!Places /\ fOut' \in F!Places
      /\ fP' \in Nat /\ fC' \in Nat /\ fP' <= NumItems /\ fC' <= NumItems
  <2>1. CASE F!Producer
    BY <1>0, <1>in, <1>item, <1>book, <2>1 DEF F!Producer, F!WaitEmpty, F!ProducerLocks, F!Produce,
       F!ProducerUnlocks, F!PostFilled, BookInv, Holding
  <2>2. CASE F!Consumer
    BY <1>0, <1>in, <1>get, <1>book, <2>2 DEF F!Consumer, F!WaitFilled, F!ConsumerLocks, F!Consume,
       F!ConsumerUnlocks, F!PostEmpty, BookInv, Holding
  <2>3. CASE F!Join
    BY <1>0, <2>3 DEF F!Join
  <2>4. CASE UNCHANGED fVars
    BY <1>0, <2>4 DEF fVars
  <2> QED
    BY <2>1, <2>2, <2>3, <2>4 DEF F!Next
<1>2. fEmpty' \in Nat /\ fFilled' \in Nat /\ fMutex' \in Nat
  <2>1. CASE F!Producer
    BY <1>0, <2>1 DEF F!Producer, F!WaitEmpty, F!ProducerLocks, F!Produce,
       F!ProducerUnlocks, F!PostFilled
  <2>2. CASE F!Consumer
    BY <1>0, <2>2 DEF F!Consumer, F!WaitFilled, F!ConsumerLocks, F!Consume,
       F!ConsumerUnlocks, F!PostEmpty
  <2>3. CASE F!Join
    BY <1>0, <2>3 DEF F!Join
  <2>4. CASE UNCHANGED fVars
    BY <1>0, <2>4 DEF fVars
  <2> QED
    BY <2>1, <2>2, <2>3, <2>4 DEF F!Next
<1>3. fEmpty' \in 0..BufferSize /\ fFilled' \in 0..BufferSize /\ fMutex' \in 0..1
  <2>1. Holding(fPpc') \in 0..1 /\ Holding(fCpc') \in 0..1
    BY DEF Holding
  <2>2. Locking(fPpc') \in 0..1 /\ Locking(fCpc') \in 0..1
    BY DEF Locking
  <2>3. /\ fEmpty' = BufferSize - fP' - Holding(fPpc') + fC'
        /\ fFilled' = fP' - fC' - Holding(fCpc')
        /\ fMutex' = 1 - Locking(fPpc') - Locking(fCpc')
    BY <1>book DEF BookInv
  <2> QED
    BY <1>0, <1>1, <1>2, <2>1, <2>2, <2>3
<1>4. fJoined' \in BOOLEAN
  BY DEF BufferInv, F!TypeOK, F!Next, F!Producer, F!WaitEmpty, F!ProducerLocks, F!Produce,
     F!ProducerUnlocks, F!PostFilled, F!Consumer, F!WaitFilled, F!ConsumerLocks, F!Consume,
     F!ConsumerUnlocks, F!PostEmpty, F!Join, fVars
<1>5. fP' \in 0..NumItems /\ fC' \in 0..NumItems
  BY <1>0, <1>1
<1> QED
  BY <1>1, <1>3, <1>4, <1>5 DEF F!TypeOK, Values

(* Only two steps touch the buffer.                                        *)
LEMMA BufferQuietSteps ==
  ASSUME F!TypeOK, [F!Next]_fVars, ~F!Produce, ~F!Consume
  PROVE  UNCHANGED <<F!Made, F!Got, fIn, fOut, fBuffer, fItem>>
<1>1. fP \in Nat /\ fC \in Nat
  BY Sizes DEF F!TypeOK
<1> USE DEF F!sems, F!producer, F!consumer, F!Made, F!Got
<1>2. CASE F!Producer
  BY <1>1, <1>2 DEF F!Producer, F!WaitEmpty, F!ProducerLocks, F!ProducerUnlocks, F!PostFilled
<1>3. CASE F!Consumer
  BY <1>1, <1>3 DEF F!Consumer, F!WaitFilled, F!ConsumerLocks, F!ConsumerUnlocks, F!PostEmpty
<1>4. CASE F!Join
  BY <1>4 DEF F!Join
<1>5. CASE UNCHANGED fVars
  BY <1>5 DEF fVars
<1> QED
  BY <1>2, <1>3, <1>4, <1>5 DEF F!Next

(* Where the items are after a step.                                       *)
LEMMA ContentStep == BufferInv /\ [F!Next]_fVars => ContentInv'
<1> SUFFICES ASSUME BufferInv, [F!Next]_fVars PROVE ContentInv'
  OBVIOUS
<1>0. /\ F!TypeOK /\ BookInv /\ ContentInv
      /\ BufferSize \in Nat /\ BufferSize > 0
      /\ F!Made \in Nat /\ F!Got \in Nat /\ Inside \in 0..BufferSize
      /\ fOut \in F!Places /\ fIn \in F!Places
  BY InsideFacts, Sizes DEF BufferInv
<1>1. CASE F!Produce
  <2>1. /\ fPpc = "work" /\ fPpc' = "release" /\ fIn' = Ring(fIn + 1)
        /\ fBuffer' = [fBuffer EXCEPT ![fIn] = F!Item(fP)]
        /\ UNCHANGED <<fP, fC, fCpc, fOut>>
    BY <1>0, <1>1, RingAdvance DEF F!Produce, F!consumer
  <2>2. /\ F!Made = fP /\ F!Made' = F!Made + 1 /\ F!Got' = F!Got /\ Inside < BufferSize
        /\ Inside' = Inside + 1
    BY <1>0, <2>1, InsideFacts DEF F!Made, F!Got, Inside
  <2>3. fIn = Ring(fOut + Inside)
    BY <1>0, <2>2 DEF ContentInv, Ring, F!Places
  <2>4. \A k \in 0..(Inside - 1) : Ring(fOut + k) \in F!Places /\ Ring(fOut + k) # fIn
    BY <1>0, <2>2, <2>3 DEF Ring, F!Places
  <2>5. \A k \in 0..Inside : fBuffer'[Ring(fOut + k)] = F!Item(F!Got + k)
    <3> SUFFICES ASSUME NEW k \in 0..Inside
                 PROVE  fBuffer'[Ring(fOut + k)] = F!Item(F!Got + k)
      OBVIOUS
    <3>1. CASE k = Inside
      <4>1. F!Got + k = fP
        BY <1>0, <2>2, <3>1 DEF Inside
      <4>2. fBuffer'[fIn] = F!Item(fP)
        BY <1>0, <2>1 DEF F!TypeOK
      <4> QED
        BY <2>3, <3>1, <4>1, <4>2
    <3>2. CASE k # Inside
      <4>1. k \in 0..(Inside - 1)
        BY <1>0, <3>2
      <4>2. fBuffer'[Ring(fOut + k)] = fBuffer[Ring(fOut + k)]
        BY <2>1, <2>4, <4>1 DEF BufferInv, F!TypeOK
      <4> QED
        BY <1>0, <4>1, <4>2 DEF ContentInv
    <3> QED
      BY <3>1, <3>2
  <2>6. fOut + Inside' = fIn' \/ fOut + Inside' = fIn' + BufferSize
    BY <1>0, <2>1, <2>2 DEF ContentInv, Ring, F!Places
  <2> QED
    BY <1>0, <2>1, <2>2, <2>5, <2>6 DEF ContentInv
<1>2. CASE F!Consume
  <2>1. /\ fCpc = "work" /\ fCpc' = "release" /\ fOut' = Ring(fOut + 1)
        /\ UNCHANGED <<fP, fC, fPpc, fIn, fBuffer>>
    BY <1>0, <1>2, RingAdvance DEF F!Consume, F!producer
  <2>2. /\ F!Made' = F!Made /\ F!Got' = F!Got + 1 /\ Inside > 0
        /\ Inside' = Inside - 1
    BY <1>0, <2>1, InsideFacts DEF F!Made, F!Got, Inside
  <2>3. \A k \in 0..(Inside - 2) : Ring(Ring(fOut + 1) + k) = Ring(fOut + (k + 1))
    BY <1>0, <2>2 DEF Ring, F!Places
  <2>4. \A k \in 0..(Inside - 2) : fBuffer[Ring(fOut + (k + 1))] = F!Item(F!Got + (k + 1))
    <3> SUFFICES ASSUME NEW k \in 0..(Inside - 2)
                 PROVE  fBuffer[Ring(fOut + (k + 1))] = F!Item(F!Got + (k + 1))
      OBVIOUS
    <3>1. k + 1 \in 0..(Inside - 1)
      BY <1>0
    <3> QED
      BY <1>0, <3>1 DEF ContentInv
  <2>5. \A k \in 0..(Inside - 2) : F!Got + (k + 1) = (F!Got + 1) + k
    BY <1>0
  <2>6. fOut' + Inside' = fIn' \/ fOut' + Inside' = fIn' + BufferSize
    BY <1>0, <2>1, <2>2 DEF ContentInv, Ring, F!Places
  <2>7. Inside' - 1 = Inside - 2
    BY <1>0, <2>2
  <2> QED
    BY <2>1, <2>2, <2>3, <2>4, <2>5, <2>6, <2>7 DEF ContentInv
<1>3. ASSUME UNCHANGED <<F!Made, F!Got, fIn, fOut, fBuffer>> PROVE ContentInv'
  BY <1>0, <1>3 DEF ContentInv, Inside
<1>4. CASE ~F!Produce /\ ~F!Consume
  BY <1>0, <1>3, <1>4, BufferQuietSteps
<1> QED
  BY <1>1, <1>2, <1>4

LEMMA BufferStepInv == BufferInv /\ [F!Next]_fVars => BufferInv'
  BY BookStep, BufferType, ContentStep DEF BufferInv

(* The queue is the run of items from the next one to be got.              *)
LEMMA QueueIs == BufferInv => F!Queue = [k \in 1..Inside |-> 100 + F!Got + k - 1]
<1> SUFFICES ASSUME BufferInv PROVE F!Queue = [k \in 1..Inside |-> 100 + F!Got + k - 1]
  OBVIOUS
<1>1. /\ BufferSize \in Nat /\ Inside \in 0..BufferSize /\ F!Got \in Nat /\ fOut \in F!Places
      /\ ContentInv
  BY InsideFacts, Sizes DEF BufferInv
<1>2. ASSUME NEW k \in 1..Inside
      PROVE  fBuffer[(fOut + k - 1) % BufferSize] = 100 + F!Got + k - 1
  <2>1. fOut + k - 1 \in 0..(2 * BufferSize - 1) /\ k - 1 \in 0..(Inside - 1)
    BY <1>1 DEF F!Places
  <2>2. (fOut + k - 1) % BufferSize = Ring(fOut + (k - 1))
    BY <1>1, <2>1, Sizes DEF Ring, F!Places
  <2>3. fBuffer[Ring(fOut + (k - 1))] = 100 + (F!Got + (k - 1))
    BY <1>1, <2>1 DEF ContentInv, F!Item
  <2> QED
    BY <1>1, <2>2, <2>3
<1>3. F!Made - F!Got = Inside
  BY DEF Inside
<1> QED
  BY <1>2, <1>3 DEF F!Queue

LEMMA NextQueueIs == BufferInv' => F!Queue' = [k \in 1..(Inside') |-> 100 + F!Got' + k - 1]
<1>1. (BufferInv => F!Queue = [k \in 1..Inside |-> 100 + F!Got + k - 1])'
  BY QueueIs, PTL
<1> QED
  BY <1>1

(* Adding at the end and taking from the front of a run of numbers.        *)
LEMMA RunAppend ==
  ASSUME NEW n \in Nat, NEW g \in Nat
  PROVE  [k \in 1..(n + 1) |-> 100 + g + k - 1] = Append([k \in 1..n |-> 100 + g + k - 1], 100 + g + n)
  OBVIOUS

LEMMA RunTail ==
  ASSUME NEW n \in Nat, NEW g \in Nat, n > 0
  PROVE  LET q == [k \in 1..n |-> 100 + g + k - 1]
         IN  /\ q # <<>> /\ Head(q) = 100 + g
             /\ Tail(q) = [k \in 1..(n - 1) |-> 100 + (g + 1) + k - 1]
<1> DEFINE q == [k \in 1..n |-> 100 + g + k - 1]
           r == [k \in 1..(n - 1) |-> 100 + (g + 1) + k - 1]
<1>1. q \in Seq(Nat) /\ Len(q) = n /\ \A k \in 1..n : q[k] = 100 + g + k - 1
  OBVIOUS
<1>2. r \in Seq(Nat) /\ Len(r) = n - 1 /\ \A k \in 1..(n - 1) : r[k] = 100 + (g + 1) + k - 1
  OBVIOUS
<1> HIDE DEF q, r
<1>3. q # <<>>
  BY <1>1
<1>4. Head(q) = 100 + g
  BY <1>1, <1>3
<1>5. /\ Tail(q) \in Seq(Nat) /\ Len(Tail(q)) = n - 1
      /\ \A k \in 1..(n - 1) : Tail(q)[k] = q[k + 1]
  BY <1>1, <1>3, HeadTailProperties
<1>6. \A k \in 1..(n - 1) : Tail(q)[k] = r[k]
  BY <1>1, <1>2, <1>5
<1>7. Tail(q) = r
  BY <1>2, <1>5, <1>6, SeqEqual
<1> QED
  BY <1>3, <1>4, <1>7 DEF q, r

LEMMA BufferImplementsInit == F!Init => F!fifo!Init
<1> SUFFICES ASSUME F!Init PROVE F!fifo!Init
  OBVIOUS
<1>1. F!Made = 0 /\ F!Got = 0 /\ fItem = None
  BY DEF F!Init, F!Made, F!Got
<1>2. F!Queue = <<>>
  BY <1>1 DEF F!Queue
<1> QED
  BY <1>1, <1>2 DEF F!fifo!Init

(* Produce puts the next item, Consume gets the first one.                 *)
LEMMA BufferImplements ==
  BufferInv /\ [F!Next]_fVars => [F!fifo!Next]_<<F!Queue, F!Made, fItem>>
<1> SUFFICES ASSUME BufferInv, [F!Next]_fVars
             PROVE  [F!fifo!Next]_<<F!Queue, F!Made, fItem>>
  OBVIOUS
<1>0. /\ F!TypeOK /\ BookInv /\ BufferInv'
      /\ F!Made \in Nat /\ F!Got \in Nat /\ Inside \in 0..BufferSize
      /\ fOut \in F!Places /\ fIn \in F!Places
  BY InsideFacts, BufferStepInv DEF BufferInv
<1>q. /\ F!Queue = [k \in 1..Inside |-> 100 + F!Got + k - 1]
      /\ F!Queue' = [k \in 1..(Inside') |-> 100 + F!Got' + k - 1]
  BY <1>0, QueueIs, NextQueueIs
<1>1. CASE F!Produce
  <2>1. /\ fPpc = "work" /\ fPpc' = "release"
        /\ UNCHANGED <<fP, fC, fCpc, fItem>>
    BY <1>1 DEF F!Produce, F!consumer
  <2>2. /\ F!Made < NumItems /\ F!Made' = F!Made + 1 /\ F!Got' = F!Got
        /\ Inside' = Inside + 1 /\ Inside < BufferSize /\ Inside \in Nat
        /\ F!Got + Inside = F!Made
    BY <1>0, <2>1, InsideFacts DEF F!Made, F!Got, Inside
  <2>3. F!Queue' = Append(F!Queue, 100 + F!Got + Inside)
    BY <1>0, <1>q, <2>2, RunAppend
  <2>4. Len(F!Queue) < BufferSize
    BY <1>0, <1>q, <2>2, Sizes
  <2>5. F!Made < Len(F!Items) /\ F!Items[F!Made + 1] = 100 + F!Got + Inside
    BY <1>0, <2>2, ItemsFacts, Sizes
  <2> QED
    BY <2>1, <2>2, <2>3, <2>4, <2>5 DEF F!fifo!Next, F!fifo!Put
<1>2. CASE F!Consume
  <2>1. /\ fCpc = "work" /\ fCpc' = "release" /\ fItem' = fBuffer[fOut]
        /\ UNCHANGED <<fP, fC, fPpc>>
    BY <1>2 DEF F!Consume, F!producer
  <2>2. /\ F!Made' = F!Made /\ F!Got' = F!Got + 1 /\ Inside > 0 /\ Inside \in Nat
        /\ Inside' = Inside - 1
    BY <1>0, <2>1, InsideFacts DEF F!Made, F!Got, Inside
  <2>3. F!Queue # <<>> /\ Head(F!Queue) = 100 + F!Got /\ F!Queue' = Tail(F!Queue)
    <3>1. F!Queue' = [k \in 1..(Inside - 1) |-> 100 + (F!Got + 1) + k - 1]
      BY <1>q, <2>2
    <3> QED
      BY <1>0, <1>q, <2>2, <3>1, RunTail
  <2>4. fBuffer[fOut] = 100 + F!Got
    <3>1. 0 \in 0..(Inside - 1) /\ Ring(fOut + 0) = fOut /\ F!Got + 0 = F!Got
      BY <1>0, <2>2, Sizes DEF Ring, F!Places
    <3>2. fBuffer[Ring(fOut + 0)] = F!Item(F!Got + 0)
      BY <3>1 DEF BufferInv, ContentInv
    <3> QED
      BY <3>1, <3>2 DEF F!Item
  <2> QED
    BY <2>1, <2>2, <2>3, <2>4 DEF F!fifo!Next, F!fifo!Get
<1>3. CASE ~F!Produce /\ ~F!Consume
  <2>1. UNCHANGED <<F!Made, F!Got, fIn, fOut, fBuffer, fItem>>
    BY <1>0, <1>3, BufferQuietSteps
  <2> QED
    BY <2>1 DEF F!Queue
<1> QED
  BY <1>1, <1>2, <1>3

-----------------------------------------------------------------------------
(* The shared counter.                                                     *)

(* The increments made so far, those of thread t numbered from 1.          *)
Made == {m \in nThreads \X (1..MaxValue) : m[2] <= nI[m[1]]}

AtMostMade == /\ nCounter <= Cardinality(Made)
              /\ \A t \in nThreads : nRegister[t] <= Cardinality(Made)

LoopInv == \A t \in nThreads :
              /\ nPc[t] \in {"load", "store"} => nI[t] < MaxValue
              /\ nPc[t] = "done" => nI[t] = MaxValue
              /\ nPc[t] = "unlock" => nLocked
              /\ nLocked => (nPc[t] \in {"load", "store", "unlock"} <=> nLock = t)

(* With the lock, or with one thread only, no update is lost.              *)
Alone == nLocked \/ Cardinality(nThreads) = 1
NoneLost == Alone => /\ nCounter = Cardinality(Made)
                     /\ \A t \in nThreads : nPc[t] = "store" => nRegister[t] = nCounter

(* Otherwise the first increment of a thread may undo all others, but a    *)
(* later one starts from 1 at least.                                       *)
TwoSurvive == /\ (\E t \in nThreads : nI[t] >= 1) => nCounter >= 1
              /\ \A t \in nThreads : nPc[t] = "store" /\ nI[t] >= 1 => nRegister[t] >= 1
              /\ \/ nCounter >= 2
                 \/ \A t \in nThreads : nI[t] = 0
                 \/ \E t \in nThreads : nI[t] = 1

LastPrints == N!Ended => \E t \in nThreads : nPrinted[t] = nCounter

OwnPrinted == \A t \in nThreads : nLocked /\ nPc[t] = "done" => nPrinted[t] >= MaxValue

CounterInv == /\ N!TypeOK /\ AtMostMade /\ LoopInv /\ NoneLost /\ TwoSurvive
              /\ LastPrints /\ OwnPrinted

LEMMA CounterFacts ==
  /\ IsFiniteSet(nThreads) /\ nThreads # {} /\ None \notin nThreads /\ MaxValue \in Nat
  /\ Cardinality(nThreads) \in Nat /\ Cardinality(nThreads) >= 1
  /\ N!Expected = Cardinality(nThreads) * MaxValue /\ N!Expected \in Nat
  /\ IsFiniteSet(nThreads \X (1..MaxValue))
  /\ Cardinality(nThreads \X (1..MaxValue)) = N!Expected
<1>1. IsFiniteSet(nThreads) /\ nThreads # {} /\ None \notin nThreads /\ MaxValue \in Nat
  BY LabsAssumption, SameSets DEF N!CounterAssumption
<1>2. Cardinality(nThreads) \in Nat /\ Cardinality(nThreads) # 0
  BY <1>1, FS_CardinalityType, FS_EmptySet
<1>3. N!Expected = Cardinality(nThreads) * MaxValue
  BY SameSets DEF N!Expected
<1>4. IsFiniteSet(1..MaxValue) /\ Cardinality(1..MaxValue) = MaxValue
  BY <1>1, FS_Interval
<1>5. /\ IsFiniteSet(nThreads \X (1..MaxValue))
      /\ Cardinality(nThreads \X (1..MaxValue)) = Cardinality(nThreads) * MaxValue
  BY <1>1, <1>4, FS_Product
<1> QED
  BY <1>1, <1>2, <1>3, <1>5

LEMMA MadeFacts ==
  /\ IsFiniteSet(Made) /\ Cardinality(Made) \in Nat /\ Cardinality(Made) <= N!Expected
<1>1. Made \in SUBSET (nThreads \X (1..MaxValue))
  BY DEF Made
<1> QED
  BY <1>1, CounterFacts, FS_Subset, FS_CardinalityType

LEMMA CounterInit == N!Init => CounterInv
<1> SUFFICES ASSUME N!Init PROVE CounterInv
  OBVIOUS
<1>1. /\ nPc = [t \in nThreads |-> "loop"] /\ nI = [t \in nThreads |-> 0]
      /\ nRegister = [t \in nThreads |-> 0] /\ nCounter = 0 /\ nLock = None
      /\ nPrinted = [t \in nThreads |-> 0]
  BY DEF N!Init
<1>2. nLocked \in BOOLEAN
  BY DEF N!Init
<1>3. 0 \in 0..MaxValue /\ 0 \in 0..N!Expected
  BY CounterFacts
<1>4. N!TypeOK
  BY <1>1, <1>2, <1>3 DEF N!TypeOK
<1>5. Made = {}
  BY <1>1 DEF Made
<1>6. Cardinality(Made) = 0
  BY <1>5, FS_EmptySet
<1>7. ~N!Ended
  BY <1>1, CounterFacts DEF N!Ended
<1>8. LoopInv
  BY <1>1, CounterFacts DEF LoopInv
<1>9. AtMostMade /\ NoneLost /\ TwoSurvive
  BY <1>1, <1>6 DEF AtMostMade, NoneLost, TwoSurvive
<1> QED
  BY <1>1, <1>4, <1>7, <1>8, <1>9 DEF CounterInv, LastPrints, OwnPrinted

LEMMA CounterType == N!TypeOK => /\ nPc \in [nThreads -> {"loop", "load", "store", "unlock", "done"}]
                                 /\ nI \in [nThreads -> Nat]
                                 /\ \A t \in nThreads : nI[t] <= MaxValue
                                 /\ nRegister \in [nThreads -> Nat] /\ nCounter \in Nat
                                 /\ nPrinted \in [nThreads -> Nat] /\ nLock \in nThreads \cup {None}
  BY CounterFacts DEF N!TypeOK

(* One increment more.                                                     *)
LEMMA StoreMakes ==
  ASSUME N!TypeOK, LoopInv, NEW t \in nThreads, N!Store(t)
  PROVE  Cardinality(Made') = Cardinality(Made) + 1
<1>1. nI \in [nThreads -> Nat] /\ nI[t] < MaxValue /\ nI' = [nI EXCEPT ![t] = nI[t] + 1]
  BY CounterType DEF LoopInv, N!Store
<1> DEFINE new == <<t, nI[t] + 1>>
<1>2. new \in nThreads \X (1..MaxValue) /\ new[1] = t /\ new[2] = nI[t] + 1
  BY <1>1, CounterFacts
<1>3. new \notin Made
  BY <1>1, <1>2 DEF Made
<1>4. \A m \in nThreads \X (1..MaxValue) : m[2] <= nI'[m[1]] <=> m[2] <= nI[m[1]] \/ m = new
  <2> SUFFICES ASSUME NEW u \in nThreads, NEW k \in 1..MaxValue
               PROVE  k <= nI'[u] <=> k <= nI[u] \/ (u = t /\ k = nI[t] + 1)
    OBVIOUS
  <2>1. CASE u = t
    BY <1>1, <2>1, CounterFacts
  <2>2. CASE u # t
    BY <1>1, <2>2
  <2> QED
    BY <2>1, <2>2
<1> HIDE DEF new
<1>5. Made' = Made \cup {new}
  BY <1>2, <1>4 DEF Made
<1> QED
  BY <1>3, <1>5, MadeFacts, FS_AddElement

LEMMA CounterStepType ==
  ASSUME CounterInv, [N!Next]_nVars
  PROVE  N!TypeOK'
<1>0. /\ nLocked \in BOOLEAN
      /\ nPc \in [nThreads -> {"loop", "load", "store", "unlock", "done"}]
      /\ nI \in [nThreads -> 0..MaxValue]
      /\ nRegister \in [nThreads -> Nat]
      /\ nCounter \in 0..N!Expected
      /\ nLock \in nThreads \cup {None}
      /\ nPrinted \in [nThreads -> 0..N!Expected]
      /\ MaxValue \in Nat /\ N!Expected \in Nat
  BY CounterFacts DEF CounterInv, N!TypeOK
<1>1. ASSUME NEW t \in nThreads, N!Enter(t) \/ N!Load(t) \/ N!Unlock(t) PROVE N!TypeOK'
  <2>1. nPc' \in [nThreads -> {"loop", "load", "store", "unlock", "done"}]
    BY <1>0, <1>1 DEF N!Enter, N!Load, N!Unlock, N!Goto
  <2>2. nLock' \in nThreads \cup {None} /\ nRegister' \in [nThreads -> Nat]
    BY <1>0, <1>1 DEF N!Enter, N!Load, N!Unlock
  <2>3. UNCHANGED <<nLocked, nI, nCounter, nPrinted>>
    BY <1>1 DEF N!Enter, N!Load, N!Unlock
  <2> QED
    BY <1>0, <2>1, <2>2, <2>3 DEF N!TypeOK
<1>2. ASSUME NEW t \in nThreads, N!Store(t) PROVE N!TypeOK'
  <2>1. /\ nCounter' = nRegister[t] + 1 /\ nI' = [nI EXCEPT ![t] = nI[t] + 1]
        /\ UNCHANGED <<nLocked, nRegister, nLock, nPrinted>> /\ nPc[t] = "store"
    BY <1>2 DEF N!Store
  <2>2. nPc' \in [nThreads -> {"loop", "load", "store", "unlock", "done"}]
    BY <1>0, <1>2 DEF N!Store, N!Goto
  <2>3. nI' \in [nThreads -> 0..MaxValue]
    <3>1. nI[t] + 1 \in 0..MaxValue
      BY <1>0, <2>1 DEF CounterInv, LoopInv
    <3> QED
      BY <1>0, <2>1, <3>1
  <2>4. nCounter' \in 0..N!Expected
    <3>1. Cardinality(Made') = Cardinality(Made) + 1
      BY <1>2, StoreMakes DEF CounterInv
    <3>2. (Cardinality(Made) <= N!Expected)'
      BY MadeFacts, PTL
    <3>3. nRegister[t] <= Cardinality(Made) /\ nRegister[t] \in Nat /\ Cardinality(Made) \in Nat
      BY <1>0, MadeFacts DEF CounterInv, AtMostMade
    <3>4. N!Expected' = N!Expected
      BY DEF N!Expected
    <3> QED
      BY <1>0, <2>1, <3>1, <3>2, <3>3, <3>4
  <2> QED
    BY <1>0, <2>1, <2>2, <2>3, <2>4 DEF N!TypeOK
<1>3. ASSUME NEW t \in nThreads, N!EndLoop(t) PROVE N!TypeOK'
  BY <1>0, <1>3 DEF N!EndLoop, N!Goto, N!TypeOK
<1>4. CASE UNCHANGED nVars
  BY <1>0, <1>4 DEF nVars, N!TypeOK
<1> QED
  BY <1>1, <1>2, <1>3, <1>4 DEF N!Next, N!Thread

LEMMA CounterStepBounds ==
  ASSUME CounterInv, [N!Next]_nVars
  PROVE  AtMostMade' /\ NoneLost'
<1>0. /\ nPc \in [nThreads -> {"loop", "load", "store", "unlock", "done"}]
      /\ nRegister \in [nThreads -> Nat] /\ nCounter \in Nat
      /\ Cardinality(Made) \in Nat
  BY CounterType, MadeFacts DEF CounterInv
<1>inv. /\ nCounter <= Cardinality(Made)
        /\ \A t \in nThreads : nRegister[t] <= Cardinality(Made)
        /\ Alone => /\ nCounter = Cardinality(Made)
                    /\ \A t \in nThreads : nPc[t] = "store" => nRegister[t] = nCounter
  BY DEF CounterInv, AtMostMade, NoneLost
<1>1. ASSUME UNCHANGED <<nLocked, nI, nCounter, nRegister>>,
             \A t \in nThreads : nPc'[t] = "store" => nPc[t] = "store"
      PROVE  AtMostMade' /\ NoneLost'
  BY <1>1, <1>inv DEF AtMostMade, NoneLost, Alone, Made
<1>2. ASSUME NEW t \in nThreads, N!Enter(t) \/ N!Unlock(t) \/ N!EndLoop(t)
      PROVE  AtMostMade' /\ NoneLost'
  BY <1>0, <1>1, <1>2 DEF N!Enter, N!Unlock, N!EndLoop, N!Goto
<1>3. ASSUME NEW t \in nThreads, N!Load(t) PROVE AtMostMade' /\ NoneLost'
  <2>1. /\ nRegister' = [nRegister EXCEPT ![t] = nCounter] /\ UNCHANGED <<nLocked, nI, nCounter>>
        /\ nPc' = [nPc EXCEPT ![t] = "store"]
    BY <1>3 DEF N!Load, N!Goto
  <2>2. Made' = Made /\ Alone' = Alone
    BY <2>1 DEF Made, Alone
  <2> QED
    BY <1>0, <1>inv, <2>1, <2>2 DEF AtMostMade, NoneLost
<1>4. ASSUME NEW t \in nThreads, N!Store(t) PROVE AtMostMade' /\ NoneLost'
  <2>1. /\ nPc[t] = "store" /\ nCounter' = nRegister[t] + 1 /\ UNCHANGED <<nLocked, nRegister>>
        /\ \E s \in {"unlock", "loop"} : nPc' = [nPc EXCEPT ![t] = s]
    BY <1>4 DEF N!Store, N!Goto
  <2>2. Cardinality(Made') = Cardinality(Made) + 1
    BY <1>4, StoreMakes DEF CounterInv
  <2>3. AtMostMade'
    BY <1>0, <1>inv, <2>1, <2>2 DEF AtMostMade
  <2>4. Alone' = Alone
    BY <2>1 DEF Alone
  <2>5. ASSUME Alone, NEW u \in nThreads PROVE nPc'[u] # "store"
    <3>1. CASE u = t
      BY <1>0, <2>1, <3>1
    <3>2. CASE u # t /\ nLocked
      <4>1. nPc'[u] = nPc[u] /\ nLock = t
        BY <1>0, <2>1, <3>2 DEF CounterInv, LoopInv
      <4> QED
        BY <3>2, <4>1 DEF CounterInv, LoopInv
    <3>3. CASE Cardinality(nThreads) = 1
      <4>1. \E x : nThreads = {x}
        BY <3>3, CounterFacts, FS_Singleton
      <4>2. u = t
        BY <4>1
      <4> QED
        BY <3>1, <4>2
    <3> QED
      BY <2>5, <3>1, <3>2, <3>3 DEF Alone
  <2>6. NoneLost'
    BY <1>inv, <2>1, <2>2, <2>4, <2>5 DEF NoneLost
  <2> QED
    BY <2>3, <2>6
<1>5. CASE UNCHANGED nVars
  BY <1>1, <1>5 DEF nVars
<1> QED
  BY <1>2, <1>3, <1>4, <1>5 DEF N!Next, N!Thread

LEMMA CounterStepLoop ==
  ASSUME CounterInv, [N!Next]_nVars
  PROVE  LoopInv' /\ OwnPrinted'
<1>0. /\ nLocked \in BOOLEAN
      /\ nPc \in [nThreads -> {"loop", "load", "store", "unlock", "done"}]
      /\ nI \in [nThreads -> Nat] /\ MaxValue \in Nat
      /\ \A t \in nThreads : nI[t] <= MaxValue
      /\ nPrinted \in [nThreads -> Nat] /\ nLock \in nThreads \cup {None}
      /\ None \notin nThreads /\ LoopInv /\ OwnPrinted
  BY CounterType, CounterFacts DEF CounterInv, N!TypeOK
<1>1. ASSUME NEW t \in nThreads, N!Enter(t) PROVE LoopInv' /\ OwnPrinted'
  <2>1. /\ nPc[t] = "loop" /\ nI[t] < MaxValue /\ nPc' = [nPc EXCEPT ![t] = "load"]
        /\ UNCHANGED <<nLocked, nI, nPrinted>>
        /\ nLocked => nLock = None /\ nLock' = t
    BY <1>1 DEF N!Enter, N!Goto
  <2> QED
    BY <1>0, <2>1 DEF LoopInv, OwnPrinted
<1>2. ASSUME NEW t \in nThreads, N!Load(t) PROVE LoopInv' /\ OwnPrinted'
  BY <1>0, <1>2 DEF LoopInv, OwnPrinted, N!Load, N!Goto
<1>3. ASSUME NEW t \in nThreads, N!Store(t) PROVE LoopInv' /\ OwnPrinted'
  <2>1. /\ nPc[t] = "store" /\ nI' = [nI EXCEPT ![t] = nI[t] + 1]
        /\ nPc' = [nPc EXCEPT ![t] = IF nLocked THEN "unlock" ELSE "loop"]
        /\ UNCHANGED <<nLocked, nLock, nPrinted>>
    BY <1>3 DEF N!Store, N!Goto
  <2> QED
    BY <1>0, <2>1 DEF LoopInv, OwnPrinted
<1>4. ASSUME NEW t \in nThreads, N!Unlock(t) PROVE LoopInv' /\ OwnPrinted'
  BY <1>0, <1>4 DEF LoopInv, OwnPrinted, N!Unlock, N!Goto
<1>5. ASSUME NEW t \in nThreads, N!EndLoop(t) PROVE LoopInv' /\ OwnPrinted'
  <2>1. /\ nPc[t] = "loop" /\ nI[t] = MaxValue /\ nPrinted' = [nPrinted EXCEPT ![t] = nCounter]
        /\ nPc' = [nPc EXCEPT ![t] = "done"]
        /\ UNCHANGED <<nLocked, nI, nLock, nCounter>>
    BY <1>5 DEF N!EndLoop, N!Goto
  <2>2. LoopInv'
    BY <1>0, <2>1 DEF LoopInv
  <2>3. nLocked => nCounter >= MaxValue
    <3> SUFFICES ASSUME nLocked PROVE nCounter >= MaxValue
      OBVIOUS
    <3> DEFINE own == {t} \X (1..MaxValue)
    <3>1. own \in SUBSET Made
      BY <1>0, <2>1 DEF Made
    <3>2. Cardinality(own) = 1 * MaxValue
      <4>1. IsFiniteSet({t}) /\ Cardinality({t}) = 1
        BY FS_Singleton
      <4>2. IsFiniteSet(1..MaxValue) /\ Cardinality(1..MaxValue) = MaxValue
        BY <1>0, FS_Interval
      <4>3. Cardinality(own) = Cardinality({t}) * Cardinality(1..MaxValue)
        BY <4>1, <4>2, FS_Product
      <4> QED
        BY <1>0, <4>1, <4>2, <4>3
    <3> HIDE DEF own
    <3>3. Cardinality(own) <= Cardinality(Made)
      BY <3>1, MadeFacts, FS_Subset
    <3>4. nCounter = Cardinality(Made)
      BY DEF CounterInv, NoneLost, Alone
    <3> QED
      BY <1>0, <3>2, <3>3, <3>4, MadeFacts
  <2>4. OwnPrinted'
    BY <1>0, <2>1, <2>3 DEF OwnPrinted
  <2> QED
    BY <2>2, <2>4
<1>6. CASE UNCHANGED nVars
  BY <1>0, <1>6 DEF nVars, LoopInv, OwnPrinted
<1> QED
  BY <1>1, <1>2, <1>3, <1>4, <1>5, <1>6 DEF N!Next, N!Thread

LEMMA CounterStepSurvivors ==
  ASSUME CounterInv, [N!Next]_nVars
  PROVE  TwoSurvive' /\ LastPrints'
<1>0. /\ nPc \in [nThreads -> {"loop", "load", "store", "unlock", "done"}]
      /\ nI \in [nThreads -> Nat]
      /\ nRegister \in [nThreads -> Nat] /\ nCounter \in Nat
      /\ nPrinted \in [nThreads -> Nat] /\ TwoSurvive /\ LastPrints
  BY CounterType DEF CounterInv
<1>1. ASSUME NEW t \in nThreads, N!Enter(t) \/ N!Unlock(t) PROVE TwoSurvive' /\ LastPrints'
  <2>1. /\ UNCHANGED <<nI, nRegister, nCounter>>
        /\ \E s \in {"load", "loop"} : nPc' = [nPc EXCEPT ![t] = s]
    BY <1>1 DEF N!Enter, N!Unlock, N!Goto
  <2>2. nPc'[t] # "done"
    BY <1>0, <2>1
  <2>3. TwoSurvive'
    BY <1>0, <2>1 DEF TwoSurvive
  <2> QED
    BY <2>2, <2>3 DEF LastPrints, N!Ended
<1>2. ASSUME NEW t \in nThreads, N!Load(t) PROVE TwoSurvive' /\ LastPrints'
  <2>1. /\ nRegister' = [nRegister EXCEPT ![t] = nCounter] /\ UNCHANGED <<nI, nCounter>>
        /\ nPc' = [nPc EXCEPT ![t] = "store"]
    BY <1>2 DEF N!Load, N!Goto
  <2>2. nPc'[t] # "done"
    BY <1>0, <2>1
  <2>3. TwoSurvive'
    BY <1>0, <2>1 DEF TwoSurvive
  <2> QED
    BY <2>2, <2>3 DEF LastPrints, N!Ended
<1>3. ASSUME NEW t \in nThreads, N!Store(t) PROVE TwoSurvive' /\ LastPrints'
  <2>1. /\ nPc[t] = "store" /\ nCounter' = nRegister[t] + 1 /\ UNCHANGED nRegister
        /\ nI' = [nI EXCEPT ![t] = nI[t] + 1]
        /\ \E s \in {"unlock", "loop"} : nPc' = [nPc EXCEPT ![t] = s]
    BY <1>3 DEF N!Store, N!Goto
  <2>2. nPc'[t] # "done"
    BY <1>0, <2>1
  <2>3. nCounter' >= 1 /\ nRegister[t] \in Nat /\ nI[t] \in Nat
    BY <1>0, <2>1
  <2>4. \A u \in nThreads : nPc'[u] = "store" /\ nI'[u] >= 1 => nRegister'[u] >= 1
    BY <1>0, <2>1 DEF TwoSurvive
  <2>5. nCounter' >= 2 \/ \E u \in nThreads : nI'[u] = 1
    <3>1. CASE nI[t] = 0
      <4>1. nI'[t] = 1
        BY <1>0, <2>1, <3>1
      <4> QED
        BY <4>1
    <3>2. CASE nI[t] # 0
      <4>1. nI[t] >= 1
        BY <2>3, <3>2
      <4>2. nRegister[t] >= 1
        BY <1>0, <2>1, <4>1 DEF TwoSurvive
      <4> QED
        BY <2>1, <2>3, <4>2
    <3> QED
      BY <3>1, <3>2
  <2>6. TwoSurvive'
    BY <2>3, <2>4, <2>5 DEF TwoSurvive
  <2> QED
    BY <2>2, <2>6 DEF LastPrints, N!Ended
<1>4. ASSUME NEW t \in nThreads, N!EndLoop(t) PROVE TwoSurvive' /\ LastPrints'
  <2>1. /\ nPrinted' = [nPrinted EXCEPT ![t] = nCounter] /\ UNCHANGED <<nI, nRegister, nCounter>>
        /\ nPc' = [nPc EXCEPT ![t] = "done"]
    BY <1>4 DEF N!EndLoop, N!Goto
  <2>2. TwoSurvive'
    BY <1>0, <2>1 DEF TwoSurvive
  <2>3. nPrinted'[t] = nCounter'
    BY <1>0, <2>1
  <2> QED
    BY <2>2, <2>3 DEF LastPrints
<1>5. CASE UNCHANGED nVars
  BY <1>0, <1>5 DEF nVars, TwoSurvive, LastPrints, N!Ended
<1> QED
  BY <1>1, <1>2, <1>3, <1>4, <1>5 DEF N!Next, N!Thread

LEMMA CounterStepInv == CounterInv /\ [N!Next]_nVars => CounterInv'
  BY CounterStepType, CounterStepBounds, CounterStepLoop, CounterStepSurvivors DEF CounterInv

LEMMA CounterFinal == CounterInv => N!FinalValue
<1> SUFFICES ASSUME CounterInv PROVE N!FinalValue
  OBVIOUS
<1>0. /\ nI \in [nThreads -> Nat] /\ nCounter \in Nat /\ Cardinality(Made) \in Nat
      /\ nCounter <= Cardinality(Made) /\ Cardinality(Made) <= N!Expected
      /\ N!Expected = Cardinality(nThreads) * MaxValue /\ N!Expected \in Nat /\ MaxValue \in Nat
      /\ nThreads # {} /\ N!Cardinality(nThreads) = Cardinality(nThreads)
  BY CounterType, CounterFacts, MadeFacts, SameSets DEF CounterInv, AtMostMade
<1>1. ASSUME N!Ended PROVE \A t \in nThreads : nI[t] = MaxValue
  BY <1>1 DEF N!Ended, CounterInv, LoopInv
<1>2. ASSUME N!Ended, Alone PROVE nCounter = N!Expected
  <2>1. Made = nThreads \X (1..MaxValue)
    BY <1>0, <1>1, <1>2 DEF Made
  <2> QED
    BY <1>2, <2>1, CounterFacts DEF CounterInv, NoneLost
<1>3. ASSUME N!Ended PROVE nCounter >= IF Cardinality(nThreads) = 1 \/ MaxValue < 2
                                       THEN MaxValue ELSE 2
  <2>1. CASE Cardinality(nThreads) = 1
    <3>1. nCounter = 1 * MaxValue
      BY <1>0, <1>2, <1>3, <2>1 DEF Alone
    <3> QED
      BY <1>0, <2>1, <3>1
  <2>2. CASE Cardinality(nThreads) # 1 /\ MaxValue < 2
    <3>1. MaxValue = 1 => nCounter >= 1
      BY <1>0, <1>1, <1>3 DEF CounterInv, TwoSurvive
    <3> QED
      BY <1>0, <2>2, <3>1
  <2>3. CASE Cardinality(nThreads) # 1 /\ ~(MaxValue < 2)
    <3>1. nCounter >= 2
      BY <1>0, <1>1, <1>3, <2>3 DEF CounterInv, TwoSurvive
    <3> QED
      BY <1>0, <2>3, <3>1
  <2> QED
    BY <2>1, <2>2, <2>3
<1>4. N!Ended => \E t \in nThreads : nPrinted[t] = nCounter
  BY DEF CounterInv, LastPrints
<1>5. \A t \in nThreads : nLocked /\ nPc[t] = "done" => nPrinted[t] >= MaxValue
  BY DEF CounterInv, OwnPrinted
<1>6. nCounter <= N!Expected
  BY <1>0
<1>7. N!Ended => IF nLocked THEN nCounter = N!Expected
                 ELSE /\ nCounter <= N!Expected
                      /\ nCounter >= IF Cardinality(nThreads) = 1 \/ MaxValue < 2
                                     THEN MaxValue ELSE 2
  BY <1>2, <1>3, <1>6 DEF Alone
<1> QED
  BY <1>0, <1>4, <1>5, <1>7 DEF N!FinalValue

-----------------------------------------------------------------------------
(* The fork-join programs.                                                 *)

(* The definitions that differ from program to program, case by case.      *)
LEMMA KNumTasks ==
  /\ K!Counts => K!NumTasks = MAX_THREAD
  /\ kProgram = "graph" => K!NumTasks = Len(K!Operands)
  /\ kProgram = "words" => K!NumTasks = K!NumChunks
  /\ kProgram = "federated" => K!NumTasks = num_workers
  BY ZenonT(30) DEF K!NumTasks, K!Counts

LEMMA KIsResult ==
  ASSUME NEW r
  PROVE  /\ K!Counts => (K!IsResult(r) <=> r \in Nat)
         /\ kProgram = "graph" => (K!IsResult(r) <=> r \in Int)
         /\ kProgram = "words" => (K!IsResult(r) <=> K!IsABag(r))
         /\ kProgram = "federated" =>
              (K!IsResult(r) <=> r \in [base : 0 .. num_rounds, seen : SUBSET (1 .. num_examples)])
  BY ZenonT(30) DEF K!IsResult, K!Counts

LEMMA KZero ==
  /\ K!Counts => K!Zero = 0
  /\ kProgram = "graph" => K!Zero = 0
  /\ kProgram = "words" => K!Zero = K!EmptyBag
  /\ kProgram = "federated" => K!Zero = [base |-> 0, seen |-> {}]
  BY ZenonT(30) DEF K!Zero, K!Counts

LEMMA KAdd ==
  ASSUME NEW r, NEW x
  PROVE  /\ K!Counts => K!Add(r, x) = IF K!is_prime(x) THEN r + 1 ELSE r
         /\ kProgram = "graph" => K!Add(r, x) = K!compute(x)
         /\ kProgram = "words" => K!Add(r, x) = K!(+)(r, K!SetToBag({x}))
         /\ kProgram = "federated" => K!Add(r, x) = [base |-> x.base, seen |-> r.seen \cup {x.example}]
  BY ZenonT(30) DEF K!Add, K!Counts

LEMMA KPart ==
  ASSUME NEW i
  PROVE  /\ K!Counts => K!Part(i) = [k \in 1 .. K!end(i) - K!start(i) + 1 |-> K!start(i) + k - 1]
         /\ kProgram = "graph" => K!Part(i) = << K!Operands[i + 1] >>
         /\ kProgram = "words" => K!Part(i) = K!findall(K!chunk(i))
         /\ kProgram = "federated" =>
              K!Part(i) = [k \in 1 .. K!Cardinality(K!Shard(i)) |->
                             [base |-> kRound, example |-> K!Min(K!Shard(i)) + k - 1]]
  BY ZenonT(30) DEF K!Part, K!Counts

LEMMA KCompute ==
  /\ Len(K!Operands) = 3
  /\ K!compute(K!Operands[1]) = 12 /\ K!compute(K!Operands[2]) = 5
  /\ K!compute(K!Operands[3]) = 3
<1>1. /\ K!Operands[1] = [op1 |-> 2, op2 |-> 6, operation |-> "*"]
      /\ K!Operands[2] = [op1 |-> 1, op2 |-> 4, operation |-> "+"]
      /\ K!Operands[3] = [op1 |-> 5, op2 |-> 2, operation |-> "-"]
      /\ Len(K!Operands) = 3
  BY DEF K!Operands
<1>2. \A a : /\ a.operation = "*" => K!compute(a) = a.op1 * a.op2
             /\ a.operation = "+" => K!compute(a) = a.op1 + a.op2
             /\ a.operation = "-" => K!compute(a) = a.op1 - a.op2
  BY ZenonT(30) DEF K!compute
<1> QED
  BY <1>1, <1>2

LEMMA KSizes ==
  /\ MAX_NUMBER \in Nat /\ MAX_THREAD \in Nat \ {0} /\ num_mappers \in Nat \ {0} /\ num_workers \in Nat \ {0}
  /\ num_rounds \in Nat \ {0} /\ num_examples \in Nat /\ num_examples >= num_workers
  /\ Garbage \subseteq Int /\ TextLen \in Nat
  BY LabsAssumption DEF K!ForkJoinAssumption

LEMMA Products ==
  \A a, b, s \in Nat : (a + 1) * s = a * s + s /\ (a <= b => a * s <= b * s) /\ a * s \in Nat
  OBVIOUS

LEMMA KCardinality == \A X : K!Cardinality(X) = Cardinality(X)
  BY DEF Cardinality, K!Cardinality

-----------------------------------------------------------------------------
(* Facts about numbers, sets and folds.                                    *)

(* A nonempty set of naturals has a least element.                         *)
LEMMA NatMinimum ==
  ASSUME NEW U \in SUBSET Nat, U # {}
  PROVE  \E m \in U : \A n \in U : m <= n
<1> DEFINE Less == {nm \in Nat \X Nat : nm[1] < nm[2]}
<1>1. IsWellFoundedOn(Less, Nat)
  BY NatLessThanWellFounded DEF OpToRel
<1>2. \A n, m \in Nat : n < m => <<n, m>> \in Less
  OBVIOUS
<1> HIDE DEF Less
<1>3. PICK m \in U : \A n \in U : <<n, m>> \notin Less
  BY <1>1, WFMin
<1>4. \A n \in U : ~(n < m)
  BY <1>2, <1>3
<1> QED
  BY <1>4

(* Of two functions of the subsets of a finite set that agree on {}, and on *)
(* a set whenever they agree on it without some element, neither differs.  *)
LEMMA SameFold ==
  ASSUME NEW U, IsFiniteSet(U), NEW f, NEW g, f[{}] = g[{}],
         \A s \in SUBSET U : s # {} => \E x \in s : f[s \ {x}] = g[s \ {x}] => f[s] = g[s]
  PROVE  f[U] = g[U]
<1> DEFINE Wrong == {u \in SUBSET U : f[u] # g[u]}
           Counted == {Cardinality(u) : u \in Wrong}
<1>1. \A u \in SUBSET U : IsFiniteSet(u) /\ Cardinality(u) \in Nat
  BY FS_Subset, FS_CardinalityType
<1>2. ASSUME Wrong # {} PROVE FALSE
  <2>1. Counted # {} /\ Counted \subseteq Nat
    BY <1>1, <1>2
  <2>2. PICK n \in Counted : \A m \in Counted : n <= m
    BY <2>1, NatMinimum
  <2>3. PICK u \in Wrong : Cardinality(u) = n
    BY <2>2
  <2>4. PICK x \in u : f[u \ {x}] = g[u \ {x}] => f[u] = g[u]
    BY <2>3
  <2>5. Cardinality(u \ {x}) = Cardinality(u) - 1 /\ Cardinality(u) \in Nat
    BY <1>1, <2>3, FS_RemoveElement
  <2>6. u \ {x} \in Wrong
    BY <2>3, <2>4
  <2>7. Cardinality(u \ {x}) \in Counted
    BY <2>6
  <2>8. n <= Cardinality(u \ {x}) /\ n = Cardinality(u)
    BY <2>2, <2>3, <2>7
  <2> HIDE DEF Counted, Wrong
  <2> QED
    BY <2>5, <2>8
<1> QED
  BY <1>2

(* The numbers of elements of two sets without a common one add up.        *)
LEMMA DisjointUnion ==
  ASSUME NEW A, NEW Y, IsFiniteSet(A), IsFiniteSet(Y), A \cap Y = {}
  PROVE  /\ IsFiniteSet(A \cup Y) /\ Cardinality(A) \in Nat /\ Cardinality(Y) \in Nat
         /\ Cardinality(A \cup Y) = Cardinality(A) + Cardinality(Y)
<1>1. Cardinality(A) \in Nat /\ Cardinality(Y) \in Nat
  BY FS_CardinalityType
<1>2. Cardinality(A \cap Y) = 0
  BY FS_EmptySet
<1>3. /\ IsFiniteSet(A \cup Y)
      /\ Cardinality(A \cup Y) = Cardinality(A) + Cardinality(Y) - Cardinality(A \cap Y)
  BY FS_Union
<1> QED
  BY <1>1, <1>2, <1>3

(* A one-to-one map onto a set makes it as large.                          *)
LEMMA SameSize ==
  ASSUME NEW A, NEW Y, IsFiniteSet(A), NEW f,
         \A x \in A : f[x] \in Y,
         \A x, y \in A : f[x] = f[y] => x = y,
         \A z \in Y : \E x \in A : f[x] = z
  PROVE  IsFiniteSet(Y) /\ Cardinality(A) = Cardinality(Y)
<1> DEFINE h == [x \in A |-> f[x]]
<1>1. h \in Bijection(A, Y)
  <2>1. h \in [A -> Y]
    OBVIOUS
  <2>2. \A x, y \in A : h[x] = h[y] => x = y
    OBVIOUS
  <2>3. \A z \in Y : \E x \in A : h[x] = z
    OBVIOUS
  <2> QED
    BY <2>1, <2>2, <2>3 DEF Bijection, Injection, Surjection, IsInjective
<1>2. ExistsBijection(A, Y)
  BY <1>1 DEF ExistsBijection
<1> QED
  BY <1>2, FS_Bijection

-----------------------------------------------------------------------------
(* Divisors.                                                               *)

LEMMA Divides ==
  ASSUME NEW n \in Nat, NEW d \in Nat \ {0}
  PROVE  n % d = 0 <=> \E e \in Nat : n = d * e
<1>0. n % d \in Nat /\ n % d < d
  OBVIOUS
<1>1. n \div d \in Nat /\ n = d * (n \div d) + (n % d)
  <2>1. n = (n \div d) * d + (n % d)
    OBVIOUS
  <2>2. n \div d \in Nat
    OBVIOUS
  <2> QED
    BY <2>1, <2>2
<1>2. n % d = 0 => \E e \in Nat : n = d * e
  BY <1>1
<1>3. ASSUME NEW e \in Nat, n = d * e PROVE n % d = 0
  <2> DEFINE q == n \div d
             r == n % d
  <2>1. d * e = d * q + r /\ q \in Nat /\ r \in Nat /\ r < d
    BY <1>0, <1>1, <1>3
  <2> HIDE DEF q, r
  <2>2. CASE e <= q
    <3>1. d * e <= d * q
      BY <2>1, <2>2
    <3> QED
      BY <2>1, <3>1 DEF r
  <2>3. CASE e >= q + 1
    <3>1. d * e >= d * (q + 1) /\ d * (q + 1) = d * q + d
      BY <2>1, <2>3
    <3> QED
      BY <2>1, <3>1 DEF r
  <2> QED
    BY <2>1, <2>2, <2>3
<1> QED
  BY <1>2, <1>3

(* Trying 2 and the odd numbers up to the square root is enough.           *)
LEMMA PrimeTest ==
  ASSUME NEW n \in Nat
  PROVE  K!is_prime(n) <=> n \in 2 .. n /\ \A d \in 2 .. n - 1 : n % d # 0
<1>1. ASSUME n > 1, \A d \in 2 .. n - 1 : n % d # 0 PROVE K!is_prime(n)
  <2>1. n = 2 \/ n % 2 # 0
    BY <1>1
  <2>2. ASSUME NEW i \in 3 .. n, i * i <= n PROVE n % i # 0
    <3>1. i # n
      <4>1. i * i >= 3 * i
        BY <2>2
      <4> QED
        BY <2>2, <4>1
    <3> QED
      BY <1>1, <3>1
  <2> QED
    BY <1>1, <2>1, <2>2 DEF K!is_prime
<1>2. ASSUME K!is_prime(n), NEW d \in 2 .. n - 1, n % d = 0 PROVE FALSE
  <2>1. d \in Nat \ {0} /\ d < n /\ \E e \in Nat : n = d * e
    <3>1. d \in Nat \ {0} /\ d < n
      OBVIOUS
    <3> QED
      BY <1>2, <3>1, Divides
  <2>1a. PICK e \in Nat : n = d * e
    BY <2>1
  <2>2. e >= 2
    <3>1. CASE e = 0
      BY <2>1, <2>1a, <3>1
    <3>2. CASE e = 1
      BY <2>1, <2>1a, <3>2
    <3> QED
      BY <3>1, <3>2
  <2>3. e < n
    <3>1. d * e >= 2 * e
      BY <2>1a
    <3> QED
      BY <2>1, <2>1a, <2>2, <3>1
  <2>4. PICK c \in {d, e} : c * c <= n
    <3>1. CASE d <= e
      <4>1. d * d <= d * e
        BY <3>1
      <4> QED
        BY <2>1a, <4>1
    <3>2. CASE e <= d
      <4>1. e * e <= d * e
        BY <3>2
      <4> QED
        BY <2>1a, <4>1
    <3> QED
      BY <3>1, <3>2
  <2>5. c \in 2 .. n - 1 /\ \E f \in Nat : n = c * f
    <3>1. n = e * d
      BY <2>1a
    <3> QED
      BY <2>1, <2>1a, <2>2, <2>3, <3>1
  <2>6. n % c = 0
    BY <2>5, Divides
  <2>7. n > 2 /\ n % 2 # 0
    BY <1>2 DEF K!is_prime
  <2>8. c % 2 # 0
    <3> SUFFICES ASSUME c % 2 = 0 PROVE FALSE
      OBVIOUS
    <3>1. PICK f \in Nat : n = c * f
      BY <2>5
    <3>2. PICK g \in Nat : c = 2 * g
      BY <2>5, Divides
    <3>3. n = 2 * (g * f) /\ g * f \in Nat
      BY <3>1, <3>2
    <3> QED
      BY <2>7, <3>3, Divides
  <2>9. c \in 3 .. n
    <3>1. c # 2
      BY <2>8
    <3> QED
      BY <2>5, <3>1
  <2> QED
    BY <1>2, <2>4, <2>6, <2>8, <2>9 DEF K!is_prime
<1>3. K!is_prime(n) => n > 1
  BY DEF K!is_prime
<1>4. n \in 2 .. n <=> n > 1
  OBVIOUS
<1> QED
  BY <1>1, <1>2, <1>3, <1>4

-----------------------------------------------------------------------------
(* Sums, as the folds of the community modules compute them.               *)

(* The element of a set that the folds take away first.                    *)
Pick(s) == CHOOSE x \in s : TRUE

LEMMA PickIn ==
  ASSUME NEW s, s # {}
  PROVE  Pick(s) \in s
  BY DEF Pick

(* The values of a function on a finite set are finitely many.             *)
LEMMA ImageFinite ==
  ASSUME NEW U, IsFiniteSet(U), NEW f
  PROVE  IsFiniteSet({f[x] : x \in U})
<1> DEFINE T == {f[x] : x \in U}
           h == [x \in U |-> f[x]]
<1>1. h \in Surjection(U, T)
  BY DEF Surjection
<1> QED
  BY <1>1, FS_Surjection

(* The union of the sets P[x] of the x in s.                               *)
Whole(P, s) == UNION {P[x] : x \in s}

(* The counts of sets of which no two have a common element add up to the  *)
(* count of their union, whatever set comes last.                          *)
LEMMA UnionGrows ==
  ASSUME NEW D, IsFiniteSet(D), NEW P,
         \A x \in D : IsFiniteSet(P[x]),
         \A x, y \in D : x # y => P[x] \cap P[y] = {},
         NEW s \in SUBSET D, NEW x \in s
  PROVE  /\ IsFiniteSet(Whole(P, s)) /\ Cardinality(Whole(P, s \ {x})) \in Nat
         /\ Cardinality(P[x]) \in Nat
         /\ Cardinality(Whole(P, s)) = Cardinality(P[x]) + Cardinality(Whole(P, s \ {x}))
<1> DEFINE rest == Whole(P, s \ {x})
<1>1. IsFiniteSet(rest)
  <2>1. IsFiniteSet(s \ {x})
    BY FS_Subset
  <2>2. IsFiniteSet({P[y] : y \in s \ {x}})
    BY <2>1, ImageFinite
  <2>3. \A T \in {P[y] : y \in s \ {x}} : IsFiniteSet(T)
    OBVIOUS
  <2> QED
    BY <2>2, <2>3, FS_UNION DEF Whole
<1>2. P[x] \cap rest = {}
  BY DEF Whole
<1>3. Whole(P, s) = P[x] \cup rest
  BY DEF Whole
<1>4. IsFiniteSet(P[x])
  OBVIOUS
<1> HIDE DEF rest
<1>5. /\ IsFiniteSet(P[x] \cup rest) /\ Cardinality(P[x]) \in Nat /\ Cardinality(rest) \in Nat
      /\ Cardinality(P[x] \cup rest) = Cardinality(P[x]) + Cardinality(rest)
  BY <1>1, <1>2, <1>4, DisjointUnion
<1> QED
  BY <1>3, <1>5 DEF rest

(* The sum over a set: MapThenSumSet.                                      *)
SetSum(D, v, f) == f = [s \in SUBSET D |-> IF s = {} THEN 0 ELSE v[Pick(s)] + f[s \ {Pick(s)}]]
(* The sum over a sequence: FoldSeq.                                       *)
SeqSum(D, rs, f) == f = [s \in SUBSET D |-> IF s = {} THEN 0
                                                 ELSE f[s \ {Pick(s)}] + rs[Pick(s)]]

(* The sum of the sizes of disjoint sets is the size of their union.       *)
LEMMA SetSumIs ==
  ASSUME NEW D, IsFiniteSet(D), NEW v, NEW P,
         \A x \in D : IsFiniteSet(P[x]) /\ v[x] = Cardinality(P[x]),
         \A x, y \in D : x # y => P[x] \cap P[y] = {}
  PROVE  (CHOOSE f : SetSum(D, v, f))[D] = Cardinality(Whole(P, D))
<1> DEFINE g == [s \in SUBSET D |-> Cardinality(Whole(P, s))]
           h == CHOOSE f : SetSum(D, v, f)
<1>1. \A s \in SUBSET D : \A x \in s : g[s] = v[x] + g[s \ {x}]
  <2> SUFFICES ASSUME NEW s \in SUBSET D, NEW x \in s PROVE g[s] = v[x] + g[s \ {x}]
    OBVIOUS
  <2>1. Cardinality(Whole(P, s)) = Cardinality(P[x]) + Cardinality(Whole(P, s \ {x}))
    BY UnionGrows
  <2>2. g[s] = Cardinality(Whole(P, s)) /\ g[s \ {x}] = Cardinality(Whole(P, s \ {x}))
        /\ v[x] = Cardinality(P[x])
    OBVIOUS
  <2> HIDE DEF g
  <2> QED
    BY <2>1, <2>2
<1>2. g[{}] = 0
  BY FS_EmptySet DEF Whole
<1>3. SetSum(D, v, g)
  <2>1. \A s \in SUBSET D : g[s] = IF s = {} THEN 0 ELSE v[Pick(s)] + g[s \ {Pick(s)}]
    BY <1>1, <1>2, PickIn
  <2>2. g = [s \in SUBSET D |-> g[s]]
    OBVIOUS
  <2> HIDE DEF g
  <2> QED
    BY <2>1, <2>2, Zenon DEF SetSum
<1> HIDE DEF g
<1>4. SetSum(D, v, h)
  BY <1>3
<1> HIDE DEF h
<1>5. \A s \in SUBSET D : h[s] = IF s = {} THEN 0 ELSE v[Pick(s)] + h[s \ {Pick(s)}]
  BY <1>4 DEF SetSum
<1>6. \A s \in SUBSET D : s # {} => \E x \in s : h[s \ {x}] = g[s \ {x}] => h[s] = g[s]
  <2> SUFFICES ASSUME NEW s \in SUBSET D, s # {},
                      h[s \ {Pick(s)}] = g[s \ {Pick(s)}]
               PROVE  h[s] = g[s]
    BY PickIn
  <2> QED
    BY <1>1, <1>5, PickIn
<1>7. h[D] = g[D]
  <2>1. h[{}] = g[{}]
    BY <1>2, <1>5
  <2> QED
    BY <1>6, <2>1, SameFold
<1> QED
  BY <1>7 DEF g, h

(* The same of a sequence of numbers.                                      *)
LEMMA SeqSumIs ==
  ASSUME NEW D, NEW rs, IsFiniteSet(D), NEW P,
         \A x \in D : IsFiniteSet(P[x]) /\ rs[x] = Cardinality(P[x]),
         \A x, y \in D : x # y => P[x] \cap P[y] = {}
  PROVE  (CHOOSE f : SeqSum(D, rs, f))[D] = Cardinality(Whole(P, D))
<1> DEFINE g == [s \in SUBSET D |-> Cardinality(Whole(P, s))]
           h == CHOOSE f : SeqSum(D, rs, f)
<1>1. \A s \in SUBSET D : \A x \in s : g[s] = g[s \ {x}] + rs[x]
  <2> SUFFICES ASSUME NEW s \in SUBSET D, NEW x \in s PROVE g[s] = g[s \ {x}] + rs[x]
    OBVIOUS
  <2>1. /\ Cardinality(Whole(P, s \ {x})) \in Nat /\ Cardinality(P[x]) \in Nat
         /\ Cardinality(Whole(P, s)) = Cardinality(P[x]) + Cardinality(Whole(P, s \ {x}))
    BY UnionGrows
  <2>2. g[s] = Cardinality(Whole(P, s)) /\ g[s \ {x}] = Cardinality(Whole(P, s \ {x}))
        /\ rs[x] = Cardinality(P[x])
    OBVIOUS
  <2> HIDE DEF g
  <2> QED
    BY <2>1, <2>2
<1>2. g[{}] = 0
  BY FS_EmptySet DEF Whole
<1>3. SeqSum(D, rs, g)
  <2>1. \A s \in SUBSET D : g[s] = IF s = {} THEN 0 ELSE g[s \ {Pick(s)}] + rs[Pick(s)]
    BY <1>1, <1>2, PickIn
  <2>2. g = [s \in SUBSET D |-> g[s]]
    OBVIOUS
  <2> HIDE DEF g
  <2> QED
    BY <2>1, <2>2, Zenon DEF SeqSum
<1> HIDE DEF g
<1>4. SeqSum(D, rs, h)
  BY <1>3
<1> HIDE DEF h
<1>5. \A s \in SUBSET D : h[s] = IF s = {} THEN 0 ELSE h[s \ {Pick(s)}] + rs[Pick(s)]
  BY <1>4 DEF SeqSum
<1>6. \A s \in SUBSET D : s # {} => \E x \in s : h[s \ {x}] = g[s \ {x}] => h[s] = g[s]
  <2> SUFFICES ASSUME NEW s \in SUBSET D, s # {},
                      h[s \ {Pick(s)}] = g[s \ {Pick(s)}]
               PROVE  h[s] = g[s]
    BY PickIn
  <2> QED
    BY <1>1, <1>5, PickIn
<1>7. h[D] = g[D]
  <2>1. h[{}] = g[{}]
    BY <1>2, <1>5
  <2> QED
    BY <1>6, <2>1, SameFold
<1> QED
  BY <1>7 DEF g, h

-----------------------------------------------------------------------------
(* Slices of 1 .. b[n] that end at b[1], b[2], ... b[n].                   *)

IsCut(b, n) == /\ b[0] = 0 /\ \A i \in 0 .. n : b[i] \in Nat
               /\ \A i \in 0 .. n - 1 : b[i] <= b[i + 1]
Slice(b, i) == b[i] + 1 .. b[i + 1]

(* The ends of the slices only grow,                                       *)
LEMMA CutGrows ==
  ASSUME NEW n \in Nat, NEW b, IsCut(b, n), NEW i \in 0 .. n, NEW j \in i .. n
  PROVE  b[i] <= b[j]
<1> DEFINE Wrong == {k \in 0 .. n : i <= k /\ ~(b[i] <= b[k])}
<1>1. ASSUME Wrong # {} PROVE FALSE
  <2>0. Wrong \in SUBSET Nat
    OBVIOUS
  <2>1. PICK k \in Wrong : \A m \in Wrong : k <= m
    <3> HIDE DEF Wrong
    <3> QED
      BY <1>1, <2>0, NatMinimum
  <2>2. k # i /\ k \in Nat /\ k >= i /\ b[i] \in Nat
    BY <2>1 DEF IsCut
  <2>3. k - 1 \in 0 .. n - 1 /\ k - 1 >= i /\ k - 1 \notin Wrong
    BY <2>1, <2>2
  <2>4. b[i] <= b[k - 1] /\ b[k - 1] <= b[(k - 1) + 1] /\ b[k - 1] \in Nat
    BY <2>3 DEF IsCut
  <2>5. (k - 1) + 1 = k /\ b[k] \in Nat
    BY <2>1, <2>2 DEF IsCut
  <2> QED
    BY <2>1, <2>2, <2>4, <2>5
<1> QED
  BY <1>1

(* so the slices have nothing in common and make up 1 .. b[n].             *)
LEMMA SlicesMeet ==
  ASSUME NEW n \in Nat, NEW b, IsCut(b, n)
  PROVE  /\ \A i, j \in 0 .. n - 1 : i # j => Slice(b, i) \cap Slice(b, j) = {}
         /\ UNION {Slice(b, i) : i \in 0 .. n - 1} = 1 .. b[n]
<1>0. \A i \in 0 .. n : b[i] \in Nat
  BY DEF IsCut
<1>1. ASSUME NEW i \in 0 .. n - 1, NEW j \in 0 .. n - 1, i < j
      PROVE  Slice(b, i) \cap Slice(b, j) = {}
  <2>1. b[i + 1] <= b[j] /\ b[i + 1] \in Nat /\ b[j] \in Nat
    BY <1>0, <1>1, CutGrows
  <2> QED
    BY <2>1 DEF Slice
<1>2. ASSUME NEW i \in 0 .. n - 1 PROVE Slice(b, i) \subseteq 1 .. b[n]
  <2>1. b[i + 1] <= b[n] /\ b[i + 1] \in Nat /\ b[i] \in Nat /\ b[n] \in Nat
    BY <1>0, CutGrows
  <2> QED
    BY <2>1 DEF Slice
<1>3. ASSUME NEW x \in 1 .. b[n] PROVE \E i \in 0 .. n - 1 : x \in Slice(b, i)
  <2> DEFINE Above == {k \in 0 .. n : x <= b[k]}
  <2>1. n \in Above
    OBVIOUS
  <2>1a. Above \in SUBSET Nat
    OBVIOUS
  <2>2. PICK k \in Above : \A m \in Above : k <= m
    <3> HIDE DEF Above
    <3> QED
      BY <2>1, <2>1a, NatMinimum
  <2>3. k # 0 /\ k \in Nat /\ x \in Nat
    <3>1. b[0] = 0 /\ b[n] \in Nat
      BY <1>0 DEF IsCut
    <3> QED
      BY <2>2, <3>1
  <2>4. k - 1 \in 0 .. n - 1 /\ k - 1 \notin Above
    BY <2>2, <2>3
  <2>5. ~(x <= b[k - 1]) /\ b[k - 1] \in Nat /\ x <= b[(k - 1) + 1]
    BY <1>0, <2>2, <2>3, <2>4
  <2>6. b[(k - 1) + 1] \in Nat
    BY <1>0, <2>2, <2>3
  <2>7. x \in Slice(b, k - 1)
    BY <2>3, <2>5, <2>6 DEF Slice
  <2> QED
    BY <2>4, <2>7
<1>4. \A i, j \in 0 .. n - 1 : i # j => i < j \/ j < i
  OBVIOUS
<1> QED
  BY <1>1, <1>2, <1>3, <1>4

-----------------------------------------------------------------------------
(* Where the intervals, and the shards, end.                               *)
PrimeCut == [k \in 0 .. MAX_THREAD |-> IF k = MAX_THREAD THEN MAX_NUMBER ELSE k * K!prime_chunk]

(* ho8: the intervals of the threads are the slices of 1 .. MAX_NUMBER.    *)
LEMMA PrimeCuts ==
  /\ IsCut(PrimeCut, MAX_THREAD) /\ PrimeCut[MAX_THREAD] = MAX_NUMBER
  /\ \A i \in 0 .. MAX_THREAD - 1 : K!start(i) = PrimeCut[i] + 1 /\ K!end(i) = PrimeCut[i + 1]
<1> DEFINE c == K!prime_chunk
<1>1. c \in Nat /\ MAX_THREAD * c <= MAX_NUMBER
  <2>1. /\ MAX_NUMBER \div MAX_THREAD \in Nat
        /\ MAX_NUMBER = (MAX_NUMBER \div MAX_THREAD) * MAX_THREAD + (MAX_NUMBER % MAX_THREAD)
        /\ MAX_NUMBER % MAX_THREAD \in Nat
    BY KSizes
  <2> QED
    BY <2>1, KSizes DEF K!prime_chunk
<1> HIDE DEF c
<1>2. \A k \in 0 .. MAX_THREAD : PrimeCut[k] = IF k = MAX_THREAD THEN MAX_NUMBER ELSE k * c
  BY DEF PrimeCut, c
<1>3. ASSUME NEW i \in 0 .. MAX_THREAD - 1
      PROVE  /\ i * c \in Nat /\ (i + 1) * c = i * c + c /\ (i + 1) * c <= MAX_THREAD * c
             /\ PrimeCut[i] = i * c
             /\ PrimeCut[i + 1] = IF i = MAX_THREAD - 1 THEN MAX_NUMBER ELSE (i + 1) * c
  <2>1. i * c \in Nat /\ (i + 1) * c = i * c + c /\ (i + 1) * c <= MAX_THREAD * c
    BY <1>1, KSizes, Products
  <2> QED
    BY <1>2, <2>1, KSizes
<1>4. \A i \in 0 .. MAX_THREAD - 1 : PrimeCut[i] <= PrimeCut[i + 1]
  <2> SUFFICES ASSUME NEW i \in 0 .. MAX_THREAD - 1 PROVE PrimeCut[i] <= PrimeCut[i + 1]
    OBVIOUS
  <2>1. /\ i * c \in Nat /\ (i + 1) * c = i * c + c /\ (i + 1) * c <= MAX_THREAD * c
        /\ PrimeCut[i] = i * c
        /\ PrimeCut[i + 1] = IF i = MAX_THREAD - 1 THEN MAX_NUMBER ELSE (i + 1) * c
    BY <1>3
  <2>2. MAX_THREAD * c \in Int
    BY <1>1, KSizes
  <2> QED
    BY <1>1, <2>1, <2>2, KSizes
<1>5. \A i \in 0 .. MAX_THREAD : PrimeCut[i] \in Nat
  BY <1>1, <1>2, KSizes
<1>6. PrimeCut[0] = 0
  BY <1>1, <1>2, KSizes
<1>7. \A i \in 0 .. MAX_THREAD - 1 : K!start(i) = PrimeCut[i] + 1 /\ K!end(i) = PrimeCut[i + 1]
  BY <1>3 DEF K!start, K!end, c
<1> QED
  BY <1>2, <1>4, <1>5, <1>6, <1>7, KSizes DEF IsCut

ShardCut == [k \in 0 .. num_workers |-> k * (num_examples \div num_workers)
                                        + K!Min({k, num_examples % num_workers})]

(* ho19: the shards are the slices of the training set, and none is empty. *)
LEMMA ShardCuts ==
  /\ IsCut(ShardCut, num_workers) /\ ShardCut[num_workers] = num_examples
  /\ \A i \in 0 .. num_workers - 1 : K!Shard(i) = Slice(ShardCut, i) /\ ShardCut[i] < ShardCut[i + 1]
<1> DEFINE size == num_examples \div num_workers
           more == num_examples % num_workers
<1>1. /\ size \in Nat /\ more \in Nat /\ more < num_workers
      /\ num_examples = num_workers * size + more
  <2>1. /\ size \in Nat /\ num_examples = size * num_workers + more
        /\ more \in Nat /\ more < num_workers
    BY KSizes
  <2> QED
    BY <2>1, KSizes
<1>2. size > 0
  BY <1>1, KSizes
<1>3. \A k \in Nat : K!Min({k, more}) = IF k <= more THEN k ELSE more
  BY <1>1 DEF K!Min
<1>4. \A k \in 0 .. num_workers : ShardCut[k] = k * size + IF k <= more THEN k ELSE more
  BY <1>3 DEF ShardCut
<1>s. \A i \in 0 .. num_workers - 1 :
        K!Shard(i) = (i * size + K!Min({i, more})) + 1
                     .. (i * size + K!Min({i, more})) + size + (IF i < more THEN 1 ELSE 0)
  BY DEF K!Shard
<1> HIDE DEF size, more
<1>5. ASSUME NEW i \in 0 .. num_workers - 1
      PROVE  /\ i * size \in Nat /\ (i + 1) * size = i * size + size
             /\ ShardCut[i + 1] = ShardCut[i] + size + (IF i < more THEN 1 ELSE 0)
             /\ ShardCut[i] \in Nat
  <2>1. i * size \in Nat /\ (i + 1) * size = i * size + size
    BY <1>1, KSizes, Products
  <2>2. /\ ShardCut[i] = i * size + IF i <= more THEN i ELSE more
        /\ ShardCut[i + 1] = (i + 1) * size + IF i + 1 <= more THEN i + 1 ELSE more
    BY <1>4, KSizes
  <2> QED
    BY <1>1, <2>1, <2>2, KSizes
<1>6. \A i \in 0 .. num_workers - 1 : K!Shard(i) = Slice(ShardCut, i) /\ ShardCut[i] < ShardCut[i + 1]
  <2> SUFFICES ASSUME NEW i \in 0 .. num_workers - 1
               PROVE  K!Shard(i) = Slice(ShardCut, i) /\ ShardCut[i] < ShardCut[i + 1]
    OBVIOUS
  <2>1. ShardCut[i] = i * size + K!Min({i, more})
    BY <1>3, <1>4, KSizes
  <2> QED
    BY <1>s, <1>1, <1>2, <1>5, <2>1 DEF Slice
<1>7. \A i \in 0 .. num_workers : ShardCut[i] \in Nat
  <2> SUFFICES ASSUME NEW i \in 0 .. num_workers PROVE ShardCut[i] \in Nat
    OBVIOUS
  <2>1. i * size \in Nat
    BY <1>1, KSizes, Products
  <2> QED
    BY <1>1, <1>4, <2>1, KSizes
<1>8. ShardCut[0] = 0 /\ ShardCut[num_workers] = num_examples
  BY <1>1, <1>4, KSizes
<1> QED
  BY <1>5, <1>6, <1>7, <1>8, KSizes DEF IsCut

-----------------------------------------------------------------------------
(* What a task makes of a sequence of items, all at once.                  *)
CountOf(s) == Cardinality({k \in DOMAIN s : K!is_prime(s[k])})
OutcomeOf(s) == IF s = <<>> THEN 0 ELSE K!compute(s[Len(s)])
BagOf(s) == [w \in {s[k] : k \in DOMAIN s} |-> Cardinality({k \in DOMAIN s : s[k] = w})]
ModelOf(s) == [base |-> IF s = <<>> THEN 0 ELSE s[Len(s)].base, seen |-> {s[k].example : k \in DOMAIN s}]
Value(s) == IF K!Counts THEN CountOf(s)
            ELSE IF kProgram = "graph" THEN OutcomeOf(s)
            ELSE IF kProgram = "words" THEN BagOf(s) ELSE ModelOf(s)

(* Before its first item a task has the value of no items,                 *)
LEMMA ValueOfNone == kProgram \in K!Programs => Value(<<>>) = K!Zero
<1>1. CountOf(<<>>) = 0
  <2>1. {k \in DOMAIN <<>> : K!is_prime(<<>>[k])} = {}
    OBVIOUS
  <2> QED
    BY <2>1, FS_EmptySet DEF CountOf
<1>2. BagOf(<<>>) = K!EmptyBag
  BY DEF BagOf, K!EmptyBag, K!SetToBag
<1>3. ModelOf(<<>>) = [base |-> 0, seen |-> {}]
  BY DEF ModelOf
<1> QED
  BY <1>1, <1>2, <1>3, KZero DEF Value, OutcomeOf, K!Programs, K!Counts

LEMMA AppendIndices ==
  ASSUME NEW E, NEW s \in Seq(E), NEW x
  PROVE  /\ DOMAIN Append(s, x) = DOMAIN s \cup {Len(s) + 1} /\ Len(s) + 1 \notin DOMAIN s
         /\ \A k \in DOMAIN s : Append(s, x)[k] = s[k]
         /\ Append(s, x)[Len(s) + 1] = x
         /\ IsFiniteSet(DOMAIN s) /\ Len(Append(s, x)) = Len(s) + 1 /\ Append(s, x) # <<>>
<1>1. DOMAIN s = 1 .. Len(s) /\ Len(s) \in Nat
  OBVIOUS
<1>2. IsFiniteSet(1 .. Len(s))
  BY <1>1, FS_Interval
<1> QED
  BY <1>1, <1>2

(* The places of s that hold an element of Ok.                             *)
Hits(s, Ok) == {k \in DOMAIN s : s[k] \in Ok}

LEMMA CountMore ==
  ASSUME NEW E, NEW s \in Seq(E), NEW x, NEW Ok
  PROVE  /\ IsFiniteSet(Hits(s, Ok)) /\ Cardinality(Hits(s, Ok)) \in Nat
         /\ Cardinality(Hits(Append(s, x), Ok)) =
              IF x \in Ok THEN Cardinality(Hits(s, Ok)) + 1 ELSE Cardinality(Hits(s, Ok))
<1> DEFINE A == Hits(s, Ok)
           Y == Hits(Append(s, x), Ok)
           n == Len(s) + 1
<1>1. /\ DOMAIN Append(s, x) = DOMAIN s \cup {n} /\ n \notin DOMAIN s
      /\ \A k \in DOMAIN s : Append(s, x)[k] = s[k]
      /\ Append(s, x)[n] = x /\ IsFiniteSet(DOMAIN s)
  BY AppendIndices
<1> HIDE DEF n
<1>2. Y = IF x \in Ok THEN A \cup {n} ELSE A
  BY <1>1 DEF Hits
<1>3. IsFiniteSet(A) /\ n \notin A
  BY <1>1, FS_Subset DEF Hits
<1> HIDE DEF A, Y
<1>4. Cardinality(A) \in Nat /\ Cardinality(A \cup {n}) = Cardinality(A) + 1
  BY <1>3, FS_CardinalityType, FS_AddElement
<1> QED
  BY <1>2, <1>3, <1>4 DEF A, Y

(* and with each item it goes on to the value of one item more.            *)
LEMMA ValueOfMore ==
  ASSUME kProgram \in K!Programs, NEW E, NEW s \in Seq(E), NEW x
  PROVE  Value(Append(s, x)) = K!Add(Value(s), x)
<1> DEFINE t == Append(s, x)
<1>0. /\ DOMAIN t = DOMAIN s \cup {Len(s) + 1} /\ Len(s) + 1 \notin DOMAIN s
      /\ \A k \in DOMAIN s : t[k] = s[k]
      /\ t[Len(s) + 1] = x /\ IsFiniteSet(DOMAIN s) /\ Len(t) = Len(s) + 1 /\ t # <<>>
  BY AppendIndices
<1>c. ASSUME NEW Ok
      PROVE  /\ IsFiniteSet(Hits(s, Ok)) /\ Cardinality(Hits(s, Ok)) \in Nat
             /\ Cardinality(Hits(t, Ok)) =
                  IF x \in Ok THEN Cardinality(Hits(s, Ok)) + 1 ELSE Cardinality(Hits(s, Ok))
  BY CountMore
<1>1. CountOf(t) = IF K!is_prime(x) THEN CountOf(s) + 1 ELSE CountOf(s)
  <2> DEFINE Ok == {y \in {t[k] : k \in DOMAIN t} : K!is_prime(y)}
  <2>1. /\ {k \in DOMAIN s : K!is_prime(s[k])} = Hits(s, Ok)
        /\ {k \in DOMAIN t : K!is_prime(t[k])} = Hits(t, Ok)
        /\ K!is_prime(x) <=> x \in Ok
    BY <1>0 DEF Hits
  <2> HIDE DEF Ok
  <2> QED
    BY <1>c, <2>1 DEF CountOf
<1>2. OutcomeOf(t) = K!compute(x)
  BY <1>0 DEF OutcomeOf
<1>3. ModelOf(t) = [base |-> x.base, seen |-> ModelOf(s).seen \cup {x.example}]
  <2>1. {t[k].example : k \in DOMAIN t} = {s[k].example : k \in DOMAIN s} \cup {x.example}
    BY <1>0
  <2> QED
    BY <1>0, <2>1 DEF ModelOf
<1>4. BagOf(t) = K!(+)(BagOf(s), K!SetToBag({x}))
  <2> DEFINE Words(q) == {q[k] : k \in DOMAIN q}
             Copies(q, w) == Cardinality({k \in DOMAIN q : q[k] = w})
  <2>1. Words(t) = Words(s) \cup {x}
    BY <1>0
  <2>2. \A w : /\ Copies(s, w) \in Nat
               /\ Copies(t, w) = IF x = w THEN Copies(s, w) + 1 ELSE Copies(s, w)
               /\ w \notin Words(s) => Copies(s, w) = 0
    <3> SUFFICES ASSUME NEW w
                 PROVE  /\ Copies(s, w) \in Nat
                        /\ Copies(t, w) = IF x = w THEN Copies(s, w) + 1 ELSE Copies(s, w)
                        /\ w \notin Words(s) => Copies(s, w) = 0
      OBVIOUS
    <3>1. \A q : {k \in DOMAIN q : q[k] = w} = Hits(q, {w})
      BY DEF Hits
    <3>2. /\ Copies(s, w) \in Nat
          /\ Copies(t, w) = IF x \in {w} THEN Copies(s, w) + 1 ELSE Copies(s, w)
      BY <1>c, <3>1
    <3>3. w \notin Words(s) => Copies(s, w) = 0
      <4> SUFFICES ASSUME w \notin Words(s) PROVE Copies(s, w) = 0
        OBVIOUS
      <4>1. {k \in DOMAIN s : s[k] = w} = {}
        OBVIOUS
      <4> QED
        BY <4>1, FS_EmptySet
    <3> QED
      BY <3>2, <3>3
  <2>3. BagOf(s) = [w \in Words(s) |-> Copies(s, w)] /\ BagOf(t) = [w \in Words(t) |-> Copies(t, w)]
    BY DEF BagOf
  <2> HIDE DEF Words, Copies
  <2>4. K!(+)(BagOf(s), K!SetToBag({x})) =
          [w \in Words(s) \cup {x} |-> (IF w \in Words(s) THEN Copies(s, w) ELSE 0)
                                       + (IF w \in {x} THEN 1 ELSE 0)]
    BY <2>3 DEF K!(+), K!SetToBag
  <2>5. \A w \in Words(s) \cup {x} : Copies(t, w) = (IF w \in Words(s) THEN Copies(s, w) ELSE 0)
                                                   + (IF w \in {x} THEN 1 ELSE 0)
    BY <2>2
  <2> QED
    BY <2>1, <2>3, <2>4, <2>5, Zenon
<1> QED
  BY <1>1, <1>2, <1>3, <1>4, KAdd DEF Value, K!Programs, K!Counts

-----------------------------------------------------------------------------
(* Bags: the labels of a set's elements, with the number of elements that  *)
(* bear each.                                                              *)
Bearers(A, tag, w) == {x \in A : tag[x] = w}
BagFrom(A, tag) == [w \in {tag[x] : x \in A} |-> Cardinality(Bearers(A, tag, w))]

LEMMA BagOfIs == \A s : BagOf(s) = BagFrom(DOMAIN s, s)
  BY DEF BagOf, BagFrom, Bearers

LEMMA BagCopies ==
  ASSUME NEW A, IsFiniteSet(A), NEW tag, NEW w
  PROVE  /\ IsFiniteSet(Bearers(A, tag, w)) /\ Cardinality(Bearers(A, tag, w)) \in Nat
         /\ w \notin {tag[x] : x \in A} => Cardinality(Bearers(A, tag, w)) = 0
<1> DEFINE X == Bearers(A, tag, w)
<1>1. IsFiniteSet(X)
  BY FS_Subset DEF Bearers
<1>2. w \notin {tag[x] : x \in A} => X = {}
  BY DEF Bearers
<1> HIDE DEF X
<1>3. Cardinality(X) \in Nat /\ (X = {} => Cardinality(X) = 0)
  BY <1>1, FS_CardinalityType, FS_EmptySet
<1> QED
  BY <1>1, <1>2, <1>3 DEF X

(* The bags of two disjoint sets add up to the bag of their union.         *)
LEMMA BagUnion ==
  ASSUME NEW A, IsFiniteSet(A), NEW Y, IsFiniteSet(Y), A \cap Y = {}, NEW tag
  PROVE  BagFrom(A \cup Y, tag) = K!(+)(BagFrom(A, tag), BagFrom(Y, tag))
<1> DEFINE Labels(X) == {tag[x] : x \in X}
           Copies(X, w) == Cardinality(Bearers(X, tag, w))
<1>1. Labels(A \cup Y) = Labels(A) \cup Labels(Y)
  OBVIOUS
<1>2. \A w : Copies(A \cup Y, w) = (IF w \in Labels(A) THEN Copies(A, w) ELSE 0)
                                   + (IF w \in Labels(Y) THEN Copies(Y, w) ELSE 0)
  <2> SUFFICES ASSUME NEW w
               PROVE  Copies(A \cup Y, w) = (IF w \in Labels(A) THEN Copies(A, w) ELSE 0)
                                            + (IF w \in Labels(Y) THEN Copies(Y, w) ELSE 0)
    OBVIOUS
  <2> DEFINE P == Bearers(A, tag, w)
             Q == Bearers(Y, tag, w)
  <2>1. Bearers(A \cup Y, tag, w) = P \cup Q /\ P \cap Q = {}
    BY DEF Bearers
  <2>2. /\ IsFiniteSet(P) /\ Cardinality(P) \in Nat
        /\ w \notin Labels(A) => Cardinality(P) = 0
    BY BagCopies
  <2>3. /\ IsFiniteSet(Q) /\ Cardinality(Q) \in Nat
        /\ w \notin Labels(Y) => Cardinality(Q) = 0
    BY BagCopies
  <2>4. Copies(A, w) = Cardinality(P) /\ Copies(Y, w) = Cardinality(Q)
        /\ Copies(A \cup Y, w) = Cardinality(P \cup Q)
    BY <2>1
  <2> HIDE DEF P, Q, Labels, Copies
  <2>5. Cardinality(P \cup Q) = Cardinality(P) + Cardinality(Q)
    BY <2>1, <2>2, <2>3, DisjointUnion
  <2> QED
    BY <2>2, <2>3, <2>4, <2>5
<1>3. \A X : BagFrom(X, tag) = [w \in Labels(X) |-> Copies(X, w)]
  BY DEF BagFrom
<1> HIDE DEF Labels, Copies
<1>4. K!(+)(BagFrom(A, tag), BagFrom(Y, tag)) =
        [w \in Labels(A) \cup Labels(Y) |-> (IF w \in Labels(A) THEN Copies(A, w) ELSE 0)
                                            + (IF w \in Labels(Y) THEN Copies(Y, w) ELSE 0)]
  BY <1>3 DEF K!(+)
<1> QED
  BY <1>1, <1>2, <1>3, <1>4, Zenon

(* The same labels on other elements make the same bag.                    *)
LEMMA BagMoves ==
  ASSUME NEW A, IsFiniteSet(A), NEW Y, NEW f, NEW la, NEW lb,
         \A x \in A : f[x] \in Y /\ la[x] = lb[f[x]],
         \A x, y \in A : f[x] = f[y] => x = y,
         \A z \in Y : \E x \in A : f[x] = z
  PROVE  BagFrom(A, la) = BagFrom(Y, lb)
<1>1. {la[x] : x \in A} = {lb[z] : z \in Y}
  <2>1. ASSUME NEW z \in Y PROVE \E x \in A : la[x] = lb[z]
    OBVIOUS
  <2> QED
    BY <2>1
<1>2. ASSUME NEW w PROVE Cardinality(Bearers(A, la, w)) = Cardinality(Bearers(Y, lb, w))
  <2> DEFINE P == Bearers(A, la, w)
             Q == Bearers(Y, lb, w)
  <2>1. IsFiniteSet(P)
    BY FS_Subset DEF Bearers
  <2>2. /\ \A x \in P : f[x] \in Q
        /\ \A x, y \in P : f[x] = f[y] => x = y
        /\ \A z \in Q : \E x \in P : f[x] = z
    BY DEF Bearers
  <2> HIDE DEF P, Q
  <2>3. Cardinality(P) = Cardinality(Q)
    BY <2>1, <2>2, SameSize
  <2> QED
    BY <2>3 DEF P, Q
<1> QED
  BY <1>1, <1>2 DEF BagFrom

(* A sequence of bags, each of the labels of a set of its own, and a        *)
(* sequence of words, folded into one bag.                                 *)
BagSum(D, bag, f) == f = [s \in SUBSET D |-> IF s = {} THEN K!EmptyBag
                                             ELSE K!(+)(f[s \ {Pick(s)}], bag[Pick(s)])]
WordSum(D, word, f) == f = [s \in SUBSET D |-> IF s = {} THEN K!EmptyBag
                              ELSE K!(+)(f[s \ {Pick(s)}], K!SetToBag({word[Pick(s)]}))]

(* Bags of disjoint sets fold into the bag of their union.                 *)
LEMMA BagSumIs ==
  ASSUME NEW D, IsFiniteSet(D), NEW bag, NEW P, NEW tag,
         \A x \in D : IsFiniteSet(P[x]) /\ bag[x] = BagFrom(P[x], tag),
         \A x, y \in D : x # y => P[x] \cap P[y] = {}
  PROVE  (CHOOSE f : BagSum(D, bag, f))[D] = BagFrom(Whole(P, D), tag)
<1> DEFINE g == [s \in SUBSET D |-> BagFrom(Whole(P, s), tag)]
           h == CHOOSE f : BagSum(D, bag, f)
<1>1. \A s \in SUBSET D : \A x \in s : g[s] = K!(+)(g[s \ {x}], bag[x])
  <2> SUFFICES ASSUME NEW s \in SUBSET D, NEW x \in s PROVE g[s] = K!(+)(g[s \ {x}], bag[x])
    OBVIOUS
  <2> DEFINE rest == Whole(P, s \ {x})
  <2>1. IsFiniteSet(rest)
    <3>1. s \ {x} \in SUBSET D /\ IsFiniteSet(s \ {x})
      BY FS_Subset
    <3>2. CASE s \ {x} = {}
      <4>1. rest = {}
        BY <3>2 DEF Whole
      <4> QED
        BY <4>1, FS_EmptySet
    <3>3. CASE s \ {x} # {}
      <4>1. PICK y \in s \ {x} : TRUE
        BY <3>3
      <4> QED
        BY <3>1, <4>1, UnionGrows
    <3> QED
      BY <3>2, <3>3
  <2>2. Whole(P, s) = rest \cup P[x] /\ rest \cap P[x] = {} /\ IsFiniteSet(P[x])
    BY DEF Whole
  <2>3. g[s] = BagFrom(Whole(P, s), tag) /\ g[s \ {x}] = BagFrom(rest, tag)
        /\ bag[x] = BagFrom(P[x], tag)
    OBVIOUS
  <2> HIDE DEF g, rest
  <2>4. BagFrom(rest \cup P[x], tag) = K!(+)(BagFrom(rest, tag), BagFrom(P[x], tag))
    BY <2>1, <2>2, BagUnion
  <2> QED
    BY <2>2, <2>3, <2>4
<1>2. g[{}] = K!EmptyBag
  <2>1. Whole(P, {}) = {}
    BY DEF Whole
  <2>2. BagFrom({}, tag) = K!EmptyBag
    BY DEF BagFrom, K!EmptyBag, K!SetToBag
  <2> QED
    BY <2>1, <2>2
<1>3. BagSum(D, bag, g)
  <2>1. \A s \in SUBSET D : g[s] = IF s = {} THEN K!EmptyBag
                                   ELSE K!(+)(g[s \ {Pick(s)}], bag[Pick(s)])
    BY <1>1, <1>2, PickIn
  <2>2. g = [s \in SUBSET D |-> g[s]]
    OBVIOUS
  <2> HIDE DEF g
  <2> QED
    BY <2>1, <2>2, Zenon DEF BagSum
<1> HIDE DEF g
<1>4. BagSum(D, bag, h)
  BY <1>3
<1> HIDE DEF h
<1>5. \A s \in SUBSET D : h[s] = IF s = {} THEN K!EmptyBag
                                 ELSE K!(+)(h[s \ {Pick(s)}], bag[Pick(s)])
  BY <1>4 DEF BagSum
<1>6. \A s \in SUBSET D : s # {} => \E x \in s : h[s \ {x}] = g[s \ {x}] => h[s] = g[s]
  <2> SUFFICES ASSUME NEW s \in SUBSET D, s # {},
                      h[s \ {Pick(s)}] = g[s \ {Pick(s)}]
               PROVE  h[s] = g[s]
    BY PickIn
  <2>1. Pick(s) \in s
    BY PickIn
  <2>2. g[s] = K!(+)(g[s \ {Pick(s)}], bag[Pick(s)])
    BY <1>1, <2>1
  <2>3. h[s] = K!(+)(h[s \ {Pick(s)}], bag[Pick(s)])
    BY <1>5
  <2> QED
    BY <2>2, <2>3, Zenon
<1>7. h[D] = g[D]
  <2>1. h[{}] = g[{}]
    BY <1>2, <1>5
  <2> QED
    BY <1>6, <2>1, SameFold
<1> QED
  BY <1>7 DEF g, h

(* Words fold into their bag.                                              *)
LEMMA WordSumIs ==
  ASSUME NEW D, IsFiniteSet(D), NEW word
  PROVE  (CHOOSE f : WordSum(D, word, f))[D] = BagFrom(D, word)
<1> DEFINE P == [x \in D |-> {x}]
           bag == [x \in D |-> K!SetToBag({word[x]})]
<1>1. \A x \in D : IsFiniteSet(P[x]) /\ bag[x] = BagFrom(P[x], word)
  <2> SUFFICES ASSUME NEW x \in D PROVE IsFiniteSet({x}) /\ K!SetToBag({word[x]}) = BagFrom({x}, word)
    OBVIOUS
  <2>1. {word[y] : y \in {x}} = {word[x]} /\ Bearers({x}, word, word[x]) = {x}
    BY DEF Bearers
  <2>2. IsFiniteSet({x}) /\ Cardinality({x}) = 1
    BY FS_Singleton
  <2>3. BagFrom({x}, word) = [w \in {word[x]} |-> 1]
    BY <2>1, <2>2 DEF BagFrom
  <2> QED
    BY <2>2, <2>3 DEF K!SetToBag
<1>2. \A x, y \in D : x # y => P[x] \cap P[y] = {}
  OBVIOUS
<1>3. Whole(P, D) = D
  BY DEF Whole
<1>4. \A f : BagSum(D, bag, f) <=> WordSum(D, word, f)
  <2> SUFFICES ASSUME NEW f PROVE BagSum(D, bag, f) <=> WordSum(D, word, f)
    OBVIOUS
  <2>1. \A s \in SUBSET D : s # {} => bag[Pick(s)] = K!SetToBag({word[Pick(s)]})
    BY PickIn
  <2> HIDE DEF bag
  <2>2. [s \in SUBSET D |-> IF s = {} THEN K!EmptyBag
                            ELSE K!(+)(f[s \ {Pick(s)}], bag[Pick(s)])]
        = [s \in SUBSET D |-> IF s = {} THEN K!EmptyBag
                              ELSE K!(+)(f[s \ {Pick(s)}], K!SetToBag({word[Pick(s)]}))]
    BY <2>1, Zenon
  <2> QED
    BY <2>2 DEF BagSum, WordSum
<1> HIDE DEF P, bag
<1>5. (CHOOSE f : BagSum(D, bag, f)) = (CHOOSE f : WordSum(D, word, f))
  BY <1>4, Zenon
<1>6. (CHOOSE f : BagSum(D, bag, f))[D] = BagFrom(Whole(P, D), word)
  BY <1>1, <1>2, BagSumIs
<1> QED
  BY <1>3, <1>5, <1>6

-----------------------------------------------------------------------------
(* The runs of letters in a sequence: each letter is in one of them, and   *)
(* runs that have a place in common are the same.                          *)
LEMMA RunsApart ==
  ASSUME NEW s, Len(s) \in Nat, NEW q \in K!Runs(s), NEW r \in K!Runs(s),
         q[1] <= r[2], r[1] <= q[2]
  PROVE  q = r
<1>1. /\ q[1] \in Nat /\ q[2] \in Nat /\ r[1] \in Nat /\ r[2] \in Nat
      /\ q = <<q[1], q[2]>> /\ r = <<r[1], r[2]>>
      /\ q[1] <= q[2] /\ r[1] <= r[2]
  BY DEF K!Runs
<1>2. /\ \A j \in q[1] .. q[2] : K!Letter(s, j)
      /\ \A j \in r[1] .. r[2] : K!Letter(s, j)
      /\ ~K!Letter(s, q[1] - 1) /\ ~K!Letter(s, q[2] + 1)
      /\ ~K!Letter(s, r[1] - 1) /\ ~K!Letter(s, r[2] + 1)
  BY DEF K!Runs
<1>3. q[1] = r[1]
  <2>1. CASE q[1] < r[1]
    <3>1. r[1] - 1 \in q[1] .. q[2]
      BY <1>1, <2>1
    <3> QED
      BY <1>2, <3>1
  <2>2. CASE r[1] < q[1]
    <3>1. q[1] - 1 \in r[1] .. r[2]
      BY <1>1, <2>2
    <3> QED
      BY <1>2, <3>1
  <2> QED
    BY <1>1, <2>1, <2>2
<1>4. q[2] = r[2]
  <2>1. CASE q[2] < r[2]
    <3>1. q[2] + 1 \in r[1] .. r[2]
      BY <1>1, <2>1
    <3> QED
      BY <1>2, <3>1
  <2>2. CASE r[2] < q[2]
    <3>1. r[2] + 1 \in q[1] .. q[2]
      BY <1>1, <2>2
    <3> QED
      BY <1>2, <3>1
  <2> QED
    BY <1>1, <2>1, <2>2
<1> QED
  BY <1>1, <1>3, <1>4

LEMMA RunsCover ==
  ASSUME NEW s, Len(s) \in Nat, NEW j, K!Letter(s, j)
  PROVE  \E r \in K!Runs(s) : r[1] <= j /\ j <= r[2]
<1>0. j \in Nat /\ j \in 1 .. Len(s) /\ \A i : K!Letter(s, i) => i \in 1 .. Len(s)
  BY DEF K!Letter
<1> DEFINE Ends == {e \in j .. Len(s) : ~K!Letter(s, e + 1)}
           Steps == {d \in 0 .. j - 1 : ~K!Letter(s, j - d - 1)}
<1>1. Len(s) \in Ends /\ Ends \in SUBSET Nat
  <2>1. ~K!Letter(s, Len(s) + 1)
    BY <1>0
  <2> QED
    BY <1>0, <2>1
<1>2. j - 1 \in Steps /\ Steps \in SUBSET Nat
  <2>1. ~K!Letter(s, j - (j - 1) - 1)
    BY <1>0
  <2> QED
    BY <1>0, <2>1
<1>3. PICK e \in Ends : \A m \in Ends : e <= m
  <2> HIDE DEF Ends
  <2> QED
    BY <1>1, NatMinimum
<1>4. PICK d \in Steps : \A m \in Steps : d <= m
  <2> HIDE DEF Steps
  <2> QED
    BY <1>2, NatMinimum
<1>5. ASSUME NEW i \in j - d .. e PROVE K!Letter(s, i)
  <2>1. CASE i = j
    BY <2>1
  <2>2. CASE i > j
    <3>0. i \in Nat /\ e \in Nat /\ d \in Nat /\ i <= e /\ e <= Len(s)
      BY <1>0, <1>3, <1>4, <1>5, <2>2
    <3>1. i - 1 \in j .. Len(s) /\ i - 1 \notin Ends
      <4>1. i - 1 \in j .. Len(s) /\ ~(e <= i - 1)
        BY <1>0, <2>2, <3>0
      <4> HIDE DEF Ends
      <4> QED
        BY <1>3, <4>1
    <3>2. (i - 1) + 1 = i
      BY <1>0, <1>5
    <3> QED
      BY <3>1, <3>2
  <2>3. CASE i < j
    <3>0. i \in Int /\ d \in Nat /\ d <= j - 1 /\ i >= j - d
      BY <1>0, <1>3, <1>4, <1>5, <2>3
    <3>1. j - i - 1 \in 0 .. j - 1 /\ j - i - 1 \notin Steps
      <4>1. j - i - 1 \in 0 .. j - 1 /\ ~(d <= j - i - 1)
        BY <1>0, <2>3, <3>0
      <4> HIDE DEF Steps
      <4> QED
        BY <1>4, <4>1
    <3>2. j - (j - i - 1) - 1 = i
      BY <1>0, <1>5
    <3> QED
      BY <3>1, <3>2
  <2> QED
    BY <1>0, <1>5, <2>1, <2>2, <2>3
<1>6. /\ j - d \in 1 .. Len(s) /\ e \in 1 .. Len(s) /\ j - d <= j /\ j <= e /\ j - d <= e
      /\ ~K!Letter(s, (j - d) - 1) /\ ~K!Letter(s, e + 1)
  BY <1>0, <1>3, <1>4
<1>7. <<j - d, e>> \in K!Runs(s)
  BY <1>5, <1>6 DEF K!Runs
<1> QED
  BY <1>6, <1>7

(* A run begins at each letter that follows none.                          *)
Starts(s) == {j \in 1 .. Len(s) : K!Letter(s, j) /\ ~K!Letter(s, j - 1)}

(* There is one run for each of these places.                              *)
LEMMA RunsStart ==
  ASSUME NEW s, Len(s) \in Nat
  PROVE  /\ IsFiniteSet(K!Runs(s))
         /\ \A r \in K!Runs(s) : r[1] \in Starts(s)
         /\ \A j \in Starts(s) : \E r \in K!Runs(s) : r[1] = j
         /\ \A q, r \in K!Runs(s) : q[1] = r[1] => q = r
<1>1. IsFiniteSet(K!Runs(s))
  <2>1. IsFiniteSet(1 .. Len(s))
    BY FS_Interval
  <2>2. IsFiniteSet((1 .. Len(s)) \X (1 .. Len(s)))
    BY <2>1, FS_Product
  <2>3. K!Runs(s) \in SUBSET ((1 .. Len(s)) \X (1 .. Len(s)))
    BY DEF K!Runs
  <2> QED
    BY <2>2, <2>3, FS_Subset
<1>2. \A r \in K!Runs(s) : r[1] \in Starts(s) /\ r[1] \in Nat /\ r[2] \in Nat /\ r[1] <= r[2]
  BY DEF K!Runs, Starts
<1>3. ASSUME NEW j \in Starts(s) PROVE \E r \in K!Runs(s) : r[1] = j
  <2>1. PICK r \in K!Runs(s) : r[1] <= j /\ j <= r[2]
    BY RunsCover DEF Starts
  <2>2. r[1] = j
    <3> SUFFICES ASSUME r[1] < j PROVE FALSE
      BY <1>2, <2>1 DEF Starts
    <3>1. j - 1 \in r[1] .. r[2]
      BY <1>2, <2>1 DEF Starts
    <3>2. K!Letter(s, j - 1)
      BY <3>1 DEF K!Runs
    <3> QED
      BY <3>2 DEF Starts
  <2> QED
    BY <2>2
<1>4. \A q, r \in K!Runs(s) : q[1] = r[1] => q = r
  <2> SUFFICES ASSUME NEW q \in K!Runs(s), NEW r \in K!Runs(s), q[1] = r[1] PROVE q = r
    OBVIOUS
  <2>1. q[1] <= r[2] /\ r[1] <= q[2]
    BY <1>2
  <2> QED
    BY <2>1, RunsApart
<1> QED
  BY <1>1, <1>2, <1>3, <1>4

(* findall lists every run once.                                           *)
LEMMA FindallIs ==
  ASSUME NEW s, Len(s) \in Nat
  PROVE  \E run :
           /\ K!findall(s) = [k \in 1 .. Cardinality(K!Runs(s)) |-> SubSeq(s, run[k][1], run[k][2])]
           /\ \A k \in 1 .. Cardinality(K!Runs(s)) : run[k] \in K!Runs(s)
           /\ \A k, m \in 1 .. Cardinality(K!Runs(s)) : run[k] = run[m] => k = m
           /\ \A r \in K!Runs(s) : \E k \in 1 .. Cardinality(K!Runs(s)) : run[k] = r
<1> DEFINE R == K!Runs(s)
           n == Cardinality(R)
           Before(r) == {q \in R : q[1] <= r[1]}
           rank == [r \in R |-> Cardinality(Before(r))]
           run == [k \in 1 .. n |-> CHOOSE r \in R : rank[r] = k]
<1>1. IsFiniteSet(R) /\ n \in Nat /\ \A r \in R : r[1] \in Nat
  BY RunsStart, FS_CardinalityType DEF Starts
<1>2. ASSUME NEW r \in R PROVE IsFiniteSet(Before(r)) /\ rank[r] \in 1 .. n
  <2>1. Before(r) \in SUBSET R /\ r \in Before(r)
    BY <1>1
  <2>2. rank[r] = Cardinality(Before(r))
    OBVIOUS
  <2> HIDE DEF Before, R, rank
  <2>3. IsFiniteSet(Before(r)) /\ Cardinality(Before(r)) <= Cardinality(R)
    BY <1>1, <2>1, FS_Subset
  <2>4. Cardinality(Before(r)) \in Nat /\ Cardinality(Before(r)) # 0
    BY <2>1, <2>3, FS_CardinalityType, FS_EmptySet
  <2> QED
    BY <1>1, <2>2, <2>3, <2>4
<1>3. ASSUME NEW q \in R, NEW r \in R, q[1] < r[1] PROVE rank[q] < rank[r]
  <2>1. Before(q) \in SUBSET Before(r) /\ r \in Before(r) /\ r \notin Before(q)
    BY <1>1, <1>3
  <2>2. rank[r] = Cardinality(Before(r)) /\ rank[q] = Cardinality(Before(q))
    OBVIOUS
  <2>3. IsFiniteSet(Before(r)) /\ rank[q] \in Nat /\ rank[r] \in Nat
    <3>1. IsFiniteSet(Before(r)) /\ rank[q] \in 1 .. n /\ rank[r] \in 1 .. n
      BY <1>2
    <3> HIDE DEF rank, Before, n
    <3> QED
      BY <1>1, <3>1
  <2> HIDE DEF Before, rank
  <2>4. /\ Cardinality(Before(q)) <= Cardinality(Before(r))
        /\ Cardinality(Before(q)) = Cardinality(Before(r)) => Before(q) = Before(r)
    BY <2>1, <2>3, FS_Subset
  <2> QED
    BY <2>1, <2>2, <2>3, <2>4
<1>4. \A q, r \in R : rank[q] = rank[r] => q = r
  <2> SUFFICES ASSUME NEW q \in R, NEW r \in R, rank[q] = rank[r] PROVE q[1] = r[1]
    BY RunsStart
  <2>1. rank[q] \in Nat /\ rank[r] \in Nat
    <3>1. rank[q] \in 1 .. n /\ rank[r] \in 1 .. n
      BY <1>2
    <3> HIDE DEF rank, n
    <3> QED
      BY <1>1, <3>1
  <2> HIDE DEF rank, R
  <2> QED
    BY <1>1, <1>3, <2>1
<1>5. \A k \in 1 .. n : \E r \in R : rank[r] = k
  <2>1. rank \in [R -> 1 .. n]
    BY <1>2
  <2>2. rank \in Injection(R, 1 .. n)
    <3> HIDE DEF rank, R, n
    <3> QED
      BY <1>4, <2>1 DEF Injection, IsInjective
  <2>3. IsFiniteSet(1 .. n) /\ Cardinality(1 .. n) = Cardinality(R)
    BY <1>1, FS_Interval
  <2> HIDE DEF rank, R, n
  <2>4. rank \in Surjection(R, 1 .. n)
    BY <2>2, <2>3, FS_Injection
  <2> QED
    BY <2>4 DEF Surjection
<1>6. \A k \in 1 .. n : run[k] \in R /\ rank[run[k]] = k
  <2> SUFFICES ASSUME NEW k \in 1 .. n PROVE run[k] \in R /\ rank[run[k]] = k
    OBVIOUS
  <2>1. run[k] = CHOOSE r \in R : rank[r] = k
    OBVIOUS
  <2> HIDE DEF rank, run, R, n
  <2> QED
    BY <1>5, <2>1
<1>7. K!findall(s) = [k \in 1 .. n |-> SubSeq(s, run[k][1], run[k][2])]
  <2>1. \A k : (CHOOSE r \in R : K!Cardinality({q \in R : q[1] <= r[1]}) = k) =
               (CHOOSE r \in R : rank[r] = k)
    <3>1. \A r \in R : rank[r] = K!Cardinality({q \in R : q[1] <= r[1]})
      BY KCardinality
    <3> HIDE DEF rank, R
    <3>2. \A k : \A r : (r \in R /\ K!Cardinality({q \in R : q[1] <= r[1]}) = k) <=> (r \in R /\ rank[r] = k)
      BY <3>1
    <3> QED
      BY <3>2, Zenon
  <2>2. K!Cardinality(R) = n
    BY KCardinality
  <2>3. \A k \in 1 .. n : run[k] = CHOOSE r \in R : K!Cardinality({q \in R : q[1] <= r[1]}) = k
    BY <2>1
  <2>4. K!findall(s) = [k \in 1 .. K!Cardinality(R) |->
                          SubSeq(s, (CHOOSE r \in R : K!Cardinality({q \in R : q[1] <= r[1]}) = k)[1],
                                    (CHOOSE r \in R : K!Cardinality({q \in R : q[1] <= r[1]}) = k)[2])]
    BY DEF K!findall
  <2> HIDE DEF n, R, run
  <2> QED
    BY <2>2, <2>3, <2>4, Zenon
<1>8. \A r \in R : \E k \in 1 .. n : run[k] = r
  <2> SUFFICES ASSUME NEW r \in R PROVE run[rank[r]] = r /\ rank[r] \in 1 .. n
    OBVIOUS
  <2>1. rank[r] \in 1 .. n
    BY <1>2
  <2> HIDE DEF rank, run, R, n
  <2>2. run[rank[r]] \in R /\ rank[run[rank[r]]] = rank[r]
    BY <1>6, <2>1
  <2> QED
    BY <1>4, <2>1, <2>2
<1>9. \A k, m \in 1 .. n : run[k] = run[m] => k = m
  <2> HIDE DEF rank, run, R, n
  <2> QED
    BY <1>6
<1>10. \A k \in 1 .. n : run[k] \in R
  BY <1>6
<1> HIDE DEF run
<1> QED
  BY <1>7, <1>8, <1>9, <1>10

-----------------------------------------------------------------------------
(* Where the chunks end.                                                   *)
ChunkCut == [k \in 0 .. K!NumChunks |-> K!Min({k * K!chunk_size, Len(kText)})]

(* The chunks are the slices of the text, and none is empty.               *)
LEMMA ChunkCuts ==
  ASSUME Len(kText) \in Nat, K!chunk_size # 0
  PROVE  /\ K!chunk_size \in Nat /\ K!NumChunks \in Nat /\ K!NumChunks > 0
         /\ IsCut(ChunkCut, K!NumChunks) /\ ChunkCut[K!NumChunks] = Len(kText)
         /\ \A i \in 0 .. K!NumChunks - 1 :
              /\ ChunkCut[i] = i * K!chunk_size /\ ChunkCut[i] < ChunkCut[i + 1]
              /\ ChunkCut[i + 1] <= i * K!chunk_size + K!chunk_size
              /\ i + 1 < K!NumChunks => ChunkCut[i + 1] = i * K!chunk_size + K!chunk_size
              /\ K!chunk(i) = SubSeq(kText, ChunkCut[i] + 1, ChunkCut[i + 1])
<1> DEFINE c == K!chunk_size
           L == Len(kText)
           n == K!NumChunks
<1>1. c \in Nat /\ c > 0 /\ L \in Nat /\ L >= c
  <2>1. c \in Nat /\ L = c * num_mappers + (L % num_mappers) /\ L % num_mappers \in Nat
    BY KSizes DEF K!chunk_size
  <2> HIDE DEF c, L
  <2>2. c * num_mappers >= c
    BY <2>1, KSizes
  <2>3. c # 0 /\ L \in Nat
    BY DEF c, L
  <2> QED
    BY <2>1, <2>2, <2>3, KSizes
<1>2. n \in Nat /\ n * c <= L + c - 1 /\ L + c - 1 < n * c + c
  <2>1. n = (L + c - 1) \div c
    BY DEF K!NumChunks
  <2> HIDE DEF c, L, n
  <2>2. L + c - 1 \in Nat
    BY <1>1
  <2>3. n \in Nat /\ L + c - 1 = n * c + ((L + c - 1) % c)
    BY <1>1, <2>1, <2>2
  <2>4. (L + c - 1) % c \in Nat /\ (L + c - 1) % c < c
    BY <1>1, <2>2
  <2>5. n * c \in Nat
    BY <1>1, <2>3
  <2> QED
    BY <1>1, <2>2, <2>3, <2>4, <2>5
<1>3. n > 0
  <2> HIDE DEF c, L, n
  <2>1. n = 0 => n * c = 0
    BY <1>1
  <2> QED
    BY <1>1, <1>2, <2>1
<1>4. \A a, b \in Nat : K!Min({a, b}) = IF a <= b THEN a ELSE b
  BY DEF K!Min
<1>5. \A k \in 0 .. n : k * c \in Nat /\ ChunkCut[k] = IF k * c <= L THEN k * c ELSE L
  <2> SUFFICES ASSUME NEW k \in 0 .. n
               PROVE  k * c \in Nat /\ ChunkCut[k] = IF k * c <= L THEN k * c ELSE L
    OBVIOUS
  <2>1. ChunkCut[k] = K!Min({k * c, L})
    BY DEF ChunkCut
  <2> HIDE DEF c, L, n
  <2>2. k * c \in Nat
    BY <1>1, <1>2
  <2> QED
    BY <1>1, <1>4, <2>1, <2>2
<1>6. ASSUME NEW i \in 0 .. n - 1
      PROVE  /\ ChunkCut[i] = i * c /\ ChunkCut[i] < ChunkCut[i + 1] /\ i * c \in Nat
             /\ ChunkCut[i + 1] <= i * c + c
             /\ i + 1 < n => ChunkCut[i + 1] = i * c + c
             /\ ChunkCut[i + 1] = IF i * c + c <= L THEN i * c + c ELSE L
  <2> HIDE DEF c, L, n
  <2>1. /\ i * c \in Nat /\ (i + 1) * c = i * c + c /\ (i + 1) * c <= n * c
        /\ n * c \in Nat /\ i \in Nat /\ i + 1 \in 0 .. n /\ i \in 0 .. n
    BY <1>1, <1>2, Products
  <2>2. i * c < L
    BY <1>1, <1>2, <2>1
  <2>3. ChunkCut[i + 1] = IF i * c + c <= L THEN i * c + c ELSE L
    BY <1>5, <2>1
  <2>4. ChunkCut[i] = i * c
    BY <1>1, <1>5, <2>1, <2>2
  <2>5. ASSUME i + 1 < n PROVE i * c + c <= L
    <3>1. i + 1 + 1 <= n /\ (i + 1 + 1) * c = (i + 1) * c + c /\ (i + 1 + 1) * c <= n * c
      BY <1>1, <1>2, <2>1, <2>5, Products
    <3> QED
      BY <1>1, <1>2, <2>1, <3>1
  <2> QED
    BY <1>1, <2>1, <2>2, <2>3, <2>4, <2>5
<1>7. \A i \in 0 .. n - 1 : K!chunk(i) = SubSeq(kText, ChunkCut[i] + 1, ChunkCut[i + 1])
  <2> SUFFICES ASSUME NEW i \in 0 .. n - 1
               PROVE  K!chunk(i) = SubSeq(kText, ChunkCut[i] + 1, ChunkCut[i + 1])
    OBVIOUS
  <2>1. K!chunk(i) = SubSeq(kText, i * c + 1, K!Min({(i + 1) * c, L}))
    BY DEF K!chunk
  <2>2. ChunkCut[i] = i * c /\ ChunkCut[i + 1] = K!Min({(i + 1) * c, L})
    <3>1. i + 1 \in 0 .. n
      <4> HIDE DEF n
      <4> QED
        BY <1>2
    <3>2. ChunkCut[i + 1] = K!Min({(i + 1) * c, L})
      BY <3>1 DEF ChunkCut
    <3> QED
      BY <1>6, <3>2
  <2> QED
    BY <2>1, <2>2
<1>8. ChunkCut[0] = 0 /\ ChunkCut[n] = L
  <2> HIDE DEF c, L, n
  <2>1. 0 * c = 0 /\ 0 \in 0 .. n /\ n \in 0 .. n
    BY <1>1, <1>2
  <2>2. ChunkCut[0] = 0
    BY <1>1, <1>5, <2>1
  <2>3. n * c >= L
    <3>1. n * c \in Nat
      BY <1>1, <1>2
    <3> QED
      BY <1>1, <1>2, <3>1
  <2> QED
    BY <1>1, <1>5, <2>1, <2>2, <2>3
<1>9. IsCut(ChunkCut, n)
  <2> HIDE DEF c, L, n
  <2>1. \A i \in 0 .. n : ChunkCut[i] \in Nat
    BY <1>1, <1>5
  <2>2. \A i \in 0 .. n - 1 : ChunkCut[i] <= ChunkCut[i + 1]
    <3> SUFFICES ASSUME NEW i \in 0 .. n - 1 PROVE ChunkCut[i] <= ChunkCut[i + 1]
      OBVIOUS
    <3>1. ChunkCut[i] \in Nat /\ ChunkCut[i + 1] \in Nat
      BY <1>2, <2>1
    <3> QED
      BY <1>6, <3>1
  <2> QED
    BY <1>8, <2>1, <2>2 DEF IsCut
<1> QED
  BY <1>1, <1>2, <1>3, <1>6, <1>7, <1>8, <1>9

LEMMA PartOfPart ==
  ASSUME NEW U, NEW s \in Seq(U), NEW lo \in Nat, NEW hi \in Nat, lo < hi, hi <= Len(s),
         NEW x \in 1 .. hi - lo, NEW y \in 1 .. hi - lo
  PROVE  SubSeq(SubSeq(s, lo + 1, hi), x, y) = SubSeq(s, lo + x, lo + y)
<1> DEFINE i == lo + 1
<1>1. /\ i \in 1 .. Len(s) /\ hi \in 1 .. Len(s)
      /\ x \in 1 .. hi - i + 1 /\ y \in 1 .. hi - i + 1
      /\ i + x - 1 = lo + x /\ i + y - 1 = lo + y
  OBVIOUS
<1> HIDE DEF i
<1>2. SubSeq(SubSeq(s, i, hi), x, y) = SubSeq(s, i + x - 1, i + y - 1)
  BY <1>1, SubSeqOfSubSeq
<1> QED
  BY <1>1, <1>2 DEF i

(* A letter of a chunk is the letter of the text at its place.             *)
LEMMA ChunkLetters ==
  ASSUME kText \in Seq(Alphabet), K!chunk_size # 0, NEW i \in 0 .. K!NumChunks - 1
  PROVE  /\ K!chunk(i) \in Seq(Alphabet)
         /\ Len(K!chunk(i)) = ChunkCut[i + 1] - ChunkCut[i]
         /\ ChunkCut[i] \in Nat /\ ChunkCut[i + 1] \in Nat /\ ChunkCut[i + 1] <= Len(kText)
         /\ ChunkCut[i] < ChunkCut[i + 1]
         /\ \A j \in Int : K!Letter(K!chunk(i), j) <=>
                             j \in 1 .. ChunkCut[i + 1] - ChunkCut[i]
                             /\ K!Letter(kText, ChunkCut[i] + j)
         /\ \A x, y \in 1 .. Len(K!chunk(i)) :
              SubSeq(K!chunk(i), x, y) = SubSeq(kText, ChunkCut[i] + x, ChunkCut[i] + y)
<1> DEFINE lo == ChunkCut[i]
           hi == ChunkCut[i + 1]
           s == K!chunk(i)
<1>1. /\ s = SubSeq(kText, lo + 1, hi) /\ lo \in Nat /\ hi \in Nat /\ lo < hi /\ hi <= Len(kText)
      /\ Len(kText) \in Nat
  <2>1. Len(kText) \in Nat
    OBVIOUS
  <2>2. /\ IsCut(ChunkCut, K!NumChunks) /\ ChunkCut[K!NumChunks] = Len(kText) /\ K!NumChunks \in Nat
        /\ s = SubSeq(kText, lo + 1, hi) /\ lo < hi
    BY <2>1, ChunkCuts
  <2>3. lo \in Nat /\ hi \in Nat
    BY <2>2 DEF IsCut
  <2>4. hi <= Len(kText)
    <3>1. i + 1 \in 0 .. K!NumChunks /\ K!NumChunks \in (i + 1) .. K!NumChunks
      BY <2>2
    <3> QED
      BY <2>2, <3>1, CutGrows
  <2> QED
    BY <2>1, <2>2, <2>3, <2>4
<1> HIDE DEF lo, hi, s
<1>2. \A j \in lo + 1 .. hi : kText[j] \in Alphabet
  BY <1>1
<1>3. s \in Seq(Alphabet) /\ Len(s) = hi - lo /\ \A j \in 1 .. hi - lo : s[j] = kText[lo + j]
  <2>1. /\ SubSeq(kText, lo + 1, hi) \in Seq(Alphabet)
        /\ Len(SubSeq(kText, lo + 1, hi)) = IF lo + 1 <= hi THEN hi - (lo + 1) + 1 ELSE 0
        /\ \A j \in 1 .. hi - (lo + 1) + 1 : SubSeq(kText, lo + 1, hi)[j] = kText[(lo + 1) + j - 1]
    BY <1>1, <1>2, SubSeqProperties
  <2>2. hi - (lo + 1) + 1 = hi - lo /\ lo + 1 <= hi
    BY <1>1
  <2>3. \A j \in 1 .. hi - lo : (lo + 1) + j - 1 = lo + j
    BY <1>1
  <2> QED
    BY <1>1, <2>1, <2>2, <2>3
<1>4. \A j \in Int : K!Letter(s, j) <=> j \in 1 .. hi - lo /\ K!Letter(kText, lo + j)
  <2> SUFFICES ASSUME NEW j \in Int
               PROVE  K!Letter(s, j) <=> j \in 1 .. hi - lo /\ K!Letter(kText, lo + j)
    OBVIOUS
  <2>1. j \in 1 .. hi - lo => lo + j \in 1 .. Len(kText)
    BY <1>1
  <2> QED
    BY <1>3, <2>1 DEF K!Letter
<1>5. ASSUME NEW x \in 1 .. Len(s), NEW y \in 1 .. Len(s)
      PROVE  SubSeq(s, x, y) = SubSeq(kText, lo + x, lo + y)
  <2>1. x \in 1 .. hi - lo /\ y \in 1 .. hi - lo
    BY <1>3
  <2>2. SubSeq(SubSeq(kText, lo + 1, hi), x, y) = SubSeq(kText, lo + x, lo + y)
    BY <1>1, <2>1, PartOfPart
  <2> QED
    BY <1>1, <2>2
<1> QED
  BY <1>1, <1>3, <1>4, <1>5 DEF lo, hi, s

-----------------------------------------------------------------------------
(* The pieces of words that the chunks hold, by their places in the text.  *)
Pieces(i) == {<<ChunkCut[i] + r[1], ChunkCut[i] + r[2]>> : r \in K!Runs(K!chunk(i))}
AllPieces == UNION {Pieces(i) : i \in 0 .. K!NumChunks - 1}
WordAt == [r \in (1 .. Len(kText)) \X (1 .. Len(kText)) |-> SubSeq(kText, r[1], r[2])]

(* Comparing two places of a chunk is comparing them in the text.          *)
LEMMA Shifted ==
  \A lo, a, b, hi \in Int :
    /\ lo + a <= lo + b <=> a <= b
    /\ lo + a = lo + b <=> a = b
    /\ 1 <= a /\ a <= hi - lo => lo + a \in lo + 1 .. hi
    /\ 1 <= a /\ a <= hi - lo /\ lo >= 0 => lo + a \in 1 .. hi
  OBVIOUS

(* A run of a chunk, moved to its place in the text, ends at a letter that *)
(* none follows, or where the chunk ends; it begins alike.                 *)
LEMMA PieceOfRun ==
  ASSUME kText \in Seq(Alphabet), K!chunk_size # 0, NEW i \in 0 .. K!NumChunks - 1,
         NEW r \in K!Runs(K!chunk(i))
  PROVE  /\ <<ChunkCut[i] + r[1], ChunkCut[i] + r[2]>> \in Pieces(i)
         /\ ChunkCut[i] + r[1] \in Slice(ChunkCut, i) /\ ChunkCut[i] + r[2] \in Slice(ChunkCut, i)
         /\ ChunkCut[i] + r[1] <= ChunkCut[i] + r[2]
         /\ \A j \in ChunkCut[i] + r[1] .. ChunkCut[i] + r[2] : K!Letter(kText, j)
         /\ ChunkCut[i] + r[1] = ChunkCut[i] + 1 \/ ~K!Letter(kText, (ChunkCut[i] + r[1]) - 1)
         /\ ChunkCut[i] + r[2] = ChunkCut[i + 1] \/ ~K!Letter(kText, ChunkCut[i] + r[2] + 1)
<1> DEFINE lo == ChunkCut[i]
           hi == ChunkCut[i + 1]
           s == K!chunk(i)
<1>1. /\ Len(s) = hi - lo /\ lo \in Nat /\ hi \in Nat /\ lo < hi
      /\ \A j \in Int : K!Letter(s, j) <=> j \in 1 .. hi - lo /\ K!Letter(kText, lo + j)
  BY ChunkLetters
<1>0. lo \in Nat /\ hi \in Nat /\ lo < hi
  BY <1>1
<1>2. /\ r[1] \in 1 .. hi - lo /\ r[2] \in 1 .. hi - lo /\ r[1] <= r[2] /\ r = <<r[1], r[2]>>
      /\ \A j \in r[1] .. r[2] : K!Letter(s, j)
      /\ ~K!Letter(s, r[1] - 1) /\ ~K!Letter(s, r[2] + 1)
  BY <1>1 DEF K!Runs
<1>3. <<lo + r[1], lo + r[2]>> \in Pieces(i)
  BY DEF Pieces
<1> HIDE DEF lo, hi, s
<1>4. \A j \in lo + r[1] .. lo + r[2] : K!Letter(kText, j)
  <2> SUFFICES ASSUME NEW j \in lo + r[1] .. lo + r[2] PROVE K!Letter(kText, j)
    OBVIOUS
  <2>1. j - lo \in r[1] .. r[2] /\ lo + (j - lo) = j /\ j - lo \in Int
    BY <1>1, <1>2
  <2>2. K!Letter(s, j - lo)
    BY <1>2, <2>1
  <2> QED
    BY <1>1, <2>1, <2>2
<1>r. /\ r[1] \in Int /\ r[2] \in Int /\ 1 <= r[1] /\ r[1] <= hi - lo
      /\ 1 <= r[2] /\ r[2] <= hi - lo /\ r[1] <= r[2]
  BY <1>0, <1>2
<1>5. lo + r[1] = lo + 1 \/ ~K!Letter(kText, (lo + r[1]) - 1)
  <2> SUFFICES ASSUME r[1] # 1 PROVE ~K!Letter(kText, (lo + r[1]) - 1)
    BY <1>0, <1>r
  <2>1. r[1] - 1 \in 1 .. hi - lo /\ lo + (r[1] - 1) = (lo + r[1]) - 1 /\ r[1] - 1 \in Int
    BY <1>0, <1>r
  <2> QED
    BY <1>1, <1>2, <2>1
<1>6. lo + r[2] = hi \/ ~K!Letter(kText, lo + r[2] + 1)
  <2> SUFFICES ASSUME lo + r[2] # hi PROVE ~K!Letter(kText, lo + r[2] + 1)
    OBVIOUS
  <2>1. r[2] + 1 \in 1 .. hi - lo /\ lo + (r[2] + 1) = lo + r[2] + 1 /\ r[2] + 1 \in Int
    BY <1>0, <1>r
  <2> QED
    BY <1>1, <1>2, <2>1
<1>7. lo + r[1] \in lo + 1 .. hi /\ lo + r[2] \in lo + 1 .. hi /\ lo + r[1] <= lo + r[2]
  <2>1. lo \in Int /\ hi \in Int
    BY <1>0
  <2> QED
    BY <2>1, <1>r, Shifted, ZenonT(30)
<1>8. lo + 1 .. hi = Slice(ChunkCut, i)
  BY DEF Slice, lo, hi
<1> QED
  BY <1>3, <1>4, <1>5, <1>6, <1>7, <1>8 DEF lo, hi

(* The pieces of one chunk: runs of letters that do not meet and leave no  *)
(* letter out, and the words findall finds in it.                          *)
LEMMA PieceFacts ==
  ASSUME kText \in Seq(Alphabet), K!chunk_size # 0, NEW i \in 0 .. K!NumChunks - 1
  PROVE  /\ IsFiniteSet(Pieces(i))
         /\ \A x \in Pieces(i) : /\ x = <<x[1], x[2]>>
                                 /\ x[1] \in Slice(ChunkCut, i) /\ x[2] \in Slice(ChunkCut, i)
                                 /\ x[1] <= x[2] /\ \A j \in x[1] .. x[2] : K!Letter(kText, j)
                                 /\ x[1] = ChunkCut[i] + 1 \/ ~K!Letter(kText, x[1] - 1)
                                 /\ x[2] = ChunkCut[i + 1] \/ ~K!Letter(kText, x[2] + 1)
         /\ \A x, y \in Pieces(i) : x[1] <= y[2] /\ y[1] <= x[2] => x = y
         /\ \A j \in Slice(ChunkCut, i) : K!Letter(kText, j) =>
              \E x \in Pieces(i) : x[1] <= j /\ j <= x[2]
         /\ BagOf(K!findall(K!chunk(i))) = BagFrom(Pieces(i), WordAt)
<1> DEFINE lo == ChunkCut[i]
           hi == ChunkCut[i + 1]
           s == K!chunk(i)
           moved == [r \in K!Runs(s) |-> <<lo + r[1], lo + r[2]>>]
<1>1. /\ Len(s) = hi - lo /\ lo \in Nat /\ hi \in Nat /\ lo < hi /\ hi <= Len(kText)
      /\ \A j \in Int : K!Letter(s, j) <=> j \in 1 .. hi - lo /\ K!Letter(kText, lo + j)
      /\ \A x, y \in 1 .. Len(s) : SubSeq(s, x, y) = SubSeq(kText, lo + x, lo + y)
  BY ChunkLetters
<1>0. lo \in Nat /\ hi \in Nat /\ lo < hi
  BY <1>1
<1>2. IsFiniteSet(K!Runs(s)) /\ Len(s) \in Nat
  <2>1. Len(s) \in Nat
    BY <1>1
  <2> QED
    BY <2>1, RunsStart
<1>3. Pieces(i) = {moved[r] : r \in K!Runs(s)}
  BY DEF Pieces
<1>4. IsFiniteSet(Pieces(i))
  <2> HIDE DEF moved
  <2> QED
    BY <1>2, <1>3, ImageFinite
<1>5. ASSUME NEW x \in Pieces(i)
      PROVE  /\ x = <<x[1], x[2]>>
             /\ x[1] \in Slice(ChunkCut, i) /\ x[2] \in Slice(ChunkCut, i)
             /\ x[1] <= x[2] /\ \A j \in x[1] .. x[2] : K!Letter(kText, j)
             /\ x[1] = lo + 1 \/ ~K!Letter(kText, x[1] - 1)
             /\ x[2] = hi \/ ~K!Letter(kText, x[2] + 1)
  <2>1. PICK r \in K!Runs(s) : x = <<lo + r[1], lo + r[2]>>
    BY <1>3
  <2>2. x[1] = lo + r[1] /\ x[2] = lo + r[2] /\ x = <<x[1], x[2]>>
    BY <2>1
  <2> QED
    <3> DEFINE a == lo + r[1]
               b == lo + r[2]
    <3>1. /\ a \in Slice(ChunkCut, i) /\ b \in Slice(ChunkCut, i) /\ a <= b
          /\ \A j \in a .. b : K!Letter(kText, j)
          /\ a = lo + 1 \/ ~K!Letter(kText, a - 1)
          /\ b = hi \/ ~K!Letter(kText, b + 1)
      BY PieceOfRun
    <3>2. x = <<a, b>> /\ x[1] = a /\ x[2] = b
      BY <2>1
    <3> HIDE DEF a, b, lo, hi
    <3> QED
      BY <3>1, <3>2, Zenon
<1>6. ASSUME NEW x \in Pieces(i), NEW y \in Pieces(i), x[1] <= y[2], y[1] <= x[2]
      PROVE  x = y
  <2>1. PICK q \in K!Runs(s) : x = <<lo + q[1], lo + q[2]>>
    BY <1>3
  <2>2. PICK r \in K!Runs(s) : y = <<lo + r[1], lo + r[2]>>
    BY <1>3
  <2>3. q[1] \in Int /\ q[2] \in Int /\ r[1] \in Int /\ r[2] \in Int /\ lo \in Int
    BY <1>0 DEF K!Runs
  <2>4. lo + q[1] <= lo + r[2] /\ lo + r[1] <= lo + q[2]
    BY <1>6, <2>1, <2>2
  <2>5. q[1] <= r[2] /\ r[1] <= q[2]
    <3> HIDE DEF lo, s
    <3> QED
      BY <2>3, <2>4, Shifted, ZenonT(30)
  <2>6. q = r
    BY <1>2, <2>5, RunsApart
  <2> QED
    BY <2>1, <2>2, <2>6
<1>7. ASSUME NEW j \in Slice(ChunkCut, i), K!Letter(kText, j)
      PROVE  \E x \in Pieces(i) : x[1] <= j /\ j <= x[2]
  <2>1. j - lo \in 1 .. hi - lo /\ lo + (j - lo) = j /\ j - lo \in Int /\ j \in Int
    BY <1>1 DEF Slice
  <2>2. K!Letter(s, j - lo)
    BY <1>1, <1>7, <2>1
  <2>3. PICK r \in K!Runs(s) : r[1] <= j - lo /\ j - lo <= r[2]
    BY <1>2, <2>2, RunsCover
  <2>4. r[1] \in Int /\ r[2] \in Int
    BY DEF K!Runs
  <2>5. lo + r[1] <= j /\ j <= lo + r[2]
    <3> HIDE DEF lo
    <3> QED
      BY <1>0, <2>1, <2>3, <2>4
  <2>6. <<lo + r[1], lo + r[2]>> \in Pieces(i)
    BY DEF Pieces
  <2> QED
    BY <2>5, <2>6
<1>8. BagOf(K!findall(s)) = BagFrom(Pieces(i), WordAt)
  <2> DEFINE n == Cardinality(K!Runs(s))
  <2>1. PICK run :
           /\ K!findall(s) = [k \in 1 .. n |-> SubSeq(s, run[k][1], run[k][2])]
           /\ \A k \in 1 .. n : run[k] \in K!Runs(s)
           /\ \A k, m \in 1 .. n : run[k] = run[m] => k = m
           /\ \A r \in K!Runs(s) : \E k \in 1 .. n : run[k] = r
    BY <1>2, FindallIs
  <2>2. n \in Nat /\ IsFiniteSet(1 .. n)
    BY <1>2, FS_CardinalityType, FS_Interval
  <2> DEFINE f == [k \in 1 .. n |-> <<lo + run[k][1], lo + run[k][2]>>]
  <2> HIDE DEF n
  <2>3. ASSUME NEW k \in 1 .. n
        PROVE  f[k] \in Pieces(i) /\ K!findall(s)[k] = WordAt[f[k]]
    <3>1. run[k] \in K!Runs(s) /\ f[k] = <<lo + run[k][1], lo + run[k][2]>>
      BY <2>1
    <3>2. f[k] \in Pieces(i)
      BY <3>1 DEF Pieces
    <3>3. run[k][1] \in 1 .. Len(s) /\ run[k][2] \in 1 .. Len(s)
      BY <3>1 DEF K!Runs
    <3>4. K!findall(s)[k] = SubSeq(kText, lo + run[k][1], lo + run[k][2])
      BY <1>1, <2>1, <3>3
    <3>5. lo + run[k][1] \in 1 .. Len(kText) /\ lo + run[k][2] \in 1 .. Len(kText)
      <4>1. PICK L \in Nat : L = Len(kText) /\ hi <= L
        BY <1>1
      <4>2. /\ run[k][1] \in Int /\ run[k][2] \in Int /\ 1 <= run[k][1] /\ run[k][1] <= hi - lo
            /\ 1 <= run[k][2] /\ run[k][2] <= hi - lo
        BY <1>1, <3>3
      <4>3. lo + run[k][1] \in 1 .. L /\ lo + run[k][2] \in 1 .. L
        <5>1. lo \in Int /\ hi \in Int /\ lo >= 0
          BY <1>0
        <5> HIDE DEF lo, hi, s
        <5>2. lo + run[k][1] \in 1 .. hi /\ lo + run[k][2] \in 1 .. hi
          BY <5>1, <4>2, Shifted, ZenonT(30)
        <5> QED
          BY <4>1, <5>1, <5>2
      <4> QED
        BY <4>1, <4>3
    <3>6. WordAt[<<lo + run[k][1], lo + run[k][2]>>] = SubSeq(kText, lo + run[k][1], lo + run[k][2])
      BY <3>5 DEF WordAt
    <3> QED
      BY <3>1, <3>2, <3>4, <3>6
  <2>4. \A k, m \in 1 .. n : f[k] = f[m] => k = m
    <3> SUFFICES ASSUME NEW k \in 1 .. n, NEW m \in 1 .. n, f[k] = f[m] PROVE k = m
      OBVIOUS
    <3>1. /\ f[k] = <<lo + run[k][1], lo + run[k][2]>> /\ run[k] \in K!Runs(s)
          /\ f[m] = <<lo + run[m][1], lo + run[m][2]>> /\ run[m] \in K!Runs(s)
      BY <2>1
    <3>2. lo + run[k][1] = lo + run[m][1]
      BY <3>1
    <3>3. run[k][1] \in Int /\ run[m][1] \in Int
      BY <3>1 DEF K!Runs
    <3>4. run[k][1] = run[m][1]
      BY <1>1, <3>2, <3>3
    <3>5. run[k] = run[m]
      BY <1>2, <3>1, <3>4, RunsStart
    <3> QED
      BY <2>1, <3>5
  <2>5. \A z \in Pieces(i) : \E k \in 1 .. n : f[k] = z
    <3> SUFFICES ASSUME NEW z \in Pieces(i) PROVE \E k \in 1 .. n : f[k] = z
      OBVIOUS
    <3>1. PICK r \in K!Runs(s) : z = <<lo + r[1], lo + r[2]>>
      BY <1>3
    <3>2. PICK k \in 1 .. n : run[k] = r
      BY <2>1
    <3> QED
      BY <3>1, <3>2
  <2>6. DOMAIN K!findall(s) = 1 .. n
    BY <2>1
  <2>7. BagFrom(1 .. n, K!findall(s)) = BagFrom(Pieces(i), WordAt)
    <3>1. \A k \in 1 .. n : f[k] \in Pieces(i) /\ K!findall(s)[k] = WordAt[f[k]]
      BY <2>3
    <3> DEFINE A == 1 .. n
               la == K!findall(s)
               Y == Pieces(i)
    <3>2. /\ IsFiniteSet(A)
          /\ \A x \in A : f[x] \in Y /\ la[x] = WordAt[f[x]]
          /\ \A x, y \in A : f[x] = f[y] => x = y
          /\ \A z \in Y : \E x \in A : f[x] = z
      BY <2>2, <2>4, <2>5, <3>1
    <3> HIDE DEF A, la, Y, f
    <3>3. BagFrom(A, la) = BagFrom(Y, WordAt)
      BY <3>2, BagMoves
    <3> QED
      BY <3>3 DEF A, la, Y
  <2> QED
    BY <2>6, <2>7, BagOfIs
<1> QED
  BY <1>4, <1>5, <1>6, <1>7, <1>8

(* The pieces of all chunks do not meet and leave no letter out either.    *)
LEMMA AllPiecesFacts ==
  ASSUME kText \in Seq(Alphabet), K!chunk_size # 0
  PROVE  /\ IsFiniteSet(AllPieces)
         /\ \A x \in AllPieces :
              /\ x = <<x[1], x[2]>> /\ x[1] \in 1 .. Len(kText) /\ x[2] \in 1 .. Len(kText)
              /\ x[1] <= x[2] /\ \A j \in x[1] .. x[2] : K!Letter(kText, j)
         /\ \A x, y \in AllPieces : x[1] <= y[2] /\ y[1] <= x[2] => x = y
         /\ \A i, j \in 0 .. K!NumChunks - 1 : i # j => Pieces(i) \cap Pieces(j) = {}
         /\ \A j : K!Letter(kText, j) => \E x \in AllPieces : x[1] <= j /\ j <= x[2]
<1> DEFINE n == K!NumChunks
           c == ChunkCut
<1>1. n \in Nat /\ IsCut(c, n) /\ c[n] = Len(kText)
  BY ChunkCuts
<1>2. ASSUME NEW i \in 0 .. n - 1
      PROVE  /\ IsFiniteSet(Pieces(i))
             /\ \A x \in Pieces(i) : /\ x = <<x[1], x[2]>>
                                     /\ x[1] \in Slice(c, i) /\ x[2] \in Slice(c, i)
                                     /\ x[1] <= x[2] /\ \A j \in x[1] .. x[2] : K!Letter(kText, j)
             /\ \A x, y \in Pieces(i) : x[1] <= y[2] /\ y[1] <= x[2] => x = y
             /\ \A j \in Slice(c, i) : K!Letter(kText, j) => \E x \in Pieces(i) : x[1] <= j /\ j <= x[2]
  BY PieceFacts
<1>3. /\ \A i, j \in 0 .. n - 1 : i # j => Slice(c, i) \cap Slice(c, j) = {}
      /\ UNION {Slice(c, i) : i \in 0 .. n - 1} = 1 .. Len(kText)
  <2> HIDE DEF n, c
  <2>1. UNION {Slice(c, i) : i \in 0 .. n - 1} = 1 .. c[n]
    BY <1>1, SlicesMeet
  <2>2. \A i, j \in 0 .. n - 1 : i # j => Slice(c, i) \cap Slice(c, j) = {}
    BY <1>1, SlicesMeet
  <2> QED
    BY <1>1, <2>1, <2>2
<1>4. IsFiniteSet(AllPieces)
  <2> DEFINE D == 0 .. n - 1
             f == [i \in D |-> Pieces(i)]
  <2>1. IsFiniteSet(D)
    BY <1>1, FS_Interval
  <2>2. AllPieces = UNION {f[i] : i \in D} /\ \A i \in D : f[i] = Pieces(i)
    BY DEF AllPieces
  <2> HIDE DEF f, D
  <2>3. IsFiniteSet({f[i] : i \in D})
    BY <2>1, ImageFinite
  <2>4. \A X \in {f[i] : i \in D} : IsFiniteSet(X)
    BY <1>2, <2>2 DEF D
  <2> QED
    BY <2>2, <2>3, <2>4, FS_UNION
<1>5. ASSUME NEW i \in 0 .. n - 1 PROVE Slice(c, i) \in SUBSET (1 .. Len(kText))
  <2> HIDE DEF n, c
  <2> QED
    BY <1>3
<1>6. ASSUME NEW x \in AllPieces
      PROVE  /\ x = <<x[1], x[2]>> /\ x[1] \in 1 .. Len(kText) /\ x[2] \in 1 .. Len(kText)
             /\ x[1] <= x[2] /\ \A j \in x[1] .. x[2] : K!Letter(kText, j)
  <2>1. PICK i \in 0 .. n - 1 : x \in Pieces(i)
    BY DEF AllPieces
  <2> HIDE DEF n, c
  <2> QED
    BY <1>2, <1>5, <2>1
<1>7. ASSUME NEW x \in AllPieces, NEW y \in AllPieces, x[1] <= y[2], y[1] <= x[2]
      PROVE  x = y
  <2>1. PICK i \in 0 .. n - 1 : x \in Pieces(i)
    BY DEF AllPieces
  <2>2. PICK j \in 0 .. n - 1 : y \in Pieces(j)
    BY DEF AllPieces
  <2>3. x[1] \in Slice(c, i) /\ x[2] \in Slice(c, i) /\ y[1] \in Slice(c, j) /\ y[2] \in Slice(c, j)
    BY <1>2, <2>1, <2>2
  <2>4. /\ x[1] \in 1 .. Len(kText) /\ x[2] \in 1 .. Len(kText)
        /\ y[1] \in 1 .. Len(kText) /\ y[2] \in 1 .. Len(kText) /\ x[1] <= x[2] /\ y[1] <= y[2]
    BY <1>6
  <2>5. i = j
    <3>1. /\ \A k \in 0 .. n : c[k] \in Nat
          /\ i + 1 \in 0 .. n /\ j + 1 \in 0 .. n /\ i \in 0 .. n /\ j \in 0 .. n
          /\ i \in Int /\ j \in Int
      BY <1>1 DEF IsCut
    <3>2. /\ c[i] \in Nat /\ c[j] \in Nat /\ c[i + 1] \in Nat /\ c[j + 1] \in Nat
      BY <3>1
    <3>3. c[i] + 1 <= x[1] /\ x[2] <= c[i + 1] /\ c[j] + 1 <= y[1] /\ y[2] <= c[j + 1]
      BY <2>3, <3>2 DEF Slice
    <3>4. x[1] \in Nat /\ x[2] \in Nat /\ y[1] \in Nat /\ y[2] \in Nat
      BY <2>4
    <3>5. ASSUME i < j PROVE FALSE
      <4> HIDE DEF c, n
      <4>1. j \in i + 1 .. n
        BY <1>1, <3>1, <3>5
      <4>2. c[i + 1] <= c[j]
        BY <1>1, <3>1, <4>1, CutGrows
      <4>3. x[2] <= c[i + 1] /\ c[i + 1] <= c[j] /\ c[j] < y[1] /\ y[1] <= x[2]
        BY <1>7, <3>2, <3>3, <3>4, <4>2
      <4> QED
        BY <3>2, <3>4, <4>3
    <3>6. ASSUME j < i PROVE FALSE
      <4> HIDE DEF c, n
      <4>1. i \in j + 1 .. n
        BY <1>1, <3>1, <3>6
      <4>2. c[j + 1] <= c[i]
        BY <1>1, <3>1, <4>1, CutGrows
      <4>3. y[2] <= c[j + 1] /\ c[j + 1] <= c[i] /\ c[i] < x[1] /\ x[1] <= y[2]
        BY <1>7, <3>2, <3>3, <3>4, <4>2
      <4> QED
        BY <3>2, <3>4, <4>3
    <3> HIDE DEF c, n
    <3> QED
      BY <3>1, <3>5, <3>6
  <2> QED
    BY <1>2, <1>7, <2>1, <2>2, <2>5
<1>8. ASSUME NEW i \in 0 .. n - 1, NEW j \in 0 .. n - 1, i # j PROVE Pieces(i) \cap Pieces(j) = {}
  <2> SUFFICES ASSUME NEW x \in Pieces(i), x \in Pieces(j) PROVE FALSE
    OBVIOUS
  <2>1. x[1] \in Slice(c, i) /\ x[1] \in Slice(c, j)
    BY <1>2
  <2> HIDE DEF n, c
  <2> QED
    BY <1>3, <1>8, <2>1
<1>9. ASSUME NEW j, K!Letter(kText, j) PROVE \E x \in AllPieces : x[1] <= j /\ j <= x[2]
  <2>1. j \in 1 .. Len(kText)
    BY <1>9 DEF K!Letter
  <2>2. PICK i \in 0 .. n - 1 : j \in Slice(c, i)
    <3> HIDE DEF n, c
    <3> QED
      BY <1>3, <2>1
  <2>3. PICK x \in Pieces(i) : x[1] <= j /\ j <= x[2]
    BY <1>2, <1>9, <2>2
  <2> QED
    BY <2>3 DEF AllPieces
<1> QED
  BY <1>4, <1>6, <1>7, <1>8, <1>9

(* Where a chunk ends in the middle of a word: the last letter before a cut. *)
LEMMA CutsAre ==
  ASSUME kText \in Seq(Alphabet), K!chunk_size # 0, NEW j \in Nat
  PROVE  j \in K!Cuts <=> /\ K!Letter(kText, j) /\ K!Letter(kText, j + 1)
                          /\ \E i \in 0 .. K!NumChunks - 1 : j = ChunkCut[i]
<1> DEFINE c == K!chunk_size
           n == K!NumChunks
<1>1. /\ c \in Nat \ {0} /\ n \in Nat /\ IsCut(ChunkCut, n) /\ ChunkCut[n] = Len(kText)
      /\ Len(kText) \in Nat
      /\ \A i \in 0 .. n - 1 : /\ ChunkCut[i] = i * c /\ ChunkCut[i] < ChunkCut[i + 1]
                               /\ ChunkCut[i + 1] <= i * c + c
  BY ChunkCuts
<1>2. j \in K!Cuts <=> /\ j \in 1 .. Len(kText) - 1 /\ j % c = 0
                       /\ K!Letter(kText, j) /\ K!Letter(kText, j + 1)
  BY DEF K!Cuts
<1>3. K!Letter(kText, j) /\ K!Letter(kText, j + 1) => j \in 1 .. Len(kText) - 1
  BY <1>1 DEF K!Letter
<1>4. ASSUME NEW i \in 0 .. n - 1, j = ChunkCut[i] PROVE j % c = 0
  <2>1. j = i * c /\ i \in Nat /\ c \in Nat \ {0}
    BY <1>1, <1>4
  <2> HIDE DEF c
  <2>2. j = c * i
    BY <2>1
  <2> QED
    BY <2>1, <2>2, Divides
<1>5. ASSUME j \in 1 .. Len(kText) - 1, j % c = 0
      PROVE  \E i \in 0 .. n - 1 : j = ChunkCut[i]
  <2>1. PICK e \in Nat : j = c * e
    <3> HIDE DEF c
    <3> QED
      BY <1>1, <1>5, Divides
  <2>2. PICK L \in Nat : L = Len(kText) /\ j + 1 \in 1 .. L
    BY <1>1, <1>5
  <2>3. UNION {Slice(ChunkCut, i) : i \in 0 .. n - 1} = 1 .. L
    <3> HIDE DEF n
    <3> QED
      BY <1>1, <2>2, SlicesMeet
  <2>4. PICK i \in 0 .. n - 1 : j + 1 \in Slice(ChunkCut, i)
    BY <2>2, <2>3
  <2>5. /\ ChunkCut[i] = i * c /\ ChunkCut[i + 1] <= i * c + c /\ ChunkCut[i + 1] \in Nat
        /\ i \in Nat /\ ChunkCut[i] \in Nat
    <3>1. i + 1 \in 0 .. n /\ i \in 0 .. n /\ i \in Nat
      BY <1>1
    <3> QED
      BY <1>1, <3>1 DEF IsCut
  <2>6. i * c <= j /\ j < i * c + c
    <3>1. ChunkCut[i] + 1 <= j + 1 /\ j + 1 <= ChunkCut[i + 1]
      BY <2>4, <2>5 DEF Slice
    <3>2. i * c \in Nat
      BY <2>5
    <3> HIDE DEF c
    <3> QED
      BY <1>1, <2>5, <3>1, <3>2
  <2>7. i = e
    <3> HIDE DEF c, n
    <3>1. j = e * c
      BY <1>1, <2>1
    <3>2. ASSUME i + 1 <= e PROVE FALSE
      <4>1. (i + 1) * c = i * c + c /\ (i + 1) * c <= e * c /\ (i + 1) * c \in Nat /\ i * c \in Nat
        <5>1. i + 1 \in Nat /\ e \in Nat /\ c \in Nat /\ i \in Nat
          BY <1>1, <2>5
        <5> QED
          BY <3>2, <5>1, Products, Zenon
      <4> QED
        BY <1>1, <2>6, <3>1, <4>1
    <3>3. ASSUME e + 1 <= i PROVE FALSE
      <4>1. (e + 1) * c = e * c + c /\ (e + 1) * c <= i * c /\ (e + 1) * c \in Nat /\ e * c \in Nat
        <5>1. e + 1 \in Nat /\ e \in Nat /\ c \in Nat /\ i \in Nat
          BY <1>1, <2>5
        <5> QED
          BY <3>3, <5>1, Products, Zenon
      <4> QED
        BY <1>1, <2>6, <3>1, <4>1
    <3> QED
      BY <2>5, <3>2, <3>3
  <2>8. j = ChunkCut[i]
    <3> HIDE DEF c, n
    <3> QED
      BY <1>1, <2>1, <2>5, <2>7
  <2> QED
    BY <2>8
<1> QED
  BY <1>2, <1>3, <1>4, <1>5

(* A piece begins where a word of the text does, or where one is cut.      *)
LEMMA PiecesBegin ==
  ASSUME kText \in Seq(Alphabet), K!chunk_size # 0
  PROVE  /\ \A x \in AllPieces : x[1] \in Starts(kText) \/ x[1] - 1 \in K!Cuts
         /\ \A z \in Starts(kText) : \E x \in AllPieces : x[1] = z
         /\ \A z \in Nat : z - 1 \in K!Cuts => \E x \in AllPieces : x[1] = z
<1> DEFINE n == K!NumChunks
<1>1. ASSUME NEW x \in AllPieces PROVE x[1] \in Starts(kText) \/ x[1] - 1 \in K!Cuts
  <2>1. PICK i \in 0 .. n - 1 : x \in Pieces(i)
    BY DEF AllPieces
  <2>2. /\ x[1] \in 1 .. Len(kText) /\ x[2] \in 1 .. Len(kText) /\ x[1] <= x[2]
        /\ \A j \in x[1] .. x[2] : K!Letter(kText, j)
    BY AllPiecesFacts
  <2>3. K!Letter(kText, x[1])
    BY <2>2
  <2>4. x[1] = ChunkCut[i] + 1 \/ ~K!Letter(kText, x[1] - 1)
    BY <2>1, PieceFacts
  <2>5. CASE ~K!Letter(kText, x[1] - 1)
    BY <2>2, <2>3, <2>5 DEF Starts
  <2>6. CASE x[1] = ChunkCut[i] + 1 /\ K!Letter(kText, x[1] - 1)
    <3>1. ChunkCut[i] \in Nat
      BY ChunkLetters
    <3>2. x[1] - 1 \in Nat /\ x[1] - 1 = ChunkCut[i] /\ (x[1] - 1) + 1 = x[1]
      BY <2>6, <3>1
    <3> QED
      BY <2>3, <2>6, <3>2, CutsAre
  <2> QED
    BY <2>4, <2>5, <2>6
<1>2. ASSUME NEW z \in Starts(kText) PROVE \E x \in AllPieces : x[1] = z
  <2>1. z \in Nat /\ K!Letter(kText, z) /\ ~K!Letter(kText, z - 1)
    BY DEF Starts
  <2>2. PICK x \in AllPieces : x[1] <= z /\ z <= x[2]
    BY <2>1, AllPiecesFacts
  <2>3. x[1] \in Nat /\ x[2] \in Nat /\ \A j \in x[1] .. x[2] : K!Letter(kText, j)
    BY AllPiecesFacts
  <2>4. x[1] = z
    <3> SUFFICES ASSUME x[1] < z PROVE FALSE
      BY <2>1, <2>2, <2>3
    <3>1. z - 1 \in x[1] .. x[2]
      BY <2>1, <2>2, <2>3
    <3> QED
      BY <2>1, <2>3, <3>1
  <2> QED
    BY <2>4
<1>3. ASSUME NEW z \in Nat, z - 1 \in K!Cuts PROVE \E x \in AllPieces : x[1] = z
  <2>1. z - 1 \in Nat
    BY <1>3 DEF K!Cuts
  <2>2. K!Letter(kText, (z - 1) + 1) /\ \E i \in 0 .. n - 1 : z - 1 = ChunkCut[i]
    BY <1>3, <2>1, CutsAre
  <2>3. PICK i \in 0 .. n - 1 : z - 1 = ChunkCut[i]
    BY <2>2
  <2>4. z = ChunkCut[i] + 1 /\ K!Letter(kText, z) /\ ChunkCut[i] \in Nat
    BY <2>1, <2>2, <2>3
  <2>5. z \in Slice(ChunkCut, i)
    <3>1. ChunkCut[i + 1] \in Nat /\ ChunkCut[i] < ChunkCut[i + 1]
      BY ChunkLetters
    <3> QED
      BY <2>4, <3>1 DEF Slice
  <2>6. PICK x \in Pieces(i) : x[1] <= z /\ z <= x[2]
    BY <2>4, <2>5, PieceFacts
  <2>7. x[1] \in Slice(ChunkCut, i)
    BY PieceFacts
  <2>8. x[1] = z
    <3>1. ChunkCut[i + 1] \in Nat
      BY ChunkLetters
    <3>2. x[1] \in Nat /\ ChunkCut[i] + 1 <= x[1]
      BY <2>4, <2>7, <3>1 DEF Slice
    <3> QED
      BY <2>4, <2>6, <3>2
  <2> QED
    BY <2>8 DEF AllPieces
<1> QED
  BY <1>1, <1>2, <1>3

(* So there is a piece for every word and one more for every cut.          *)
LEMMA PiecesCounted ==
  ASSUME kText \in Seq(Alphabet), K!chunk_size # 0
  PROVE  /\ IsFiniteSet(K!Cuts) /\ Cardinality(K!Cuts) \in Nat
         /\ Cardinality(K!Runs(kText)) \in Nat
         /\ Cardinality(AllPieces) = Cardinality(K!Runs(kText)) + Cardinality(K!Cuts)
<1> DEFINE After == {j + 1 : j \in K!Cuts}
<1>0. Len(kText) \in Nat
  OBVIOUS
<1>1. IsFiniteSet(K!Cuts) /\ K!Cuts \in SUBSET Nat
  <2>1. IsFiniteSet(1 .. Len(kText) - 1)
    BY <1>0, FS_Interval
  <2>2. K!Cuts \in SUBSET (1 .. Len(kText) - 1)
    BY DEF K!Cuts
  <2>3. IsFiniteSet(K!Cuts)
    BY <2>1, <2>2, FS_Subset
  <2>4. K!Cuts \in SUBSET Nat
    BY <1>0 DEF K!Cuts
  <2> QED
    BY <2>3, <2>4
<1>2. IsFiniteSet(After) /\ Cardinality(K!Cuts) = Cardinality(After)
  <2> DEFINE f == [j \in K!Cuts |-> j + 1]
  <2>1. /\ \A j \in K!Cuts : f[j] \in After
        /\ \A j, k \in K!Cuts : f[j] = f[k] => j = k
        /\ \A z \in After : \E j \in K!Cuts : f[j] = z
    BY <1>1
  <2> HIDE DEF f, After
  <2> QED
    BY <1>1, <2>1, SameSize
<1>3. IsFiniteSet(Starts(kText)) /\ Cardinality(K!Runs(kText)) = Cardinality(Starts(kText))
  <2> DEFINE f == [r \in K!Runs(kText) |-> r[1]]
             R == K!Runs(kText)
  <2>1. /\ IsFiniteSet(R)
        /\ \A r \in R : f[r] \in Starts(kText)
        /\ \A q, r \in R : f[q] = f[r] => q = r
        /\ \A z \in Starts(kText) : \E r \in R : f[r] = z
    BY <1>0, RunsStart
  <2> HIDE DEF f, R
  <2>2. IsFiniteSet(Starts(kText)) /\ Cardinality(R) = Cardinality(Starts(kText))
    BY <2>1, SameSize
  <2> QED
    BY <2>2 DEF R
<1>4. Starts(kText) \cap After = {}
  <2> SUFFICES ASSUME NEW j \in K!Cuts, j + 1 \in Starts(kText) PROVE FALSE
    BY Zenon
  <2>1. j \in Nat /\ (j + 1) - 1 = j
    BY <1>1
  <2>2. K!Letter(kText, j)
    BY DEF K!Cuts
  <2> QED
    BY <2>1, <2>2 DEF Starts
<1>5. Cardinality(AllPieces) = Cardinality(Starts(kText) \cup After)
  <2> DEFINE f == [x \in AllPieces |-> x[1]]
             Q == Starts(kText) \cup After
  <2>0. \A x \in AllPieces : x[1] \in Nat /\ x[2] \in Nat /\ x[1] <= x[2]
    BY AllPiecesFacts
  <2>1. \A x \in AllPieces : f[x] \in Q
    <3> SUFFICES ASSUME NEW x \in AllPieces PROVE x[1] \in Q
      OBVIOUS
    <3>1. x[1] \in Nat /\ (x[1] - 1) + 1 = x[1]
      BY <2>0
    <3>2. x[1] \in Starts(kText) \/ x[1] - 1 \in K!Cuts
      BY PiecesBegin
    <3> QED
      BY <3>1, <3>2
  <2>2. \A x, y \in AllPieces : f[x] = f[y] => x = y
    <3> SUFFICES ASSUME NEW x \in AllPieces, NEW y \in AllPieces, x[1] = y[1] PROVE x = y
      OBVIOUS
    <3>1. x[1] <= y[2] /\ y[1] <= x[2]
      BY <2>0
    <3> QED
      BY <3>1, AllPiecesFacts
  <2>3. \A z \in Q : \E x \in AllPieces : f[x] = z
    <3> SUFFICES ASSUME NEW z \in Q PROVE \E x \in AllPieces : x[1] = z
      OBVIOUS
    <3>1. CASE z \in Starts(kText)
      BY <3>1, PiecesBegin, Zenon
    <3>2. CASE z \in After
      <4>1. PICK j \in K!Cuts : z = j + 1
        BY <3>2
      <4>2. z \in Nat /\ z - 1 = j
        BY <1>1, <4>1
      <4> QED
        BY <4>2, PiecesBegin
    <3> QED
      BY <3>1, <3>2
  <2>4. IsFiniteSet(AllPieces)
    BY AllPiecesFacts
  <2> HIDE DEF f, Q
  <2>5. Cardinality(AllPieces) = Cardinality(Q)
    BY <2>1, <2>2, <2>3, <2>4, SameSize
  <2> QED
    BY <2>5 DEF Q
<1>6. /\ Cardinality(Starts(kText)) \in Nat /\ Cardinality(After) \in Nat
      /\ Cardinality(Starts(kText) \cup After) = Cardinality(Starts(kText)) + Cardinality(After)
  <2> HIDE DEF After
  <2> QED
    BY <1>2, <1>3, <1>4, DisjointUnion
<1> HIDE DEF After
<1> QED
  BY <1>1, <1>2, <1>3, <1>5, <1>6

(* The folds of main, as the recursive functions they stand for.           *)
LEMMA FoldNumber ==
  ASSUME NEW rs
  PROVE  K!FoldSeq(LAMBDA r, sum : sum + r, 0, rs) = (CHOOSE f : SeqSum(DOMAIN rs, rs, f))[DOMAIN rs]
BY DEF K!FoldSeq, K!FoldFunction, K!FoldFunctionOnSet, K!MapThenFoldSet, SeqSum, Pick

LEMMA FoldBags ==
  ASSUME NEW rs
  PROVE  K!FoldSeq(LAMBDA r, sum : K!(+)(sum, r), K!EmptyBag, rs)
           = (CHOOSE f : BagSum(DOMAIN rs, rs, f))[DOMAIN rs]
BY DEF K!FoldSeq, K!FoldFunction, K!FoldFunctionOnSet, K!MapThenFoldSet, BagSum, Pick

LEMMA FoldWords ==
  ASSUME NEW s
  PROVE  K!WordsOf(s) = (CHOOSE f : WordSum(DOMAIN K!findall(s), K!findall(s), f))[DOMAIN K!findall(s)]
BY DEF K!WordsOf, K!FoldSeq, K!FoldFunction, K!FoldFunctionOnSet, K!MapThenFoldSet, WordSum, Pick

(* The sums over the words of a bag.                                       *)
LetterCounts(Y) == [w \in DOMAIN Y |-> Y[w] * Len(w)]

(* The sums of the properties, as the recursive functions they stand for.  *)
LEMMA TotalSums ==
  ASSUME NEW Y
  PROVE  /\ K!MapThenSumSet(LAMBDA w : Y[w], K!BagToSet(Y))
              = (CHOOSE f : SetSum(DOMAIN Y, Y, f))[DOMAIN Y]
         /\ K!MapThenSumSet(LAMBDA w : Y[w] * Len(w), K!BagToSet(Y))
              = (CHOOSE f : SetSum(DOMAIN Y, LetterCounts(Y), f))[DOMAIN Y]
<1>1. K!MapThenSumSet(LAMBDA w : Y[w], K!BagToSet(Y))
        = (CHOOSE f : SetSum(DOMAIN Y, Y, f))[DOMAIN Y]
  BY DEF K!MapThenSumSet, K!MapThenFoldSet, K!BagToSet, Pick, SetSum
<1>2. K!MapThenSumSet(LAMBDA w : Y[w] * Len(w), K!BagToSet(Y))
        = (CHOOSE f : f = [s \in SUBSET (DOMAIN Y) |->
                            IF s = {} THEN 0 ELSE Y[Pick(s)] * Len(Pick(s)) + f[s \ {Pick(s)}]])[DOMAIN Y]
  BY DEF K!MapThenSumSet, K!MapThenFoldSet, K!BagToSet, Pick
<1>3. \A f : f = [s \in SUBSET (DOMAIN Y) |->
                   IF s = {} THEN 0 ELSE Y[Pick(s)] * Len(Pick(s)) + f[s \ {Pick(s)}]]
              <=> SetSum(DOMAIN Y, LetterCounts(Y), f)
  <2> DEFINE v == LetterCounts(Y)
  <2>1. \A s \in SUBSET (DOMAIN Y) : s # {} => v[Pick(s)] = Y[Pick(s)] * Len(Pick(s))
    BY PickIn DEF LetterCounts
  <2> HIDE DEF v
  <2> SUFFICES ASSUME NEW f
               PROVE  [s \in SUBSET (DOMAIN Y) |->
                         IF s = {} THEN 0 ELSE Y[Pick(s)] * Len(Pick(s)) + f[s \ {Pick(s)}]]
                      = [s \in SUBSET (DOMAIN Y) |->
                           IF s = {} THEN 0 ELSE v[Pick(s)] + f[s \ {Pick(s)}]]
    BY DEF SetSum, v
  <2>2. \A s \in SUBSET (DOMAIN Y) :
          (IF s = {} THEN 0 ELSE Y[Pick(s)] * Len(Pick(s)) + f[s \ {Pick(s)}])
          = (IF s = {} THEN 0 ELSE v[Pick(s)] + f[s \ {Pick(s)}])
    BY <2>1
  <2> QED
    BY <2>2, Zenon
<1> QED
  BY <1>1, <1>2, <1>3, Zenon

(* The words of the chunks' pieces.                                        *)
LEMMA PiecesBag ==
  ASSUME kText \in Seq(Alphabet), K!chunk_size # 0
  PROVE  (CHOOSE f : BagSum(1 .. K!NumChunks, [k \in 1 .. K!NumChunks |-> BagOf(K!findall(K!chunk(k - 1)))], f))
              [1 .. K!NumChunks]
         = BagFrom(AllPieces, WordAt)
<1> DEFINE n == K!NumChunks
           D == 1 .. n
           bag == [k \in D |-> BagOf(K!findall(K!chunk(k - 1)))]
           P == [k \in D |-> Pieces(k - 1)]
<1>1. n \in Nat /\ IsFiniteSet(D)
  BY ChunkCuts, FS_Interval
<1>2. \A k \in D : k - 1 \in 0 .. n - 1
  <2> HIDE DEF n
  <2> QED
    BY <1>1
<1>3. \A k \in D : IsFiniteSet(P[k]) /\ bag[k] = BagFrom(P[k], WordAt)
  BY <1>2, PieceFacts
<1>4. \A k, m \in D : k # m => P[k] \cap P[m] = {}
  <2> SUFFICES ASSUME NEW k \in D, NEW m \in D, k # m PROVE Pieces(k - 1) \cap Pieces(m - 1) = {}
    OBVIOUS
  <2>1. k - 1 # m - 1
    BY <1>1
  <2> QED
    BY <1>2, <2>1, AllPiecesFacts
<1>5. Whole(P, D) = AllPieces
  <2>1. Whole(P, D) \subseteq AllPieces
    BY <1>2 DEF Whole, AllPieces
  <2>2. ASSUME NEW x \in AllPieces PROVE x \in Whole(P, D)
    <3>1. PICK i \in 0 .. n - 1 : x \in Pieces(i)
      BY DEF AllPieces
    <3>2. i + 1 \in D /\ (i + 1) - 1 = i
      BY <1>1
    <3>3. P[i + 1] = Pieces(i)
      BY <3>2
    <3> HIDE DEF P, D
    <3> QED
      BY <3>1, <3>2, <3>3 DEF Whole
  <2> QED
    BY <2>1, <2>2
<1> HIDE DEF D, bag, P
<1>6. (CHOOSE f : BagSum(D, bag, f))[D] = BagFrom(Whole(P, D), WordAt)
  BY <1>1, <1>3, <1>4, BagSumIs
<1> QED
  BY <1>5, <1>6 DEF D, bag

(* When no word is cut, the pieces are the words of the text.              *)
LEMMA UncutPieces ==
  ASSUME kText \in Seq(Alphabet), K!chunk_size # 0, K!Cuts = {}
  PROVE  AllPieces = K!Runs(kText)
<1> DEFINE n == K!NumChunks
<1>1. PICK L \in Nat : L = Len(kText)
  OBVIOUS
<1>2. ASSUME NEW x \in AllPieces PROVE x \in K!Runs(kText)
  <2>1. PICK i \in 0 .. n - 1 : x \in Pieces(i)
    BY DEF AllPieces
  <2>2. /\ x = <<x[1], x[2]>> /\ x[1] \in 1 .. Len(kText) /\ x[2] \in 1 .. Len(kText)
        /\ x[1] <= x[2] /\ \A j \in x[1] .. x[2] : K!Letter(kText, j)
    BY AllPiecesFacts
  <2>3. /\ ChunkCut[i] \in Nat /\ ChunkCut[i + 1] \in Nat /\ x[1] \in Nat /\ x[2] \in Nat
        /\ K!Letter(kText, x[1]) /\ K!Letter(kText, x[2]) /\ n \in Nat /\ i \in Nat
        /\ ChunkCut[n] = Len(kText)
    <3>1. K!Letter(kText, x[1]) /\ K!Letter(kText, x[2])
      BY <2>2
    <3>2. ChunkCut[i] \in Nat /\ ChunkCut[i + 1] \in Nat
      BY ChunkLetters
    <3>3. n \in Nat /\ ChunkCut[n] = Len(kText)
      BY ChunkCuts
    <3> QED
      BY <2>2, <3>1, <3>2, <3>3
  <2>4. ~K!Letter(kText, x[1] - 1)
    <3> SUFFICES ASSUME K!Letter(kText, x[1] - 1) PROVE FALSE
      OBVIOUS
    <3>1. x[1] = ChunkCut[i] + 1
      BY <2>1, PieceFacts
    <3>2. x[1] - 1 = ChunkCut[i] /\ x[1] - 1 \in Nat /\ (x[1] - 1) + 1 = x[1]
      BY <2>3, <3>1
    <3> QED
      BY <2>3, <3>2, CutsAre
  <2>5. ~K!Letter(kText, x[2] + 1)
    <3> SUFFICES ASSUME K!Letter(kText, x[2] + 1) PROVE FALSE
      OBVIOUS
    <3>1. x[2] = ChunkCut[i + 1]
      BY <2>1, PieceFacts
    <3>2. x[2] + 1 <= L
      BY <1>1, <2>3 DEF K!Letter
    <3>3. i + 1 \in 0 .. n - 1
      <4> SUFFICES ASSUME i + 1 = n PROVE FALSE
        BY <2>3
      <4>1. x[2] = L
        BY <1>1, <2>3, <3>1
      <4> QED
        BY <1>1, <3>2, <4>1
    <3> QED
      BY <2>3, <3>1, <3>3, CutsAre
  <2>6. x \in (1 .. Len(kText)) \X (1 .. Len(kText))
    BY <2>2
  <2> QED
    BY <2>2, <2>4, <2>5, <2>6 DEF K!Runs
<1>3. ASSUME NEW r \in K!Runs(kText) PROVE r \in AllPieces
  <2>1. r[1] \in Starts(kText)
    BY RunsStart
  <2>2. PICK x \in AllPieces : x[1] = r[1]
    BY <2>1, PiecesBegin
  <2>3. x = r
    BY <1>2, <2>2, RunsStart
  <2> QED
    BY <2>3
<1> QED
  BY <1>2, <1>3

(* The words of the whole text.                                            *)
LEMMA WholeWords ==
  ASSUME kText \in Seq(Alphabet)
  PROVE  K!WordsOf(kText) = BagFrom(K!Runs(kText), WordAt)
<1> DEFINE R == K!Runs(kText)
           n == Cardinality(R)
           s == K!findall(kText)
<1>1. Len(kText) \in Nat
  OBVIOUS
<1>2. PICK run :
           /\ s = [k \in 1 .. n |-> SubSeq(kText, run[k][1], run[k][2])]
           /\ \A k \in 1 .. n : run[k] \in R
           /\ \A k, m \in 1 .. n : run[k] = run[m] => k = m
           /\ \A r \in R : \E k \in 1 .. n : run[k] = r
  BY <1>1, FindallIs
<1>3. IsFiniteSet(1 .. n)
  BY <1>1, RunsStart, FS_CardinalityType, FS_Interval
<1>4. \A r \in R : WordAt[r] = SubSeq(kText, r[1], r[2])
  BY DEF K!Runs, WordAt
<1>5. DOMAIN s = 1 .. n /\ \A k \in 1 .. n : s[k] = WordAt[run[k]]
  <2> HIDE DEF n, R
  <2> QED
    BY <1>2, <1>4
<1> HIDE DEF s, n, R
<1>6. BagFrom(1 .. n, s) = BagFrom(R, WordAt)
  <2> DEFINE A == 1 .. n
  <2>1. /\ IsFiniteSet(A)
        /\ \A x \in A : run[x] \in R /\ s[x] = WordAt[run[x]]
        /\ \A x, y \in A : run[x] = run[y] => x = y
        /\ \A z \in R : \E x \in A : run[x] = z
    BY <1>2, <1>3, <1>5
  <2> HIDE DEF A
  <2>2. BagFrom(A, s) = BagFrom(R, WordAt)
    BY <2>1, BagMoves
  <2> QED
    BY <2>2 DEF A
<1>7. K!WordsOf(kText) = (CHOOSE f : WordSum(1 .. n, s, f))[1 .. n]
  BY <1>5, FoldWords DEF s
<1>8. (CHOOSE f : WordSum(1 .. n, s, f))[1 .. n] = BagFrom(1 .. n, s)
  BY <1>3, WordSumIs
<1> QED
  BY <1>6, <1>7, <1>8 DEF R

LEMMA Overlap ==
  \A a, b, k, m, l \in Int :
    1 <= k /\ k <= l /\ 1 <= m /\ m <= l /\ (a + k) - 1 = (b + m) - 1
      => a <= (b + l) - 1 /\ b <= (a + l) - 1
  OBVIOUS

(* Every letter is in one of the pieces.                                   *)
LEMMA PieceSums ==
  ASSUME kText \in Seq(Alphabet), K!chunk_size # 0
  PROVE  /\ K!MapThenSumSet(LAMBDA w : BagFrom(AllPieces, WordAt)[w], K!BagToSet(BagFrom(AllPieces, WordAt)))
              = Cardinality(AllPieces)
         /\ K!MapThenSumSet(LAMBDA w : BagFrom(AllPieces, WordAt)[w] * Len(w),
                            K!BagToSet(BagFrom(AllPieces, WordAt)))
              = Cardinality({j \in 1 .. Len(kText) : K!Letter(kText, j)})
<1> DEFINE A == AllPieces
           Y == BagFrom(A, WordAt)
           D == {WordAt[x] : x \in A}
           Of == [w \in D |-> Bearers(A, WordAt, w)]
           In(w) == {j \in 1 .. Len(kText) : \E x \in Bearers(A, WordAt, w) : x[1] <= j /\ j <= x[2]}
           P == [w \in D |-> In(w)]
<1>1. /\ IsFiniteSet(A)
      /\ \A x \in A :
           /\ x = <<x[1], x[2]>> /\ x[1] \in 1 .. Len(kText) /\ x[2] \in 1 .. Len(kText)
           /\ x[1] <= x[2] /\ \A j \in x[1] .. x[2] : K!Letter(kText, j)
      /\ \A x, y \in A : x[1] <= y[2] /\ y[1] <= x[2] => x = y
      /\ \A j : K!Letter(kText, j) => \E x \in A : x[1] <= j /\ j <= x[2]
  BY AllPiecesFacts
<1>2. DOMAIN Y = D /\ \A w \in D : Y[w] = Cardinality(Of[w])
  BY DEF BagFrom
<1> HIDE DEF A
<1>3. IsFiniteSet(D)
  BY <1>1, ImageFinite
<1>4. \A w \in D : IsFiniteSet(Of[w])
  BY <1>1, BagCopies
<1>5. /\ \A v, w \in D : v # w => Of[v] \cap Of[w] = {}
      /\ Whole(Of, D) = A
  <2>1. \A v, w \in D : v # w => Of[v] \cap Of[w] = {}
    BY DEF Bearers
  <2>2. Whole(Of, D) = A
    <3>1. Whole(Of, D) = UNION {Of[w] : w \in D} /\ \A w \in D : Of[w] = Bearers(A, WordAt, w)
      BY DEF Whole
    <3>2. \A w \in D : Bearers(A, WordAt, w) \subseteq A
      BY DEF Bearers
    <3>3. \A x \in A : WordAt[x] \in D /\ x \in Bearers(A, WordAt, WordAt[x])
      BY DEF Bearers
    <3> HIDE DEF Of, D
    <3> QED
      BY <3>1, <3>2, <3>3
  <2> QED
    BY <2>1, <2>2
<1>6. (CHOOSE f : SetSum(D, Y, f))[D] = Cardinality(A)
  <2> HIDE DEF D, Y, Of
  <2>1. (CHOOSE f : SetSum(D, Y, f))[D] = Cardinality(Whole(Of, D))
    BY <1>2, <1>3, <1>4, <1>5, SetSumIs
  <2> QED
    BY <1>5, <2>1
<1>7. ASSUME NEW w \in D
      PROVE  /\ IsFiniteSet(P[w]) /\ LetterCounts(Y)[w] = Cardinality(P[w])
  <2> DEFINE O == Bearers(A, WordAt, w)
             Q == In(w)
  <2>1. P[w] = Q /\ IsFiniteSet(O) /\ LetterCounts(Y)[w] = Cardinality(O) * Len(w)
    BY <1>2, <1>4 DEF LetterCounts
  <2>2. PICK y \in A : w = WordAt[y]
    OBVIOUS
  <2>3. PICK l \in Nat : l = Len(w)
    <3>1. WordAt[y] = SubSeq(kText, y[1], y[2])
      BY <1>1 DEF WordAt
    <3>2. y[1] \in 1 .. Len(kText) /\ y[2] \in 1 .. Len(kText)
      BY <1>1
    <3>3. \A j \in y[1] .. y[2] : kText[j] \in Alphabet
      BY <3>2
    <3>4. SubSeq(kText, y[1], y[2]) \in Seq(Alphabet)
      BY <3>2, <3>3, SubSeqProperties
    <3> QED
      BY <2>2, <3>1, <3>4
  <2>4. ASSUME NEW x \in O PROVE /\ x \in A /\ x[1] \in Nat /\ x[2] \in Nat /\ x[2] = (x[1] + l) - 1
                                 /\ x[1] >= 1
    <3>1. x \in A /\ WordAt[x] = w
      BY DEF Bearers
    <3>2. /\ x = <<x[1], x[2]>> /\ x[1] \in 1 .. Len(kText) /\ x[2] \in 1 .. Len(kText)
          /\ x[1] <= x[2]
      BY <1>1, <3>1
    <3>3. w = SubSeq(kText, x[1], x[2])
      BY <3>1, <3>2 DEF WordAt
    <3>4. \A j \in x[1] .. x[2] : kText[j] \in Alphabet
      BY <3>2
    <3>5. Len(w) = (x[2] - x[1]) + 1
      BY <3>2, <3>3, <3>4, SubSeqProperties
    <3>6. x[1] \in Nat /\ x[2] \in Nat /\ x[1] >= 1
      BY <3>2
    <3>7. l = (x[2] - x[1]) + 1
      BY <2>3, <3>5
    <3> QED
      BY <2>3, <3>1, <3>6, <3>7
  <2> DEFINE U == O \X (1 .. l)
             f == [z \in U |-> (z[1][1] + z[2]) - 1]
  <2>5. IsFiniteSet(U) /\ Cardinality(U) = Cardinality(O) * l
    <3>1. IsFiniteSet(1 .. l) /\ Cardinality(1 .. l) = l
      BY FS_Interval
    <3> HIDE DEF O
    <3> QED
      BY <2>1, <3>1, FS_Product
  <2>6. ASSUME NEW z \in U PROVE f[z] \in Q
    <3>1. PICK x \in O, k \in 1 .. l : z = <<x, k>>
      OBVIOUS
    <3>2. f[z] = (x[1] + k) - 1
      BY <3>1
    <3>3. x[1] <= f[z] /\ f[z] <= x[2] /\ f[z] \in Int
      <4>1. x[1] \in Nat /\ x[2] \in Nat /\ x[2] = (x[1] + l) - 1
        BY <2>4
      <4>2. k \in Int /\ 1 <= k /\ k <= l
        BY <2>3
      <4> QED
        BY <2>3, <3>2, <4>1, <4>2
    <3>4. f[z] \in 1 .. Len(kText)
      <4>1. x[1] \in 1 .. Len(kText) /\ x[2] \in 1 .. Len(kText)
        BY <1>1, <2>4
      <4> HIDE DEF f
      <4> QED
        BY <3>3, <4>1
    <3> HIDE DEF f, O
    <3> QED
      BY <3>3, <3>4 DEF O
  <2>7. ASSUME NEW z1 \in U, NEW z2 \in U, f[z1] = f[z2] PROVE z1 = z2
    <3>1. PICK x1 \in O, k1 \in 1 .. l : z1 = <<x1, k1>>
      OBVIOUS
    <3>2. PICK x2 \in O, k2 \in 1 .. l : z2 = <<x2, k2>>
      OBVIOUS
    <3>3. (x1[1] + k1) - 1 = (x2[1] + k2) - 1
      BY <2>7, <3>1, <3>2
    <3>4. /\ x1 \in A /\ x1[1] \in Nat /\ x1[2] \in Nat /\ x1[2] = (x1[1] + l) - 1
          /\ x2 \in A /\ x2[1] \in Nat /\ x2[2] \in Nat /\ x2[2] = (x2[1] + l) - 1
      BY <2>4
    <3>5. k1 \in Int /\ 1 <= k1 /\ k1 <= l /\ k2 \in Int /\ 1 <= k2 /\ k2 <= l
      BY <2>3
    <3>6. x1[1] <= x2[2] /\ x2[1] <= x1[2]
      <4>1. x1[1] \in Int /\ x2[1] \in Int /\ l \in Int
        BY <2>3, <3>4
      <4>2. x1[1] <= (x2[1] + l) - 1 /\ x2[1] <= (x1[1] + l) - 1
        BY <3>3, <3>5, <4>1, Overlap, ZenonT(30)
      <4> QED
        BY <3>4, <4>2
    <3>7. x1 = x2
      BY <1>1, <3>4, <3>6
    <3>8. k1 = k2
      BY <3>3, <3>4, <3>5, <3>7
    <3> QED
      BY <3>1, <3>2, <3>7, <3>8
  <2>8. ASSUME NEW j \in Q PROVE \E z \in U : f[z] = j
    <3>1. PICK x \in O : x[1] <= j /\ j <= x[2]
      OBVIOUS
    <3>2. j \in Nat
      OBVIOUS
    <3>3. x[1] \in Nat /\ x[2] \in Nat /\ x[2] = (x[1] + l) - 1
      BY <2>4
    <3>4. (j - x[1]) + 1 \in 1 .. l /\ (x[1] + ((j - x[1]) + 1)) - 1 = j
      BY <2>3, <3>1, <3>2, <3>3
    <3>5. <<x, (j - x[1]) + 1>> \in U /\ f[<<x, (j - x[1]) + 1>>] = j
      BY <3>4
    <3> QED
      BY <3>5
  <2>9. IsFiniteSet(Q) /\ Cardinality(U) = Cardinality(Q)
    <3> HIDE DEF U, Q, f
    <3> QED
      BY <2>5, <2>6, <2>7, <2>8, SameSize
  <2> HIDE DEF P, Q, O, U
  <2> QED
    BY <2>1, <2>3, <2>5, <2>9
<1>8. \A v, w \in D : v # w => P[v] \cap P[w] = {}
  <2> SUFFICES ASSUME NEW v \in D, NEW w \in D, NEW j \in In(v), j \in In(w) PROVE v = w
    OBVIOUS
  <2>1. PICK x \in Bearers(A, WordAt, v) : x[1] <= j /\ j <= x[2]
    OBVIOUS
  <2>2. PICK y \in Bearers(A, WordAt, w) : y[1] <= j /\ j <= y[2]
    OBVIOUS
  <2>3. x \in A /\ y \in A /\ WordAt[x] = v /\ WordAt[y] = w
    BY DEF Bearers
  <2>4. x[1] \in Nat /\ x[2] \in Nat /\ y[1] \in Nat /\ y[2] \in Nat /\ j \in Nat
    <3>1. j \in 1 .. Len(kText)
      OBVIOUS
    <3>2. j \in Nat
      BY <3>1
    <3> QED
      BY <1>1, <2>3, <3>2
  <2>5. x[1] <= y[2] /\ y[1] <= x[2]
    BY <2>1, <2>2, <2>4
  <2> QED
    BY <1>1, <2>3, <2>5
<1>9. Whole(P, D) = {j \in 1 .. Len(kText) : K!Letter(kText, j)}
  <2>1. ASSUME NEW w \in D, NEW j \in In(w) PROVE K!Letter(kText, j)
    <3>1. PICK x \in Bearers(A, WordAt, w) : x[1] <= j /\ j <= x[2]
      OBVIOUS
    <3>2. x \in A
      BY DEF Bearers
    <3>3. x[1] \in Int /\ x[2] \in Int /\ \A k \in x[1] .. x[2] : K!Letter(kText, k)
      BY <1>1, <3>2
    <3>4. j \in x[1] .. x[2]
      BY <3>1, <3>3
    <3> QED
      BY <3>3, <3>4
  <2>2. ASSUME NEW j \in 1 .. Len(kText), K!Letter(kText, j) PROVE \E w \in D : j \in In(w)
    <3>1. PICK x \in A : x[1] <= j /\ j <= x[2]
      BY <1>1, <2>2
    <3>2. WordAt[x] \in D /\ x \in Bearers(A, WordAt, WordAt[x])
      BY DEF Bearers
    <3> QED
      BY <3>1, <3>2
  <2>3. Whole(P, D) = UNION {P[w] : w \in D} /\ \A w \in D : P[w] = In(w) /\ In(w) \subseteq 1 .. Len(kText)
    BY DEF Whole
  <2> HIDE DEF P, D, In
  <2> QED
    BY <2>1, <2>2, <2>3
<1>10. (CHOOSE f : SetSum(D, LetterCounts(Y), f))[D]
         = Cardinality({j \in 1 .. Len(kText) : K!Letter(kText, j)})
  <2> DEFINE v == LetterCounts(Y)
  <2>0. \A w \in D : IsFiniteSet(P[w]) /\ v[w] = Cardinality(P[w])
    BY <1>7
  <2> HIDE DEF D, Y, P, v
  <2>1. (CHOOSE f : SetSum(D, v, f))[D] = Cardinality(Whole(P, D))
    BY <2>0, <1>3, <1>8, SetSumIs
  <2> QED
    BY <1>9, <2>1 DEF v
<1> HIDE DEF D, Y
<1>11. /\ K!MapThenSumSet(LAMBDA w : Y[w], K!BagToSet(Y)) = (CHOOSE f : SetSum(D, Y, f))[D]
       /\ K!MapThenSumSet(LAMBDA w : Y[w] * Len(w), K!BagToSet(Y))
            = (CHOOSE f : SetSum(D, LetterCounts(Y), f))[D]
  <2>1. /\ K!MapThenSumSet(LAMBDA w : Y[w], K!BagToSet(Y)) = (CHOOSE f : SetSum(DOMAIN Y, Y, f))[DOMAIN Y]
        /\ K!MapThenSumSet(LAMBDA w : Y[w] * Len(w), K!BagToSet(Y))
             = (CHOOSE f : SetSum(DOMAIN Y, LetterCounts(Y), f))[DOMAIN Y]
    BY TotalSums
  <2> QED
    BY <1>2, <2>1
<1> QED
  BY <1>6, <1>10, <1>11 DEF Y, A

LEMMA KCombined ==
  ASSUME NEW rs
  PROVE  /\ K!Counts => K!Combined(rs) = K!FoldSeq(LAMBDA r, sum : sum + r, 0, rs)
         /\ kProgram = "graph" => K!Combined(rs) = rs[1] + rs[2] * rs[3]
         /\ kProgram = "words" =>
              K!Combined(rs) = K!FoldSeq(LAMBDA r, sum : K!(+)(sum, r), K!EmptyBag, rs)
         /\ kProgram = "federated" =>
              K!Combined(rs) = [k \in 1 .. Len(rs) |->
                                  [weights |-> rs[k], num_examples |-> K!Cardinality(K!Shard(k - 1))]]
  BY ZenonT(30) DEF K!Combined, K!Counts

-----------------------------------------------------------------------------
(* What main makes of the results of the whole parts.                      *)
LEMMA CountsTotal ==
  ASSUME K!Counts, NEW E, NEW rs \in Seq(E), Len(rs) = MAX_THREAD,
         \A k \in 1 .. MAX_THREAD : rs[k] = CountOf(K!Part(k - 1))
  PROVE  K!Combined(rs) = K!Cardinality(K!Primes)
<1> DEFINE D == 1 .. MAX_THREAD
           Found(i) == {n \in Slice(PrimeCut, i) : n \in K!Primes}
           P == [k \in D |-> Found(k - 1)]
<1>1. IsFiniteSet(D) /\ DOMAIN rs = D
  BY KSizes, FS_Interval
<1>2. \A k \in D : k - 1 \in 0 .. MAX_THREAD - 1
  BY KSizes
<1>3. /\ IsCut(PrimeCut, MAX_THREAD) /\ PrimeCut[MAX_THREAD] = MAX_NUMBER
      /\ \A i, j \in 0 .. MAX_THREAD - 1 : i # j => Slice(PrimeCut, i) \cap Slice(PrimeCut, j) = {}
      /\ UNION {Slice(PrimeCut, i) : i \in 0 .. MAX_THREAD - 1} = 1 .. MAX_NUMBER
  <2>1. IsCut(PrimeCut, MAX_THREAD) /\ PrimeCut[MAX_THREAD] = MAX_NUMBER /\ MAX_THREAD \in Nat
    BY PrimeCuts, KSizes
  <2>2. UNION {Slice(PrimeCut, i) : i \in 0 .. MAX_THREAD - 1} = 1 .. PrimeCut[MAX_THREAD]
    BY <2>1, SlicesMeet
  <2>3. \A i, j \in 0 .. MAX_THREAD - 1 : i # j => Slice(PrimeCut, i) \cap Slice(PrimeCut, j) = {}
    BY <2>1, SlicesMeet
  <2> QED
    BY <2>1, <2>2, <2>3
<1>4. \A n \in 1 .. MAX_NUMBER : K!is_prime(n) <=> n \in K!Primes
  <2> SUFFICES ASSUME NEW n \in 1 .. MAX_NUMBER PROVE K!is_prime(n) <=> n \in K!Primes
    OBVIOUS
  <2>1. n \in Nat /\ n <= MAX_NUMBER
    BY KSizes
  <2>2. K!is_prime(n) <=> n \in 2 .. n /\ \A d \in 2 .. n - 1 : n % d # 0
    BY <2>1, PrimeTest
  <2>3. n \in 2 .. n <=> n \in 2 .. MAX_NUMBER
    BY <2>1, KSizes
  <2> QED
    BY <2>2, <2>3 DEF K!Primes
<1>5. ASSUME NEW i \in 0 .. MAX_THREAD - 1
      PROVE  IsFiniteSet(Found(i)) /\ CountOf(K!Part(i)) = Cardinality(Found(i))
  <2>1. PICK lo \in Nat, hi \in Nat : lo = PrimeCut[i] /\ hi = PrimeCut[i + 1]
    <3>1. i \in 0 .. MAX_THREAD /\ i + 1 \in 0 .. MAX_THREAD
      BY KSizes
    <3> QED
      BY <1>3, <3>1 DEF IsCut
  <2>2. K!start(i) = lo + 1 /\ K!end(i) = hi
    BY <2>1, PrimeCuts
  <2>3. K!Part(i) = [m \in 1 .. hi - (lo + 1) + 1 |-> lo + 1 + m - 1]
    BY <2>2, KPart
  <2>4. K!Part(i) = [m \in 1 .. hi - lo |-> lo + m]
    <3>1. hi - (lo + 1) + 1 = hi - lo
      OBVIOUS
    <3>2. \A m \in 1 .. hi - lo : lo + 1 + m - 1 = lo + m
      OBVIOUS
    <3>3. [m \in 1 .. hi - lo |-> lo + 1 + m - 1] = [m \in 1 .. hi - lo |-> lo + m]
      BY <3>2, Zenon
    <3> QED
      BY <2>3, <3>1, <3>3
  <2> DEFINE X == {m \in 1 .. hi - lo : K!is_prime(lo + m)}
             f == [m \in X |-> lo + m]
             Q == Found(i)
  <2>5. CountOf(K!Part(i)) = Cardinality(X)
    <3> DEFINE s == K!Part(i)
    <3>1. DOMAIN s = 1 .. hi - lo /\ \A m \in 1 .. hi - lo : s[m] = lo + m
      BY <2>4
    <3> HIDE DEF s
    <3>2. {m \in DOMAIN s : K!is_prime(s[m])} = X
      BY <3>1, Zenon
    <3>3. CountOf(s) = Cardinality({m \in DOMAIN s : K!is_prime(s[m])})
      BY DEF CountOf
    <3> QED
      BY <3>2, <3>3 DEF s
  <2>6. IsFiniteSet(X)
    <3>0. hi - lo \in Int
      OBVIOUS
    <3>1. IsFiniteSet(1 .. hi - lo)
      BY <3>0, FS_Interval
    <3>2. X \in SUBSET (1 .. hi - lo)
      OBVIOUS
    <3> HIDE DEF X
    <3> QED
      BY <3>1, <3>2, FS_Subset
  <2>7. Slice(PrimeCut, i) = lo + 1 .. hi /\ lo + 1 .. hi \subseteq 1 .. MAX_NUMBER
    <3>1. Slice(PrimeCut, i) = lo + 1 .. hi
      BY <2>1 DEF Slice
    <3>2. Slice(PrimeCut, i) \subseteq 1 .. MAX_NUMBER
      BY <1>3
    <3> QED
      BY <3>1, <3>2
  <2>8. \A m \in X : f[m] \in Q
    <3> SUFFICES ASSUME NEW m \in X PROVE lo + m \in Q
      OBVIOUS
    <3>1. lo + m \in lo + 1 .. hi
      OBVIOUS
    <3>2. K!is_prime(lo + m)
      OBVIOUS
    <3> QED
      BY <1>4, <2>7, <3>1, <3>2
  <2>9. \A m, k \in X : f[m] = f[k] => m = k
    OBVIOUS
  <2>10. \A z \in Q : \E m \in X : f[m] = z
    <3> SUFFICES ASSUME NEW z \in Q PROVE \E m \in X : lo + m = z
      OBVIOUS
    <3>1. z \in lo + 1 .. hi /\ z \in K!Primes
      BY <2>7
    <3>2. z - lo \in 1 .. hi - lo /\ lo + (z - lo) = z
      BY <3>1
    <3>3. K!is_prime(z)
      BY <1>4, <2>7, <3>1
    <3> QED
      BY <3>2, <3>3
  <2> HIDE DEF X, f, Q
  <2>10a. /\ IsFiniteSet(X) /\ \A m \in X : f[m] \in Q
          /\ \A m, k \in X : f[m] = f[k] => m = k
          /\ \A z \in Q : \E m \in X : f[m] = z
    BY <2>6, <2>8, <2>9, <2>10
  <2>11. IsFiniteSet(Q) /\ Cardinality(X) = Cardinality(Q)
    BY <2>10a, SameSize
  <2> QED
    BY <2>5, <2>11 DEF Q
<1>6. \A k \in D : IsFiniteSet(P[k]) /\ rs[k] = Cardinality(P[k])
  BY <1>2, <1>5
<1>7. \A k, m \in D : k # m => P[k] \cap P[m] = {}
  <2> SUFFICES ASSUME NEW k \in D, NEW m \in D, k # m
               PROVE  Slice(PrimeCut, k - 1) \cap Slice(PrimeCut, m - 1) = {}
    BY Zenon
  <2>1. k - 1 # m - 1
    BY KSizes
  <2> QED
    BY <1>2, <1>3, <2>1
<1>8. Whole(P, D) = K!Primes
  <2>1. ASSUME NEW n \in K!Primes PROVE n \in Whole(P, D)
    <3>1. n \in 1 .. MAX_NUMBER
      BY KSizes DEF K!Primes
    <3>2. PICK i \in 0 .. MAX_THREAD - 1 : n \in Slice(PrimeCut, i)
      BY <1>3, <3>1
    <3>3. i + 1 \in D /\ (i + 1) - 1 = i
      BY KSizes
    <3>4. P[i + 1] = Found(i) /\ n \in Found(i)
      BY <3>2, <3>3
    <3> HIDE DEF P, D, Found
    <3> QED
      BY <3>3, <3>4 DEF Whole
  <2>2. Whole(P, D) \subseteq K!Primes
    BY DEF Whole
  <2> QED
    BY <2>1, <2>2
<1> HIDE DEF D, P
<1>9. (CHOOSE f : SeqSum(D, rs, f))[D] = Cardinality(Whole(P, D))
  BY <1>1, <1>6, <1>7, SeqSumIs
<1>10. K!Combined(rs) = (CHOOSE f : SeqSum(DOMAIN rs, rs, f))[DOMAIN rs]
  BY KCombined, FoldNumber
<1> QED
  BY <1>1, <1>8, <1>9, <1>10, KCardinality

(* ho10: (2 * 6) + (1 + 4) * (5 - 2).                                      *)
LEMMA GraphTotal ==
  ASSUME kProgram = "graph", NEW rs,
         \A k \in 1 .. 3 : rs[k] = OutcomeOf(K!Part(k - 1))
  PROVE  K!Combined(rs) = 27
<1>1. \A k \in 1 .. 3 : rs[k] = K!compute(K!Operands[k])
  <2> SUFFICES ASSUME NEW k \in 1 .. 3 PROVE OutcomeOf(K!Part(k - 1)) = K!compute(K!Operands[k])
    OBVIOUS
  <2>1. K!Part(k - 1) = << K!Operands[(k - 1) + 1] >> /\ (k - 1) + 1 = k
    BY KPart
  <2>2. \A x : <<x>> # <<>> /\ Len(<<x>>) = 1 /\ <<x>>[1] = x
    OBVIOUS
  <2> QED
    BY <2>1, <2>2 DEF OutcomeOf
<1>2. rs[1] = 12 /\ rs[2] = 5 /\ rs[3] = 3
  BY <1>1, KCompute
<1>3. K!Combined(rs) = rs[1] + rs[2] * rs[3]
  BY KCombined
<1> QED
  BY <1>2, <1>3

(* ho18: the bag of all the pieces.                                        *)
LEMMA WordsTotal ==
  ASSUME kProgram = "words", kText \in Seq(Alphabet), K!chunk_size # 0,
         NEW E, NEW rs \in Seq(E), Len(rs) = K!NumChunks,
         \A k \in 1 .. K!NumChunks : rs[k] = BagOf(K!Part(k - 1))
  PROVE  K!Combined(rs) = BagFrom(AllPieces, WordAt)
<1> DEFINE D == 1 .. K!NumChunks
           bag == [k \in D |-> BagOf(K!findall(K!chunk(k - 1)))]
<1>1. \A k \in D : rs[k] = BagOf(K!findall(K!chunk(k - 1)))
  BY KPart
<1>2. DOMAIN rs = D /\ rs = [k \in D |-> rs[k]]
  OBVIOUS
<1>3. rs = bag
  BY <1>1, <1>2, Zenon
<1>4. K!Combined(rs) = (CHOOSE f : BagSum(DOMAIN rs, rs, f))[DOMAIN rs]
  BY KCombined, FoldBags
<1>5. (CHOOSE f : BagSum(D, bag, f))[D] = BagFrom(AllPieces, WordAt)
  BY PiecesBag
<1> HIDE DEF D, bag
<1> QED
  BY <1>2, <1>3, <1>4, <1>5

(* The result of a whole shard in the round r.                             *)
ModelAt(r) == [k \in 1 .. num_workers |->
                 [weights |-> [base |-> r, seen |-> K!Shard(k - 1)],
                  num_examples |-> K!Cardinality(K!Shard(k - 1))]]

(* ho19: one model per shard, with the size of the shard as its weight.    *)
LEMMA FederatedTotal ==
  ASSUME kProgram = "federated",
         NEW E, NEW rs \in Seq(E), Len(rs) = num_workers,
         \A k \in 1 .. num_workers : rs[k] = ModelOf(K!Part(k - 1))
  PROVE  K!Combined(rs) = ModelAt(kRound)
<1>1. ASSUME NEW i \in 0 .. num_workers - 1
      PROVE  ModelOf(K!Part(i)) = [base |-> kRound, seen |-> K!Shard(i)]
  <2>1. PICK lo \in Nat, hi \in Nat : K!Shard(i) = lo + 1 .. hi /\ lo < hi
    <3>1. i \in 0 .. num_workers /\ i + 1 \in 0 .. num_workers
      BY KSizes
    <3> QED
      BY <3>1, ShardCuts DEF IsCut, Slice
  <2>2. K!Min(lo + 1 .. hi) = lo + 1 /\ K!Cardinality(lo + 1 .. hi) = hi - lo
    <3>1. K!Min(lo + 1 .. hi) = lo + 1
      BY <2>1 DEF K!Min
    <3>2. Cardinality(lo + 1 .. hi) = hi - lo
      BY <2>1, FS_Interval
    <3> QED
      BY <3>1, <3>2, KCardinality
  <2> DEFINE s == K!Part(i)
             n == hi - lo
  <2>3. s = [k \in 1 .. n |-> [base |-> kRound, example |-> lo + 1 + k - 1]]
    BY <2>1, <2>2, KPart
  <2>4. n \in Nat \ {0}
    BY <2>1
  <2>5. \A k \in 1 .. n : s[k] = [base |-> kRound, example |-> lo + 1 + k - 1]
    BY <2>3
  <2>6. DOMAIN s = 1 .. n /\ Len(s) = n /\ s # <<>>
    <3> HIDE DEF n
    <3>1. DOMAIN s = 1 .. n
      BY <2>3
    <3>2. s \in Seq({s[k] : k \in 1 .. n})
      <4> HIDE DEF s
      <4>1. s = [k \in 1 .. n |-> s[k]]
        BY <2>3
      <4> QED
        BY <2>4, <4>1
    <3> HIDE DEF s
    <3> QED
      BY <2>4, <3>1, <3>2
  <2>7. {s[k].example : k \in DOMAIN s} = lo + 1 .. hi
    <3>0. \A k \in 1 .. n : lo + 1 + k - 1 = lo + k
      OBVIOUS
    <3>1. \A k \in 1 .. n : s[k].example = lo + k
      <4>1. \A k \in 1 .. n : s[k].example = lo + 1 + k - 1
        <5> HIDE DEF n, s
        <5>1. \A e : [base |-> kRound, example |-> e].example = e
          OBVIOUS
        <5> QED
          BY <2>5, <5>1, Zenon
      <4> HIDE DEF n, s
      <4> QED
        BY <3>0, <4>1
    <3>2. \A z \in lo + 1 .. hi : z - lo \in 1 .. n /\ lo + (z - lo) = z
      BY <2>1
    <3>3. \A k \in 1 .. n : lo + k \in lo + 1 .. hi
      BY <2>1
    <3> HIDE DEF n, s
    <3>4. \A z \in lo + 1 .. hi : z \in {s[k].example : k \in DOMAIN s}
      BY <2>6, <3>1, <3>2
    <3>5. \A z \in {s[k].example : k \in DOMAIN s} : z \in lo + 1 .. hi
      BY <2>6, <3>1, <3>3
    <3> QED
      BY <3>4, <3>5
  <2>8. s[Len(s)].base = kRound
    <3>1. n \in 1 .. n
      BY <2>4
    <3> HIDE DEF n, s
    <3> QED
      BY <2>5, <2>6, <3>1
  <2>9. ModelOf(s) = [base |-> kRound, seen |-> lo + 1 .. hi]
    BY <2>6, <2>7, <2>8 DEF ModelOf
  <2> QED
    BY <2>1, <2>9
<1>2. \A k \in 1 .. num_workers : rs[k] = [base |-> kRound, seen |-> K!Shard(k - 1)]
  <2> SUFFICES ASSUME NEW k \in 1 .. num_workers
               PROVE  ModelOf(K!Part(k - 1)) = [base |-> kRound, seen |-> K!Shard(k - 1)]
    OBVIOUS
  <2>1. k - 1 \in 0 .. num_workers - 1
    BY KSizes
  <2> QED
    BY <1>1, <2>1
<1>3. K!Combined(rs) = [k \in 1 .. num_workers |->
                          [weights |-> rs[k], num_examples |-> K!Cardinality(K!Shard(k - 1))]]
  BY KCombined
<1> QED
  BY <1>2, <1>3, Zenon DEF ModelAt

(* The weights of the models, and their sum.                               *)
Examples(T) == [k \in DOMAIN T |-> T[k].num_examples]
ExamplesIn(T) == K!MapThenSumSet(LAMBDA k : T[k].num_examples, DOMAIN T)

(* Each example of the training set is in one shard.                       *)
LEMMA ModelUsesAll ==
  ASSUME NEW r
  PROVE  /\ DOMAIN ModelAt(r) = 1 .. num_workers
         /\ \A k \in 1 .. num_workers : /\ ModelAt(r)[k].weights.base = r
                                        /\ ModelAt(r)[k].num_examples
                                             = K!Cardinality(ModelAt(r)[k].weights.seen)
         /\ UNION {ModelAt(r)[k].weights.seen : k \in 1 .. num_workers} = 1 .. num_examples
         /\ ExamplesIn(ModelAt(r)) = num_examples
<1> DEFINE T == ModelAt(r)
           D == 1 .. num_workers
           P == [k \in D |-> K!Shard(k - 1)]
           v == Examples(T)
<1>1. /\ DOMAIN T = D
      /\ \A k \in D : /\ T[k].weights.base = r /\ T[k].weights.seen = K!Shard(k - 1)
                      /\ T[k].num_examples = K!Cardinality(K!Shard(k - 1))
  BY DEF ModelAt
<1>2. /\ \A i, j \in 0 .. num_workers - 1 : i # j => K!Shard(i) \cap K!Shard(j) = {}
      /\ UNION {K!Shard(i) : i \in 0 .. num_workers - 1} = 1 .. num_examples
      /\ \A i \in 0 .. num_workers - 1 : IsFiniteSet(K!Shard(i))
  <2>1. IsCut(ShardCut, num_workers) /\ ShardCut[num_workers] = num_examples /\ num_workers \in Nat
        /\ \A i \in 0 .. num_workers - 1 : K!Shard(i) = Slice(ShardCut, i)
    BY ShardCuts, KSizes
  <2>2. UNION {Slice(ShardCut, i) : i \in 0 .. num_workers - 1} = 1 .. ShardCut[num_workers]
    BY <2>1, SlicesMeet
  <2>3. \A i, j \in 0 .. num_workers - 1 : i # j => Slice(ShardCut, i) \cap Slice(ShardCut, j) = {}
    BY <2>1, SlicesMeet
  <2>4. {Slice(ShardCut, i) : i \in 0 .. num_workers - 1} = {K!Shard(i) : i \in 0 .. num_workers - 1}
    BY <2>1
  <2>5. UNION {K!Shard(i) : i \in 0 .. num_workers - 1} = 1 .. num_examples
    BY <2>1, <2>2, <2>4
  <2>6. IsFiniteSet(1 .. num_examples)
    BY KSizes, FS_Interval
  <2>7. \A i \in 0 .. num_workers - 1 : K!Shard(i) \in SUBSET (1 .. num_examples)
    BY <2>5
  <2>8. \A i \in 0 .. num_workers - 1 : IsFiniteSet(K!Shard(i))
    BY <2>6, <2>7, FS_Subset
  <2> QED
    BY <2>1, <2>3, <2>5, <2>8
<1>3. \A k \in D : k - 1 \in 0 .. num_workers - 1
  BY KSizes
<1>4. Whole(P, D) = 1 .. num_examples /\ Whole(P, D) = UNION {T[k].weights.seen : k \in D}
  <2>1. \A i \in 0 .. num_workers - 1 : i + 1 \in D /\ (i + 1) - 1 = i
    BY KSizes
  <2>2. \A k \in D : P[k] = K!Shard(k - 1)
    OBVIOUS
  <2>3. Whole(P, D) = UNION {P[k] : k \in D}
    BY DEF Whole
  <2> HIDE DEF P, D, T
  <2>4. Whole(P, D) = UNION {T[k].weights.seen : k \in D}
    BY <1>1, <2>2, <2>3
  <2>5. ASSUME NEW x \in Whole(P, D) PROVE x \in 1 .. num_examples
    <3>1. PICK k \in D : x \in P[k]
      BY <2>3
    <3> QED
      BY <1>2, <1>3, <2>2, <3>1
  <2>6. ASSUME NEW x \in 1 .. num_examples PROVE x \in Whole(P, D)
    <3>1. PICK i \in 0 .. num_workers - 1 : x \in K!Shard(i)
      BY <1>2
    <3>2. P[i + 1] = K!Shard(i) /\ i + 1 \in D
      BY <2>1, <2>2
    <3> QED
      BY <2>3, <3>1, <3>2
  <2> QED
    BY <2>4, <2>5, <2>6
<1>5. \A k \in D : IsFiniteSet(P[k]) /\ v[k] = Cardinality(P[k])
  BY <1>1, <1>2, <1>3, KCardinality DEF Examples
<1>6. \A k, m \in D : k # m => P[k] \cap P[m] = {}
  <2> SUFFICES ASSUME NEW k \in D, NEW m \in D, k # m PROVE K!Shard(k - 1) \cap K!Shard(m - 1) = {}
    OBVIOUS
  <2>1. k - 1 # m - 1
    BY KSizes
  <2> QED
    BY <1>2, <1>3, <2>1
<1>7. IsFiniteSet(D) /\ Cardinality(1 .. num_examples) = num_examples
  BY KSizes, FS_Interval
<1>8. K!MapThenSumSet(LAMBDA k : T[k].num_examples, DOMAIN T) = (CHOOSE f : SetSum(DOMAIN T, v, f))[DOMAIN T]
  <2> HIDE DEF T
  <2> DEFINE A == DOMAIN T
  <2>1. K!MapThenSumSet(LAMBDA k : T[k].num_examples, A)
          = (CHOOSE f : f = [s \in SUBSET A |->
                               IF s = {} THEN 0 ELSE T[Pick(s)].num_examples + f[s \ {Pick(s)}]])[A]
    BY DEF K!MapThenSumSet, K!MapThenFoldSet, Pick
  <2>2. \A s \in SUBSET A : s # {} => v[Pick(s)] = T[Pick(s)].num_examples
    BY PickIn DEF Examples
  <2> HIDE DEF v, A
  <2>3. ASSUME NEW f
        PROVE  f = [s \in SUBSET A |->
                      IF s = {} THEN 0 ELSE T[Pick(s)].num_examples + f[s \ {Pick(s)}]]
               <=> SetSum(A, v, f)
    <3>1. \A s \in SUBSET A :
            (IF s = {} THEN 0 ELSE T[Pick(s)].num_examples + f[s \ {Pick(s)}])
            = (IF s = {} THEN 0 ELSE v[Pick(s)] + f[s \ {Pick(s)}])
      BY <2>2
    <3>2. [s \in SUBSET A |-> IF s = {} THEN 0 ELSE T[Pick(s)].num_examples + f[s \ {Pick(s)}]]
          = [s \in SUBSET A |-> IF s = {} THEN 0 ELSE v[Pick(s)] + f[s \ {Pick(s)}]]
      BY <3>1, Zenon
    <3> QED
      BY <3>2 DEF SetSum
  <2>4. K!MapThenSumSet(LAMBDA k : T[k].num_examples, A) = (CHOOSE f : SetSum(A, v, f))[A]
    BY <2>1, <2>3, Zenon
  <2> QED
    BY <2>4 DEF A
<1> HIDE DEF P, D, v, T
<1>9. (CHOOSE f : SetSum(D, v, f))[D] = Cardinality(Whole(P, D))
  BY <1>5, <1>6, <1>7, SetSumIs
<1>10. K!MapThenSumSet(LAMBDA k : T[k].num_examples, DOMAIN T) = num_examples
  BY <1>1, <1>4, <1>7, <1>8, <1>9
<1>11. \A k \in D : T[k].weights.base = r /\ T[k].num_examples = K!Cardinality(T[k].weights.seen)
  BY <1>1
<1>12. ExamplesIn(T) = num_examples
  BY <1>10 DEF ExamplesIn
<1> QED
  BY <1>1, <1>4, <1>11, <1>12 DEF T, D

(* np.array_split stays inside the training set.                           *)
LEMMA ShardInside ==
  ASSUME NEW i \in 0 .. num_workers - 1
  PROVE  \E first, last \in 0 .. num_examples : /\ K!Shard(i) = first + 1 .. last
                                                /\ K!Min(K!Shard(i)) = first + 1
                                                /\ first < last
<1> DEFINE size == num_examples \div num_workers
           more == num_examples % num_workers
           first == i * size + K!Min({i, more})
           last == first + size + (IF i < more THEN 1 ELSE 0)
<1>1. /\ size \in Nat /\ more \in Nat /\ more < num_workers /\ i \in Nat
      /\ num_examples = size * num_workers + more
  BY KSizes
<1>2. size > 0
  BY <1>1, KSizes
<1>3. K!Min({i, more}) = IF i <= more THEN i ELSE more
  BY <1>1 DEF K!Min
<1>4. K!Shard(i) = first + 1 .. last
  BY DEF K!Shard
<1>5. /\ (i + 1) * size <= num_workers * size /\ (i + 1) * size = i * size + size
      /\ num_workers * size = size * num_workers /\ i * size \in Nat
  BY <1>1, KSizes, Products
<1> HIDE DEF size, more
<1>6. first \in Nat /\ last \in Nat /\ first < last /\ last <= num_examples
  BY <1>1, <1>2, <1>3, <1>5, KSizes
<1> HIDE DEF first, last
<1>7. K!Min(first + 1 .. last) = first + 1
  BY <1>6 DEF K!Min
<1> QED
  BY <1>4, <1>6, <1>7, KSizes

(* What is left of a part, and what a worked item leads to, fits the program. *)
LeftInv ==
  /\ kProgram = "graph" => \A i \in K!Tasks : kLeft[i] = <<>> \/ kLeft[i] = << K!Operands[i + 1] >>
  /\ kProgram = "federated" => \A i \in K!Tasks :
       kLeft[i] \in Seq([base : 0 .. num_rounds, example : 1 .. num_examples])

(* One result has been waited for per task that main is past.              *)
WaitInv == /\ kMain = "create" => kGot = <<>>
           /\ kMain = "join" => Len(kGot) = kNext /\ kNext \in K!Tasks
           /\ kMain = "combine" => Len(kGot) = K!NumTasks
           /\ Len(kGot) \in Nat /\ \E E : kGot \in Seq(E)

ForkInv == /\ K!TypeOK /\ LeftInv /\ WaitInv
           /\ Len(kText) \in Nat
           /\ kMain \in {"create", "join", "combine"} => kRound < num_rounds
           /\ DOMAIN kLeft = K!Tasks /\ DOMAIN kResult = K!Tasks
           /\ \A i \in K!Tasks : kPc[i] = "run" => K!IsResult(kResult[i])

LEMMA TasksFacts ==
  ASSUME kProgram \in K!Programs, Len(kText) \in Nat
  PROVE  K!NumTasks \in Nat /\ \A i \in K!Tasks : i \in Nat /\ i < K!NumTasks
<1>1. K!NumChunks \in Nat
  <2>1. K!chunk_size \in Nat
    BY KSizes DEF K!chunk_size
  <2> QED
    BY <2>1 DEF K!NumChunks
<1>2. K!NumTasks \in Nat
  BY <1>1, KNumTasks, KSizes, KCompute DEF K!Programs, K!Counts
<1> QED
  BY <1>2 DEF K!Tasks

LEMMA TasksConstant ==
  ASSUME UNCHANGED <<kProgram, kText>>
  PROVE  K!NumTasks' = K!NumTasks /\ K!Tasks' = K!Tasks /\ K!Counts' = K!Counts
         /\ \A r : K!IsResult(r)' = K!IsResult(r)
<1>1. K!NumTasks' = K!NumTasks /\ \A r : K!IsResult(r)' = K!IsResult(r)
  BY DEF K!NumTasks, K!Counts, K!NumChunks, K!chunk_size, K!IsResult
<1> QED
  BY <1>1 DEF K!Tasks, K!Counts

LEMMA ZeroIsResult == kProgram \in K!Programs => K!IsResult(K!Zero)
<1>1. K!IsABag(K!EmptyBag)
  BY DEF K!IsABag, K!EmptyBag, K!SetToBag
<1>2. [base |-> 0, seen |-> {}] \in [base : 0 .. num_rounds, seen : SUBSET (1 .. num_examples)]
  BY KSizes
<1> QED
  BY <1>1, <1>2, KZero, KIsResult DEF K!Programs, K!Counts

LEMMA AddIsResult ==
  ASSUME kProgram \in K!Programs, LeftInv, NEW i \in K!Tasks, i \in Nat, i < K!NumTasks,
         kLeft[i] # <<>>, NEW r, K!IsResult(r)
  PROVE  K!IsResult(K!Add(r, Head(kLeft[i])))
<1> DEFINE x == Head(kLeft[i])
<1>1. CASE K!Counts
  <2>1. r \in Nat /\ K!Add(r, x) \in {r, r + 1}
    BY <1>1, KAdd, KIsResult
  <2> QED
    BY <1>1, <2>1, KIsResult
<1>2. CASE kProgram = "graph"
  <2>1. x = K!Operands[i + 1] /\ i \in {0, 1, 2}
    BY <1>2, KNumTasks, KCompute DEF LeftInv
  <2>2. K!Add(r, x) \in Int
    BY <1>2, <2>1, KAdd, KCompute
  <2> QED
    BY <1>2, <2>2, KIsResult
<1>3. CASE kProgram = "words"
  <2>1. K!IsABag(r) /\ K!Add(r, x) = K!(+)(r, K!SetToBag({x}))
    BY <1>3, KAdd, KIsResult
  <2> HIDE DEF x
  <2>2. K!IsABag(K!(+)(r, K!SetToBag({x})))
    BY <2>1 DEF K!IsABag, K!(+), K!SetToBag
  <2> QED
    BY <1>3, <2>1, <2>2, KIsResult DEF x
<1>4. CASE kProgram = "federated"
  <2>1. x \in [base : 0 .. num_rounds, example : 1 .. num_examples]
    BY <1>4, HeadTailProperties DEF LeftInv
  <2>2. /\ r \in [base : 0 .. num_rounds, seen : SUBSET (1 .. num_examples)]
        /\ K!Add(r, x) = [base |-> x.base, seen |-> r.seen \cup {x.example}]
    BY <1>4, KAdd, KIsResult
  <2>3. K!Add(r, x) \in [base : 0 .. num_rounds, seen : SUBSET (1 .. num_examples)]
    BY <2>1, <2>2
  <2> QED
    BY <1>4, <2>3, KIsResult
<1> QED
  BY <1>1, <1>2, <1>3, <1>4 DEF K!Programs, K!Counts

(* The part a task is created with.                                        *)
LEMMA PartFits ==
  ASSUME kProgram \in K!Programs, NEW i \in K!Tasks, kRound \in 0 .. num_rounds
  PROVE  /\ kProgram = "graph" => K!Part(i) = << K!Operands[i + 1] >>
         /\ kProgram = "federated" =>
              K!Part(i) \in Seq([base : 0 .. num_rounds, example : 1 .. num_examples])
<1>1. ASSUME kProgram = "federated"
      PROVE  K!Part(i) \in Seq([base : 0 .. num_rounds, example : 1 .. num_examples])
  <2>1. i \in 0 .. num_workers - 1
    BY <1>1, KNumTasks DEF K!Tasks
  <2>2. PICK first, last \in 0 .. num_examples : /\ K!Shard(i) = first + 1 .. last
                                                 /\ K!Min(K!Shard(i)) = first + 1
                                                 /\ first < last
    BY <2>1, ShardInside
  <2>3. K!Cardinality(K!Shard(i)) = last - first
    <3>1. Cardinality(first + 1 .. last) = last - first
      BY <2>2, FS_Interval
    <3>2. \A X : K!Cardinality(X) = Cardinality(X)
      BY DEF Cardinality, K!Cardinality
    <3> QED
      BY <2>2, <3>1, <3>2
  <2>4. K!Part(i) = [k \in 1 .. last - first |-> [base |-> kRound, example |-> first + 1 + k - 1]]
    BY <1>1, <2>2, <2>3, KPart
  <2>5. last - first \in Nat
    BY <2>2, KSizes
  <2>6. \A k \in 1 .. last - first : [base |-> kRound, example |-> first + 1 + k - 1]
                                       \in [base : 0 .. num_rounds, example : 1 .. num_examples]
    BY <2>2, KSizes
  <2> QED
    BY <2>4, <2>5, <2>6
<1> QED
  BY <1>1, KPart

LEMMA ForkInit == K!Init => ForkInv
<1> SUFFICES ASSUME K!Init PROVE ForkInv
  OBVIOUS
<1>1. /\ kProgram \in K!Programs /\ kMain = "create" /\ kNext = 0 /\ kRound = 0 /\ kGot = <<>>
      /\ kPc = [i \in K!Tasks |-> "new"] /\ kLeft = [i \in K!Tasks |-> <<>>]
      /\ kResult = [i \in K!Tasks |-> None] /\ kCpuset = [i \in K!Tasks |-> K!Cores]
  BY DEF K!Init
<1>2. Len(kText) \in Nat
  <2>1. CASE kProgram = "words"
    <3>1. kText \in UNION {[1..n -> Alphabet] : n \in 0..TextLen}
      BY <2>1 DEF K!Init
    <3>2. PICK n \in 0..TextLen : kText \in [1..n -> Alphabet]
      BY <3>1
    <3>3. n \in Nat /\ kText \in Seq(Alphabet)
      BY <3>2, KSizes
    <3> QED
      BY <3>3
  <2>2. CASE kProgram # "words"
    <3>1. kText = <<>>
      BY <2>2 DEF K!Init
    <3> QED
      BY <3>1
  <2> QED
    BY <2>1, <2>2
<1>3. K!NumTasks \in Nat
  BY <1>1, <1>2, TasksFacts
<1>4. K!TypeOK
  <2>1. kRound \in 0 .. num_rounds
    BY <1>1, KSizes
  <2>2. kCpuset \in [K!Tasks -> SUBSET K!Cores]
    BY <1>1
  <2> QED
    BY <1>1, <1>3, <2>1, <2>2 DEF K!TypeOK
<1>5. LeftInv
  BY <1>1 DEF LeftInv
<1>6. WaitInv
  BY <1>1 DEF WaitInv
<1> QED
  BY <1>1, <1>2, <1>4, <1>5, <1>6, KSizes DEF ForkInv

LEMMA SeqGrows ==
  ASSUME NEW E, NEW s \in Seq(E), NEW e
  PROVE  /\ Append(s, e) \in Seq(E \cup {e}) /\ Len(Append(s, e)) = Len(s) + 1
         /\ Len(s) \in Nat
<1>1. s \in Seq(E \cup {e})
  OBVIOUS
<1> QED
  BY <1>1

(* A step of main that leaves the tasks' results alone.                    *)
LEMMA ForkStepMain ==
  ASSUME ForkInv, K!Create \/ K!RangeFails \/ K!CreateFails \/ K!Join \/ K!JoinFails \/ K!Combine
  PROVE  ForkInv'
<1>0. /\ K!TypeOK /\ LeftInv /\ WaitInv /\ Len(kText) \in Nat /\ kProgram \in K!Programs
      /\ kNext \in Nat /\ kRound \in 0 .. num_rounds /\ K!NumTasks \in Nat
      /\ \A i \in K!Tasks : i \in Nat /\ i < K!NumTasks
      /\ kMain \in {"create", "join", "combine"} => kRound < num_rounds
      /\ DOMAIN kLeft = K!Tasks /\ DOMAIN kResult = K!Tasks
      /\ \A i \in K!Tasks : kPc[i] = "run" => K!IsResult(kResult[i])
  <2>1. Len(kText) \in Nat /\ kProgram \in K!Programs
    BY DEF ForkInv, K!TypeOK
  <2>2. K!NumTasks \in Nat /\ \A i \in K!Tasks : i \in Nat /\ i < K!NumTasks
    BY <2>1, TasksFacts
  <2>3. kNext \in Nat
    BY <2>2 DEF ForkInv, K!TypeOK
  <2> QED
    BY <2>1, <2>2, <2>3 DEF ForkInv, K!TypeOK
<1>c. /\ UNCHANGED <<kProgram, kText, kResult, kCpuset>>
      /\ K!NumTasks' = K!NumTasks /\ K!Tasks' = K!Tasks
      /\ \A r : K!IsResult(r)' = K!IsResult(r)
  <2>1. UNCHANGED <<kProgram, kText, kResult, kCpuset>>
    BY DEF K!Create, K!RangeFails, K!CreateFails, K!Join, K!JoinFails, K!Combine, K!Stop
  <2> QED
    BY <2>1, TasksConstant
<1>on. ASSUME NEW then, kNext \in K!Tasks, K!Onward(then)
       PROVE  \/ kMain' = kMain /\ kNext' = kNext + 1 /\ kNext' \in K!Tasks
              \/ kMain' = then /\ kNext' = 0 /\ kNext + 1 = K!NumTasks
  BY <1>0, <1>on DEF K!Onward, K!Tasks
<1>1. CASE K!Create
  <2>1. /\ kMain = "create" /\ kNext \in K!Tasks /\ K!Onward("join")
        /\ kLeft' = [kLeft EXCEPT ![kNext] = K!Part(kNext)] /\ UNCHANGED <<kRound, kGot>>
        /\ \E s \in {"ready", "lost"} : kPc' = [kPc EXCEPT ![kNext] = s]
    BY <1>1 DEF K!Create
  <2>2. LeftInv'
    <3>1. kProgram = "graph" => K!Part(kNext) = << K!Operands[kNext + 1] >>
      BY <1>0, <2>1, PartFits
    <3>2. kProgram = "federated" =>
            K!Part(kNext) \in Seq([base : 0 .. num_rounds, example : 1 .. num_examples])
      BY <1>0, <2>1, PartFits
    <3>3. K!Operands' = K!Operands
      BY DEF K!Operands
    <3> QED
      BY <1>0, <1>c, <2>1, <3>1, <3>2, <3>3 DEF LeftInv
  <2>3. kMain' \in {"create", "join"} /\ kNext' \in K!Tasks
        /\ (kMain' = "join" => kNext' = 0)
    BY <1>0, <1>on, <2>1 DEF K!Tasks
  <2>4. WaitInv'
    BY <1>0, <1>c, <2>1, <2>3 DEF WaitInv
  <2>5. K!TypeOK'
    BY <1>0, <1>c, <2>1, <2>3 DEF K!TypeOK, K!Programs, K!Cores
  <2>6. \A i \in K!Tasks : kPc'[i] = "run" => kPc[i] = "run"
    BY <2>1 DEF ForkInv, K!TypeOK
  <2>7. DOMAIN kLeft' = K!Tasks
    BY <1>0, <2>1
  <2> QED
    BY <1>0, <1>c, <2>1, <2>2, <2>4, <2>5, <2>6, <2>7 DEF ForkInv
<1>2. CASE K!RangeFails \/ K!CreateFails \/ K!JoinFails
  <2>1. /\ kMain' = "failed" /\ UNCHANGED <<kNext, kRound, kPc, kLeft, kGot>>
    BY <1>2 DEF K!RangeFails, K!CreateFails, K!JoinFails, K!Stop
  <2>2. LeftInv' /\ WaitInv'
    BY <1>0, <1>c, <2>1 DEF LeftInv, WaitInv, K!Operands
  <2>3. K!TypeOK'
    BY <1>0, <1>c, <2>1 DEF K!TypeOK, K!Programs, K!Cores
  <2> QED
    BY <1>0, <1>c, <2>1, <2>2, <2>3 DEF ForkInv
<1>3. CASE K!Join
  <2>1. /\ kMain = "join" /\ K!Onward("combine") /\ UNCHANGED <<kRound, kPc, kLeft>>
        /\ \E r : kGot' = Append(kGot, r)
    BY <1>3 DEF K!Join
  <2>2. kNext \in K!Tasks
    BY <1>0, <2>1 DEF WaitInv
  <2>3. /\ \E E : kGot' \in Seq(E)
        /\ Len(kGot') = Len(kGot) + 1 /\ Len(kGot) = kNext /\ Len(kGot') \in Nat
    <3>1. PICK E : kGot \in Seq(E)
      BY <1>0 DEF WaitInv
    <3>2. PICK r : kGot' = Append(kGot, r)
      BY <2>1
    <3>3. kGot' \in Seq(E \cup {r}) /\ Len(kGot') = Len(kGot) + 1 /\ Len(kGot) \in Nat
      BY <3>1, <3>2, SeqGrows
    <3>4. Len(kGot) = kNext
      BY <1>0, <2>1 DEF WaitInv
    <3> QED
      BY <3>3, <3>4
  <2>4. /\ kMain' \in {"join", "combine"} /\ kNext' \in K!Tasks \cup {0}
        /\ kMain' = "join" => kNext' = kNext + 1 /\ kNext' \in K!Tasks
        /\ kMain' = "combine" => kNext + 1 = K!NumTasks
    BY <1>on, <2>1, <2>2
  <2>5. LeftInv' /\ WaitInv'
    <3>1. LeftInv'
      BY <1>0, <1>c, <2>1 DEF LeftInv, K!Operands
    <3>2. WaitInv'
      BY <1>c, <2>3, <2>4 DEF WaitInv
    <3> QED
      BY <3>1, <3>2
  <2>6. K!TypeOK'
    BY <1>0, <1>c, <2>1, <2>2, <2>3, <2>4 DEF K!TypeOK, K!Programs, K!Cores
  <2> QED
    BY <1>0, <1>c, <2>1, <2>5, <2>6 DEF ForkInv
<1>4. CASE K!Combine
  <2>1. /\ kMain = "combine" /\ kGot' = <<>> /\ kRound' = kRound + 1
        /\ UNCHANGED <<kNext, kPc, kLeft>>
        /\ kMain' \in {"create", "done"} /\ (kMain' = "create" => kRound + 1 < num_rounds)
    BY <1>4 DEF K!Combine
  <2>2. LeftInv' /\ WaitInv'
    <3>1. kRound + 1 \in 0 .. num_rounds /\ kGot' \in Seq({}) /\ Len(kGot') = 0
      BY <1>0, <2>1, KSizes
    <3>2. LeftInv'
      BY <1>0, <1>c, <2>1 DEF LeftInv, K!Operands
    <3>3. WaitInv'
      BY <2>1, <3>1 DEF WaitInv
    <3> QED
      BY <3>2, <3>3
  <2>3. kRound' \in 0 .. num_rounds
    BY <1>0, <2>1, KSizes
  <2>4. K!TypeOK'
    BY <1>0, <1>c, <2>1, <2>3 DEF K!TypeOK, K!Programs, K!Cores
  <2> QED
    BY <1>0, <1>c, <2>1, <2>2, <2>4 DEF ForkInv
<1> QED
  BY <1>1, <1>2, <1>3, <1>4

LEMMA ForkStepTask ==
  ASSUME ForkInv, NEW i \in K!Tasks, K!Task(i) \/ K!Dies(i)
  PROVE  ForkInv'
<1>0. /\ K!TypeOK /\ LeftInv /\ WaitInv /\ Len(kText) \in Nat /\ kProgram \in K!Programs
      /\ K!NumTasks \in Nat /\ i \in Nat /\ i < K!NumTasks
      /\ kMain \in {"create", "join", "combine"} => kRound < num_rounds
      /\ DOMAIN kLeft = K!Tasks /\ DOMAIN kResult = K!Tasks
      /\ \A j \in K!Tasks : kPc[j] = "run" => K!IsResult(kResult[j])
  BY TasksFacts DEF ForkInv, K!TypeOK
<1>c. /\ UNCHANGED <<kProgram, kText, kMain, kNext, kRound, kGot>>
      /\ K!NumTasks' = K!NumTasks /\ K!Tasks' = K!Tasks
      /\ \A r : K!IsResult(r)' = K!IsResult(r)
  <2>1. UNCHANGED <<kProgram, kText, kMain, kNext, kRound, kGot>>
    BY DEF K!Task, K!Dies, K!Start, K!Work, K!Exit
  <2> QED
    BY <2>1, TasksConstant
<1>w. WaitInv'
  BY <1>0, <1>c DEF WaitInv
<1>1. CASE K!Start(i)
  <2>1. /\ kPc' = [kPc EXCEPT ![i] = "run"] /\ kResult' = [kResult EXCEPT ![i] = K!Zero]
        /\ kCpuset' = IF kProgram = "affinity" /\ i \in K!Cores
                      THEN [kCpuset EXCEPT ![i] = {i}] ELSE kCpuset
        /\ UNCHANGED kLeft
    BY <1>1 DEF K!Start
  <2>2. K!IsResult(K!Zero)
    BY <1>0, ZeroIsResult
  <2>3. kCpuset' \in [K!Tasks -> SUBSET K!Cores]
    BY <1>0, <2>1 DEF K!TypeOK
  <2>4. /\ \A j \in K!Tasks : kResult'[j] = None \/ K!IsResult(kResult'[j])
        /\ \A j \in K!Tasks : kPc'[j] = "run" => K!IsResult(kResult'[j])
        /\ DOMAIN kResult' = K!Tasks
    BY <1>0, <2>1, <2>2 DEF K!TypeOK
  <2>5. K!TypeOK'
    BY <1>0, <1>c, <2>1, <2>3, <2>4 DEF K!TypeOK, K!Programs, K!Cores
  <2>6. LeftInv'
    BY <1>0, <1>c, <2>1 DEF LeftInv, K!Operands
  <2> QED
    BY <1>0, <1>c, <1>w, <2>1, <2>4, <2>5, <2>6 DEF ForkInv
<1>2. CASE K!Work(i)
  <2>1. /\ kPc[i] = "run" /\ kLeft[i] # <<>>
        /\ kResult' = [kResult EXCEPT ![i] = K!Add(kResult[i], Head(kLeft[i]))]
        /\ kLeft' = [kLeft EXCEPT ![i] = Tail(kLeft[i])]
        /\ UNCHANGED <<kPc, kCpuset>>
    BY <1>2 DEF K!Work, K!Running
  <2>2. K!IsResult(K!Add(kResult[i], Head(kLeft[i])))
    BY <1>0, <2>1, AddIsResult
  <2>3. /\ \A j \in K!Tasks : kResult'[j] = None \/ K!IsResult(kResult'[j])
        /\ \A j \in K!Tasks : kPc'[j] = "run" => K!IsResult(kResult'[j])
        /\ DOMAIN kResult' = K!Tasks /\ DOMAIN kLeft' = K!Tasks
    BY <1>0, <2>1, <2>2 DEF K!TypeOK
  <2>4. K!TypeOK'
    BY <1>0, <1>c, <2>1, <2>3 DEF K!TypeOK, K!Programs, K!Cores
  <2>5. kProgram = "graph" => Tail(kLeft[i]) = <<>>
    <3>1. \A x : Tail(<<x>>) = <<>>
      OBVIOUS
    <3>2. kProgram = "graph" => kLeft[i] = << K!Operands[i + 1] >>
      BY <1>0, <2>1 DEF LeftInv
    <3> QED
      BY <3>1, <3>2
  <2>6. kProgram = "federated" =>
          Tail(kLeft[i]) \in Seq([base : 0 .. num_rounds, example : 1 .. num_examples])
    BY <1>0, <2>1, HeadTailProperties DEF LeftInv
  <2>7. LeftInv'
    BY <1>0, <1>c, <2>1, <2>5, <2>6 DEF LeftInv, K!Operands
  <2> QED
    BY <1>0, <1>c, <1>w, <2>3, <2>4, <2>7 DEF ForkInv
<1>3. CASE K!Exit(i) \/ K!Dies(i)
  <2>1. /\ \E s \in {"done", "dead"} : kPc' = [kPc EXCEPT ![i] = s]
        /\ UNCHANGED <<kLeft, kResult, kCpuset>>
    BY <1>3 DEF K!Exit, K!Dies
  <2>2. K!TypeOK' /\ LeftInv'
    BY <1>0, <1>c, <2>1 DEF K!TypeOK, K!Programs, K!Cores, LeftInv, K!Operands
  <2>3. \A j \in K!Tasks : kPc'[j] = "run" => kPc[j] = "run"
    BY <1>0, <2>1 DEF K!TypeOK
  <2> QED
    BY <1>0, <1>c, <1>w, <2>1, <2>2, <2>3 DEF ForkInv
<1> QED
  BY <1>1, <1>2, <1>3 DEF K!Task

LEMMA ForkStepInv == ForkInv /\ [K!Next]_kVars => ForkInv'
<1> SUFFICES ASSUME ForkInv, [K!Next]_kVars PROVE ForkInv'
  OBVIOUS
<1>1. CASE K!Main \/ K!CreateFails
  BY <1>1, ForkStepMain DEF K!Main
<1>2. CASE K!SomeTask \/ \E i \in K!Tasks : K!Dies(i)
  BY <1>2, ForkStepTask DEF K!SomeTask
<1>3. CASE UNCHANGED kVars
  <2>1. /\ UNCHANGED <<kProgram, kText, kMain, kNext, kRound, kPc, kLeft, kResult, kCpuset, kGot>>
        /\ K!NumTasks' = K!NumTasks /\ K!Tasks' = K!Tasks
        /\ \A r : K!IsResult(r)' = K!IsResult(r)
    BY <1>3, TasksConstant DEF kVars
  <2> QED
    BY <2>1 DEF ForkInv, K!TypeOK, LeftInv, WaitInv, K!Programs, K!Cores, K!Operands
<1> QED
  BY <1>1, <1>2, <1>3 DEF K!Next

-----------------------------------------------------------------------------
(* The results are those of the whole parts.                               *)

(* The tasks that have their parts in this round.                          *)
Created == {i \in K!Tasks : \/ kMain = "create" /\ i < kNext
                            \/ kMain \in {"join", "combine"}}

(* Where the tasks are when main is where it is.                           *)
PcInv ==
  /\ \A i \in K!Tasks : /\ kPc[i] = "dead" => kProgram = "federated"
                        /\ kPc[i] = "lost" => kProgram = "graph"
                        /\ i \in Created => kPc[i] # "new"
                        /\ kMain = "create" /\ i \notin Created => kPc[i] \in {"new", "done"}
                        /\ kMain = "join" /\ i < kNext => kPc[i] \in {"done", "lost"}
                        /\ kMain = "combine" => kPc[i] \in {"done", "lost"}
  /\ kMain = "combine" => kNext = 0
  /\ kMain = "failed" /\ kProgram = "graph" => \E i \in K!Tasks : kPc[i] = "lost"
  /\ kMain = "failed" /\ kProgram = "federated" => \E i \in K!Tasks : kPc[i] = "dead"
  /\ kMain = "failed" /\ kProgram = "words" => K!chunk_size = 0
  /\ kMain \in {"join", "combine", "done"} /\ kProgram = "words" => K!chunk_size # 0
  /\ kProgram = "words" => kText \in Seq(Alphabet)

(* A task has worked on the first items of its part and has the rest left. *)
Worked(s, rest, r) == \E n \in 0 .. Len(s) : /\ rest = SubSeq(s, n + 1, Len(s))
                                            /\ r = Value(SubSeq(s, 1, n))

(* What a task has found, in the order of its part.                        *)
WorkInv ==
  \A i \in Created : /\ kPc[i] = "ready" => kLeft[i] = K!Part(i)
                     /\ kPc[i] = "run" => Worked(K!Part(i), kLeft[i], kResult[i])
                     /\ kPc[i] = "done" => kResult[i] = Value(K!Part(i))

(* Main has got the values of the whole parts, in the order of the tasks.  *)
GotInv ==
  kMain \in {"join", "combine"} =>
    \A k \in 1 .. Len(kGot) : kPc[k - 1] # "lost" => kGot[k] = Value(K!Part(k - 1))

(* prime_affinity: a thread that runs, or has run, is on its own core.     *)
CoreInv ==
  kProgram = "affinity" => \A i \in K!Tasks \cap K!Cores :
    kResult[i] # None \/ kPc[i] = "run" => kCpuset[i] = {i}

(* What main has made of the results.                                      *)
TotalInv ==
  /\ kMain = "done" =>
       /\ K!Counts => kTotal = K!Cardinality(K!Primes)
       /\ kProgram = "graph" /\ (\A i \in K!Tasks : kPc[i] # "lost") => kTotal = 27
       /\ kProgram = "words" => kTotal = BagFrom(AllPieces, WordAt)
  /\ kProgram = "federated" /\ kRound > 0 => kTotal = ModelAt(kRound - 1)

ResultInv == PcInv /\ WorkInv /\ GotInv /\ CoreInv /\ TotalInv

(* Every part is a sequence of items.                                      *)
LEMMA PartSeq ==
  ASSUME ForkInv, PcInv, NEW i \in K!Tasks
  PROVE  \E E : K!Part(i) \in Seq(E)
<1>0. /\ kProgram \in K!Programs /\ Len(kText) \in Nat
      /\ i \in Nat /\ i < K!NumTasks /\ K!NumTasks \in Nat
  <2>1. kProgram \in K!Programs /\ Len(kText) \in Nat
    BY DEF ForkInv, K!TypeOK
  <2> QED
    BY <2>1, TasksFacts
<1>1. CASE K!Counts
  <2>1. K!Part(i) = [k \in 1 .. K!end(i) - K!start(i) + 1 |-> K!start(i) + k - 1]
    BY <1>1, KPart
  <2>2. i \in 0 .. MAX_THREAD - 1 /\ i \in 0 .. MAX_THREAD /\ i + 1 \in 0 .. MAX_THREAD
    BY <1>0, <1>1, KNumTasks, KSizes
  <2>3. PICK lo \in Nat, hi \in Nat : lo = PrimeCut[i] /\ hi = PrimeCut[i + 1] /\ lo <= hi
    BY <2>2, PrimeCuts DEF IsCut
  <2>4. K!start(i) = lo + 1 /\ K!end(i) = hi
    BY <2>2, <2>3, PrimeCuts
  <2>5. K!Part(i) = [k \in 1 .. hi - (lo + 1) + 1 |-> lo + 1 + k - 1]
    BY <2>1, <2>4
  <2>6. hi - (lo + 1) + 1 \in Nat /\ \A k \in 1 .. hi - (lo + 1) + 1 : lo + 1 + k - 1 \in Int
    BY <2>3
  <2>7. K!Part(i) \in Seq(Int)
    BY <2>5, <2>6
  <2> QED
    BY <2>7
<1>2. CASE kProgram = "graph"
  <2>1. K!Part(i) = << K!Operands[i + 1] >>
    BY <1>2, KPart
  <2>2. K!Part(i) \in Seq({K!Operands[i + 1]})
    BY <2>1
  <2> QED
    BY <2>2
<1>3. CASE kProgram = "words"
  <2> DEFINE s == K!chunk(i)
             n == Cardinality(K!Runs(s))
  <2>1. K!Part(i) = K!findall(s)
    BY <1>3, KPart
  <2>2. kText \in Seq(Alphabet) /\ K!chunk_size # 0
    <3>1. K!NumChunks # 0
      BY <1>0, <1>3, KNumTasks
    <3> QED
      BY <1>3, <3>1 DEF PcInv, K!NumChunks
  <2>3. i \in 0 .. K!NumChunks - 1
    BY <1>0, <1>3, KNumTasks
  <2>4. Len(s) \in Nat
    <3>1. s \in Seq(Alphabet)
      BY <2>2, <2>3, ChunkLetters
    <3> QED
      BY <3>1
  <2>5. PICK run : K!findall(s) = [k \in 1 .. n |-> SubSeq(s, run[k][1], run[k][2])]
    BY <2>4, FindallIs
  <2>6. n \in Nat
    BY <2>4, RunsStart, FS_CardinalityType
  <2> DEFINE E == {SubSeq(s, run[k][1], run[k][2]) : k \in 1 .. n}
  <2>7. K!findall(s) \in Seq(E)
    <3>1. \A k \in 1 .. n : SubSeq(s, run[k][1], run[k][2]) \in E
      OBVIOUS
    <3> HIDE DEF n, s, E
    <3>2. K!findall(s) \in [1 .. n -> E]
      BY <2>5, <3>1
    <3> QED
      BY <2>6, <3>2
  <2> QED
    BY <2>1, <2>7
<1>4. CASE kProgram = "federated"
  <2>1. kRound \in 0 .. num_rounds
    BY DEF ForkInv, K!TypeOK
  <2> QED
    BY <1>0, <1>4, <2>1, PartFits
<1> QED
  BY <1>0, <1>1, <1>2, <1>3, <1>4 DEF K!Programs, K!Counts

(* A part before the first item, after one item more, and after the last.  *)
LEMMA WorkedSteps ==
  ASSUME kProgram \in K!Programs, NEW E, NEW s \in Seq(E), NEW rest, NEW r
  PROVE  /\ Worked(s, s, K!Zero)
         /\ Worked(s, rest, r) /\ rest # <<>> => Worked(s, Tail(rest), K!Add(r, Head(rest)))
         /\ Worked(s, rest, r) /\ rest = <<>> => r = Value(s)
<1>0. PICK L \in Nat : L = Len(s)
  OBVIOUS
<1>1. Worked(s, s, K!Zero)
  <2>1. SubSeq(s, 1, L) = s /\ SubSeq(s, 1, 0) = <<>> /\ 0 \in 0 .. L /\ 0 + 1 = 1
    BY <1>0
  <2> QED
    BY <1>0, <2>1, ValueOfNone DEF Worked
<1>2. ASSUME Worked(s, rest, r), rest # <<>> PROVE Worked(s, Tail(rest), K!Add(r, Head(rest)))
  <2>1. PICK n \in 0 .. L : rest = SubSeq(s, n + 1, L) /\ r = Value(SubSeq(s, 1, n))
    BY <1>0, <1>2 DEF Worked
  <2>2. n \in Nat /\ n < L
    <3>1. n = L => SubSeq(s, n + 1, L) = <<>>
      BY <1>0
    <3> QED
      BY <1>2, <2>1, <3>1
  <2>3. Head(rest) = s[n + 1] /\ Tail(rest) = SubSeq(s, (n + 1) + 1, L)
    BY <1>0, <2>1, <2>2
  <2>4. SubSeq(s, 1, n) \in Seq(E) /\ SubSeq(s, 1, n + 1) = Append(SubSeq(s, 1, n), s[n + 1])
    BY <1>0, <2>2
  <2>5. Value(SubSeq(s, 1, n + 1)) = K!Add(r, Head(rest))
    BY <2>1, <2>3, <2>4, ValueOfMore
  <2>6. n + 1 \in 0 .. L
    BY <2>2
  <2> QED
    BY <1>0, <2>3, <2>5, <2>6 DEF Worked
<1>3. ASSUME Worked(s, rest, r), rest = <<>> PROVE r = Value(s)
  <2>1. PICK n \in 0 .. L : rest = SubSeq(s, n + 1, L) /\ r = Value(SubSeq(s, 1, n))
    BY <1>0, <1>3 DEF Worked
  <2>2. n = L
    <3>1. n < L => SubSeq(s, n + 1, L) # <<>>
      <4> SUFFICES ASSUME n < L PROVE Len(SubSeq(s, n + 1, L)) # 0
        OBVIOUS
      <4>1. \A k \in n + 1 .. L : s[k] \in E
        BY <1>0
      <4>2. Len(SubSeq(s, n + 1, L)) = L - (n + 1) + 1
        BY <1>0, <4>1, SubSeqProperties
      <4> QED
        BY <1>0, <4>2
    <3> QED
      BY <1>3, <2>1, <3>1
  <2>3. SubSeq(s, 1, L) = s
    BY <1>0
  <2> QED
    BY <2>1, <2>2, <2>3
<1> QED
  BY <1>1, <1>2, <1>3

(* The program and its text stay what they are, and so do the parts.       *)
LEMMA ResultsConstant ==
  ASSUME UNCHANGED <<kProgram, kText>>
  PROVE  /\ K!chunk_size' = K!chunk_size /\ AllPieces' = AllPieces /\ WordAt' = WordAt
         /\ K!Counts' = K!Counts /\ K!Cores' = K!Cores
         /\ \A s : Value(s)' = Value(s)
         /\ \A s, rest, r : Worked(s, rest, r)' <=> Worked(s, rest, r)
         /\ UNCHANGED kRound => \A i : K!Part(i)' = K!Part(i)
<1>1. K!chunk_size' = K!chunk_size /\ K!Counts' = K!Counts /\ K!Cores' = K!Cores
  BY DEF K!chunk_size, K!Counts, K!Cores
<1>2. \A i : K!chunk(i)' = K!chunk(i)
  BY DEF K!chunk, K!chunk_size
<1>3. AllPieces' = AllPieces /\ WordAt' = WordAt
  BY DEF AllPieces, Pieces, WordAt, ChunkCut, K!NumChunks, K!chunk_size, K!chunk
<1>4. \A s : Value(s)' = Value(s)
  BY DEF Value, K!Counts
<1>5. \A s, rest, r : Worked(s, rest, r)' <=> Worked(s, rest, r)
  BY DEF Worked, Value, K!Counts
<1>6. UNCHANGED kRound => \A i : K!Part(i)' = K!Part(i)
  BY DEF K!Part, K!Counts, K!chunk, K!chunk_size
<1> QED
  BY <1>1, <1>3, <1>4, <1>5, <1>6

LEMMA ResultInit == K!Init => ResultInv
<1> SUFFICES ASSUME K!Init PROVE ResultInv
  OBVIOUS
<1>1. /\ kProgram \in K!Programs /\ kMain = "create" /\ kNext = 0 /\ kRound = 0 /\ kGot = <<>>
      /\ kPc = [i \in K!Tasks |-> "new"] /\ kResult = [i \in K!Tasks |-> None]
  BY DEF K!Init
<1>2. kProgram = "words" => kText \in Seq(Alphabet)
  <2> SUFFICES ASSUME kProgram = "words" PROVE kText \in Seq(Alphabet)
    OBVIOUS
  <2>1. kText \in UNION {[1..n -> Alphabet] : n \in 0..TextLen}
    BY DEF K!Init
  <2>2. PICK n \in 0..TextLen : kText \in [1..n -> Alphabet]
    BY <2>1
  <2>3. n \in Nat
    BY KSizes
  <2> QED
    BY <2>2, <2>3
<1>3. Created = {}
  <2>1. Len(kText) \in Nat
    BY ForkInit DEF ForkInv
  <2>2. \A i \in K!Tasks : i \in Nat
    BY <1>1, <2>1, TasksFacts
  <2> QED
    BY <1>1, <2>2 DEF Created
<1>4. PcInv
  BY <1>1, <1>2, <1>3 DEF PcInv
<1>5. WorkInv /\ GotInv /\ CoreInv /\ TotalInv
  BY <1>1, <1>3 DEF WorkInv, GotInv, CoreInv, TotalInv
<1> QED
  BY <1>4, <1>5 DEF ResultInv

(* What the invariant of the types says, in the form the steps need.       *)
LEMMA ForkFacts ==
  ASSUME ForkInv
  PROVE  /\ kProgram \in K!Programs /\ Len(kText) \in Nat /\ K!NumTasks \in Nat
         /\ \A i \in K!Tasks : i \in Nat /\ i < K!NumTasks
         /\ \A i \in Nat : i < K!NumTasks => i \in K!Tasks
         /\ kNext \in Nat /\ kRound \in Nat
         /\ DOMAIN kPc = K!Tasks /\ DOMAIN kLeft = K!Tasks /\ DOMAIN kResult = K!Tasks
         /\ DOMAIN kCpuset = K!Tasks
         /\ \A i \in K!Tasks : kPc[i] \in {"new", "ready", "run", "done", "lost", "dead"}
<1>1. kProgram \in K!Programs /\ Len(kText) \in Nat
  BY DEF ForkInv, K!TypeOK
<1>2. K!NumTasks \in Nat /\ \A i \in K!Tasks : i \in Nat /\ i < K!NumTasks
  BY <1>1, TasksFacts
<1>3. \A i \in Nat : i < K!NumTasks => i \in K!Tasks
  BY <1>2 DEF K!Tasks
<1>4. /\ kPc \in [K!Tasks -> {"new", "ready", "run", "done", "lost", "dead"}]
      /\ kCpuset \in [K!Tasks -> SUBSET K!Cores]
      /\ kNext \in K!Tasks \cup {0} /\ kRound \in 0 .. num_rounds
      /\ DOMAIN kLeft = K!Tasks /\ DOMAIN kResult = K!Tasks
  BY DEF ForkInv, K!TypeOK
<1> QED
  BY <1>1, <1>2, <1>3, <1>4

(* The steps of a task.                                                    *)
LEMMA ResultStepTask ==
  ASSUME ForkInv, ResultInv, NEW i \in K!Tasks, K!Task(i) \/ K!Dies(i)
  PROVE  ResultInv'
<1>0. /\ kProgram \in K!Programs
      /\ DOMAIN kPc = K!Tasks /\ DOMAIN kLeft = K!Tasks /\ DOMAIN kResult = K!Tasks
      /\ DOMAIN kCpuset = K!Tasks /\ i \in Nat
      /\ \A j \in K!Tasks : j \in Nat
  BY ForkFacts
<1>i. PcInv /\ WorkInv /\ GotInv /\ CoreInv /\ TotalInv
  BY DEF ResultInv
<1>u. UNCHANGED <<kProgram, kText, kMain, kNext, kRound, kGot, kTotal>>
  BY DEF K!Task, K!Dies, K!Start, K!Work, K!Exit
<1>c. /\ K!Tasks' = K!Tasks /\ Created' = Created
      /\ K!chunk_size' = K!chunk_size /\ AllPieces' = AllPieces /\ WordAt' = WordAt
      /\ K!Counts' = K!Counts /\ K!Cores' = K!Cores
      /\ \A s : Value(s)' = Value(s)
      /\ \A s, rest, r : Worked(s, rest, r)' <=> Worked(s, rest, r)
      /\ \A j : K!Part(j)' = K!Part(j)
  <2>1. K!Tasks' = K!Tasks
    BY <1>u, TasksConstant
  <2>2. Created' = Created
    BY <1>u, <2>1 DEF Created
  <2> QED
    BY <1>u, <2>1, <2>2, ResultsConstant
<1>s. \/ kPc[i] = "ready" /\ kPc' = [kPc EXCEPT ![i] = "run"] /\ kMain # "failed"
      \/ kPc[i] = "run" /\ kPc' = kPc /\ kMain \in {"create", "join", "combine"}
      \/ kPc[i] = "run" /\ kPc' = [kPc EXCEPT ![i] = "done"] /\ kMain \in {"create", "join", "combine"}
      \/ /\ kPc[i] = "run" /\ kPc' = [kPc EXCEPT ![i] = "dead"] /\ kProgram = "federated"
         /\ kMain \in {"create", "join", "combine"}
  BY DEF K!Task, K!Dies, K!Start, K!Work, K!Exit, K!Running
<1>1. PcInv'
  <2>1. \A j \in K!Tasks : /\ kPc'[j] = "dead" => kProgram = "federated"
                           /\ kPc'[j] = "lost" <=> kPc[j] = "lost"
                           /\ kPc[j] = "done" => kPc'[j] = "done"
                           /\ kPc[j] = "new" <=> kPc'[j] = "new"
                           /\ kPc[j] \in {"new", "done", "lost"} => kPc'[j] = kPc[j]
    BY <1>0, <1>i, <1>s DEF PcInv
  <2>2. kMain # "failed"
    BY <1>s
  <2>3. \A j \in K!Tasks :
          /\ kPc'[j] = "dead" => kProgram = "federated"
          /\ kPc'[j] = "lost" => kProgram = "graph"
          /\ j \in Created => kPc'[j] # "new"
          /\ kMain = "create" /\ j \notin Created => kPc'[j] \in {"new", "done"}
          /\ kMain = "join" /\ j < kNext => kPc'[j] \in {"done", "lost"}
          /\ kMain = "combine" => kPc'[j] \in {"done", "lost"}
    BY <1>i, <2>1 DEF PcInv
  <2> QED
    BY <1>c, <1>i, <1>u, <2>2, <2>3 DEF PcInv
<1>w. ASSUME i \in Created, kPc[i] = "run"
      PROVE  \E E : K!Part(i) \in Seq(E) /\ Worked(K!Part(i), kLeft[i], kResult[i])
  BY <1>i, <1>w, PartSeq DEF WorkInv
<1>r. kMain \in {"create", "join", "combine"} /\ kPc[i] \notin {"new", "done"} => i \in Created
  BY <1>i DEF PcInv, Created
<1>2. WorkInv'
  <2> SUFFICES ASSUME NEW j \in Created
               PROVE  /\ kPc'[j] = "ready" => kLeft'[j] = K!Part(j)
                      /\ kPc'[j] = "run" => Worked(K!Part(j), kLeft'[j], kResult'[j])
                      /\ kPc'[j] = "done" => kResult'[j] = Value(K!Part(j))
    BY <1>c DEF WorkInv
  <2>0. j \in K!Tasks /\ kMain \in {"create", "join", "combine"}
    BY DEF Created
  <2>1. CASE j # i
    <3>1. kPc'[j] = kPc[j] /\ kLeft'[j] = kLeft[j] /\ kResult'[j] = kResult[j]
      BY <1>0, <2>0, <2>1 DEF K!Task, K!Dies, K!Start, K!Work, K!Exit
    <3> QED
      BY <1>i, <3>1 DEF WorkInv
  <2>2. CASE j = i /\ K!Start(i)
    <3>1. /\ kPc[i] = "ready" /\ kPc'[i] = "run" /\ kResult'[i] = K!Zero /\ kLeft'[i] = kLeft[i]
      BY <1>0, <2>2 DEF K!Start
    <3>2. kLeft[i] = K!Part(i)
      BY <1>i, <2>2, <3>1 DEF WorkInv
    <3>3. PICK E : K!Part(i) \in Seq(E)
      BY <1>i, PartSeq
    <3>4. PICK s \in Seq(E) : s = K!Part(i)
      BY <3>3
    <3>5. Worked(s, s, K!Zero)
      BY <1>0, WorkedSteps
    <3> QED
      BY <2>2, <3>1, <3>2, <3>4, <3>5
  <2>3. CASE j = i /\ K!Work(i)
    <3>1. /\ kPc[i] = "run" /\ kPc'[i] = "run" /\ kLeft[i] # <<>>
          /\ kResult'[i] = K!Add(kResult[i], Head(kLeft[i])) /\ kLeft'[i] = Tail(kLeft[i])
      BY <1>0, <2>3 DEF K!Work, K!Running
    <3>2. PICK E : K!Part(i) \in Seq(E) /\ Worked(K!Part(i), kLeft[i], kResult[i])
      BY <1>w, <2>3, <3>1
    <3>3. PICK s \in Seq(E) : s = K!Part(i)
      BY <3>2
    <3>4. Worked(s, Tail(kLeft[i]), K!Add(kResult[i], Head(kLeft[i])))
      BY <1>0, <3>1, <3>2, <3>3, WorkedSteps
    <3> QED
      BY <2>3, <3>1, <3>3, <3>4
  <2>4. CASE j = i /\ K!Exit(i)
    <3>1. /\ kPc[i] = "run" /\ kPc'[i] = "done" /\ kLeft[i] = <<>> /\ kResult'[i] = kResult[i]
      BY <1>0, <2>4 DEF K!Exit, K!Running
    <3>2. PICK E : K!Part(i) \in Seq(E) /\ Worked(K!Part(i), kLeft[i], kResult[i])
      BY <1>w, <2>4, <3>1
    <3>3. PICK s \in Seq(E) : s = K!Part(i)
      BY <3>2
    <3>4. kResult[i] = Value(s)
      BY <1>0, <3>1, <3>2, <3>3, WorkedSteps
    <3> QED
      BY <2>4, <3>1, <3>3, <3>4
  <2>5. CASE j = i /\ K!Dies(i)
    <3>1. kPc'[i] = "dead"
      BY <1>0, <2>5 DEF K!Dies
    <3> QED
      BY <2>5, <3>1
  <2> QED
    BY <2>1, <2>2, <2>3, <2>4, <2>5 DEF K!Task
<1>3. GotInv'
  <2> SUFFICES ASSUME kMain \in {"join", "combine"}, NEW k \in 1 .. Len(kGot), kPc'[k - 1] # "lost"
               PROVE  kGot[k] = Value(K!Part(k - 1))
    BY <1>c, <1>u DEF GotInv
  <2>1. k - 1 \in K!Tasks
    <3>1. Len(kGot) \in Nat /\ Len(kGot) <= K!NumTasks /\ K!NumTasks \in Nat
      BY ForkFacts DEF ForkInv, WaitInv, K!TypeOK
    <3>2. k - 1 \in Nat /\ k - 1 < K!NumTasks
      BY <3>1
    <3> QED
      BY <3>2, ForkFacts
  <2>2. \A j \in K!Tasks : kPc[j] = "lost" => kPc'[j] = "lost"
    BY <1>0, <1>s
  <2>3. kPc[k - 1] # "lost"
    BY <2>1, <2>2
  <2> QED
    BY <1>i, <2>3 DEF GotInv
<1>4. CoreInv'
  <2> SUFFICES ASSUME kProgram = "affinity", NEW j \in K!Tasks \cap K!Cores,
                      kResult'[j] # None \/ kPc'[j] = "run"
               PROVE  kCpuset'[j] = {j}
    BY <1>c, <1>u DEF CoreInv
  <2>1. CASE j # i
    <3>1. kPc'[j] = kPc[j] /\ kResult'[j] = kResult[j] /\ kCpuset'[j] = kCpuset[j]
      BY <1>0, <2>1 DEF K!Task, K!Dies, K!Start, K!Work, K!Exit
    <3> QED
      BY <1>i, <3>1 DEF CoreInv
  <2>2. CASE j = i /\ K!Start(i)
    BY <1>0, <2>2 DEF K!Start
  <2>3. CASE j = i /\ ~K!Start(i)
    <3>1. kPc[i] = "run" /\ kCpuset' = kCpuset
      BY <2>3 DEF K!Task, K!Dies, K!Work, K!Exit, K!Running
    <3> QED
      BY <1>i, <2>3, <3>1 DEF CoreInv
  <2> QED
    BY <2>1, <2>2, <2>3
<1>5. TotalInv'
  <2>1. \A j \in K!Tasks : kPc[j] = "lost" => kPc'[j] = "lost"
    BY <1>0, <1>s
  <2>2. kMain' = kMain /\ kTotal' = kTotal /\ kRound' = kRound /\ kProgram' = kProgram
    BY <1>u
  <2>3. K!Cardinality(K!Primes)' = K!Cardinality(K!Primes) /\ \A r : ModelAt(r)' = ModelAt(r)
    BY DEF K!Primes, ModelAt
  <2>4. BagFrom(AllPieces, WordAt)' = BagFrom(AllPieces, WordAt)
    BY <1>c DEF BagFrom
  <2>5. ModelAt(kRound - 1)' = ModelAt(kRound - 1)
    BY <1>u DEF ModelAt
  <2> QED
    BY <1>c, <1>i, <2>1, <2>2, <2>3, <2>4, <2>5 DEF TotalInv
<1> QED
  BY <1>1, <1>2, <1>3, <1>4, <1>5 DEF ResultInv

(* The steps of main before the results are combined.                      *)
LEMMA ResultStepMain ==
  ASSUME ForkInv, ForkInv', ResultInv,
         K!Create \/ K!RangeFails \/ K!CreateFails \/ K!Join \/ K!JoinFails
  PROVE  ResultInv'
<1>0. /\ kProgram \in K!Programs /\ kNext \in Nat /\ K!NumTasks \in Nat
      /\ DOMAIN kPc = K!Tasks /\ DOMAIN kLeft = K!Tasks
      /\ \A i \in K!Tasks : i \in Nat /\ i < K!NumTasks
      /\ \A i \in Nat : i < K!NumTasks => i \in K!Tasks
      /\ \A i \in K!Tasks : kPc[i] \in {"new", "ready", "run", "done", "lost", "dead"}
  BY ForkFacts
<1>i. PcInv /\ WorkInv /\ GotInv /\ CoreInv /\ TotalInv
  BY DEF ResultInv
<1>u. UNCHANGED <<kProgram, kText, kRound, kResult, kCpuset, kTotal>>
  BY DEF K!Create, K!RangeFails, K!CreateFails, K!Join, K!JoinFails, K!Stop
<1>c. /\ K!Tasks' = K!Tasks
      /\ K!chunk_size' = K!chunk_size /\ AllPieces' = AllPieces /\ WordAt' = WordAt
      /\ K!Counts' = K!Counts /\ K!Cores' = K!Cores
      /\ \A s : Value(s)' = Value(s)
      /\ \A s, rest, r : Worked(s, rest, r)' <=> Worked(s, rest, r)
      /\ \A j : K!Part(j)' = K!Part(j)
  BY <1>u, TasksConstant, ResultsConstant
<1>t. kMain' # "done" => TotalInv'
  <2>1. ModelAt(kRound - 1)' = ModelAt(kRound - 1)
    BY <1>u DEF ModelAt
  <2> QED
    BY <1>i, <1>u, <2>1 DEF TotalInv
<1>on. ASSUME NEW then, kNext \in K!Tasks, K!Onward(then)
       PROVE  \/ kMain' = kMain /\ kNext' = kNext + 1
              \/ kMain' = then /\ kNext' = 0 /\ \A i \in K!Tasks : i < kNext + 1
  BY <1>0, <1>on DEF K!Onward
<1>1. CASE K!Create
  <2>1. /\ kMain = "create" /\ kNext \in K!Tasks /\ K!Onward("join")
        /\ kLeft' = [kLeft EXCEPT ![kNext] = K!Part(kNext)] /\ kGot' = kGot
    BY <1>1 DEF K!Create
  <2>2. PICK s \in {"ready", "lost"} : /\ kPc' = [kPc EXCEPT ![kNext] = s]
                                       /\ s = "lost" => kProgram = "graph"
    BY <1>1 DEF K!Create
  <2>3. /\ kMain' \in {"create", "join"}
        /\ \A i \in K!Tasks : i < kNext + 1 <=> i < kNext \/ i = kNext
        /\ kMain' = "create" => kNext' = kNext + 1
        /\ kMain' = "join" => kNext' = 0 /\ \A i \in K!Tasks : i < kNext + 1
    <3>1. \/ kMain' = kMain /\ kNext' = kNext + 1
          \/ kMain' = "join" /\ kNext' = 0 /\ \A i \in K!Tasks : i < kNext + 1
      BY <1>on, <2>1
    <3>2. \A i \in K!Tasks : i < kNext + 1 <=> i < kNext \/ i = kNext
      BY <1>0
    <3> QED
      BY <2>1, <3>1, <3>2
  <2>4. Created' = Created \cup {kNext} /\ kNext \notin Created
    <3>1. Created = {i \in K!Tasks : i < kNext}
      BY <2>1 DEF Created
    <3>2. Created' = {i \in K!Tasks : i < kNext \/ i = kNext}
      BY <1>c, <2>3 DEF Created
    <3> QED
      BY <1>0, <2>1, <3>1, <3>2
  <2>5. /\ kPc'[kNext] = s /\ kLeft'[kNext] = K!Part(kNext)
        /\ \A i \in K!Tasks : i # kNext => kPc'[i] = kPc[i] /\ kLeft'[i] = kLeft[i]
    <3>1. /\ DOMAIN kPc = K!Tasks /\ DOMAIN kLeft = K!Tasks /\ kNext \in K!Tasks
          /\ kPc' = [kPc EXCEPT ![kNext] = s] /\ kLeft' = [kLeft EXCEPT ![kNext] = K!Part(kNext)]
      BY <1>0, <2>1, <2>2
    <3> QED
      BY <3>1
  <2>6. PcInv'
    <3>1. \A i \in K!Tasks : /\ kPc'[i] = "dead" => kProgram = "federated"
                             /\ kPc'[i] = "lost" => kProgram = "graph"
                             /\ i \in Created' => kPc'[i] # "new"
                             /\ i \notin Created' => kPc'[i] \in {"new", "done"}
      <4> SUFFICES ASSUME NEW i \in K!Tasks
                   PROVE  /\ kPc'[i] = "dead" => kProgram = "federated"
                          /\ kPc'[i] = "lost" => kProgram = "graph"
                          /\ i \in Created' => kPc'[i] # "new"
                          /\ i \notin Created' => kPc'[i] \in {"new", "done"}
        OBVIOUS
      <4>1. CASE i = kNext
        BY <2>2, <2>4, <2>5, <4>1
      <4>2. CASE i # kNext
        <5>1. kPc'[i] = kPc[i] /\ (i \in Created' <=> i \in Created)
          BY <2>4, <2>5, <4>2
        <5> QED
          BY <1>i, <2>1, <5>1 DEF PcInv
      <4> QED
        BY <4>1, <4>2
    <3>2. kMain' = "join" /\ kProgram = "words" => K!chunk_size # 0
      <4> SUFFICES ASSUME kProgram = "words", K!chunk_size = 0 PROVE FALSE
        OBVIOUS
      <4>1. K!NumTasks = 0
        BY KNumTasks DEF K!NumChunks
      <4> QED
        BY <1>0, <2>1, <4>1
    <3>3. kMain' = "join" => kNext' = 0
      BY <2>3
    <3>4. \A i \in K!Tasks : kMain' = "join" => ~(i < kNext')
      BY <1>0, <3>3
    <3> QED
      BY <1>c, <1>i, <1>u, <2>3, <3>1, <3>2, <3>3, <3>4 DEF PcInv
  <2>7. WorkInv'
    <3> SUFFICES ASSUME NEW i \in Created'
                 PROVE  /\ kPc'[i] = "ready" => kLeft'[i] = K!Part(i)
                        /\ kPc'[i] = "run" => Worked(K!Part(i), kLeft'[i], kResult[i])
                        /\ kPc'[i] = "done" => kResult[i] = Value(K!Part(i))
      BY <1>c, <1>u DEF WorkInv
    <3>1. CASE i = kNext
      BY <2>2, <2>5, <3>1
    <3>2. CASE i # kNext
      <4>1. i \in Created /\ i \in K!Tasks
        BY <2>4, <3>2 DEF Created
      <4>2. kPc'[i] = kPc[i] /\ kLeft'[i] = kLeft[i]
        BY <2>5, <3>2, <4>1
      <4> QED
        BY <1>i, <4>1, <4>2 DEF WorkInv
    <3> QED
      BY <3>1, <3>2
  <2>8. GotInv'
    <3>1. kGot = <<>>
      BY <2>1 DEF ForkInv, WaitInv
    <3> QED
      BY <2>1, <3>1 DEF GotInv
  <2>9. CoreInv'
    <3>1. \A i \in K!Tasks : kPc'[i] = "run" => kPc[i] = "run"
      BY <2>2, <2>5
    <3> QED
      BY <1>c, <1>i, <1>u, <3>1 DEF CoreInv
  <2> QED
    BY <1>t, <2>3, <2>6, <2>7, <2>8, <2>9 DEF ResultInv
<1>2. CASE K!RangeFails \/ K!CreateFails \/ K!JoinFails
  <2>1. kMain' = "failed" /\ kPc' = kPc
    BY <1>2 DEF K!RangeFails, K!CreateFails, K!JoinFails, K!Stop
  <2>2. PcInv'
    <3>1. kProgram \in {"graph", "federated"} => K!JoinFails
      BY <1>2 DEF K!RangeFails, K!CreateFails, K!Counts
    <3>2. K!JoinFails => kNext \in K!Tasks /\ kPc[kNext] \in {"lost", "dead"}
      BY DEF K!JoinFails, ForkInv, WaitInv
    <3>3. kProgram = "graph" => \E i \in K!Tasks : kPc[i] = "lost"
      BY <1>i, <3>1, <3>2 DEF PcInv
    <3>4. kProgram = "federated" => \E i \in K!Tasks : kPc[i] = "dead"
      BY <1>i, <3>1, <3>2 DEF PcInv
    <3>5. kProgram = "words" => K!chunk_size = 0
      <4>1. kProgram = "words" => ~K!CreateFails /\ ~K!JoinFails
        BY <1>i, <3>2 DEF K!CreateFails, K!Counts, PcInv
      <4> QED
        BY <1>2, <4>1 DEF K!RangeFails
    <3>6. \A i \in K!Tasks : /\ kPc'[i] = "dead" => kProgram = "federated"
                             /\ kPc'[i] = "lost" => kProgram = "graph"
      BY <1>i, <2>1 DEF PcInv
    <3>7. Created' = {}
      BY <2>1 DEF Created
    <3>8. kText' = kText /\ kProgram' = kProgram /\ (kProgram = "words" => kText \in Seq(Alphabet))
      BY <1>i, <1>u DEF PcInv
    <3> QED
      BY <1>c, <2>1, <3>3, <3>4, <3>5, <3>6, <3>7, <3>8 DEF PcInv
  <2>3. Created' = {}
    BY <2>1 DEF Created
  <2>4. WorkInv' /\ GotInv'
    BY <2>1, <2>3 DEF WorkInv, GotInv
  <2>5. CoreInv'
    BY <1>c, <1>i, <1>u, <2>1 DEF CoreInv
  <2> QED
    BY <1>t, <2>1, <2>2, <2>4, <2>5 DEF ResultInv
<1>3. CASE K!Join
  <2>1. /\ kMain = "join" /\ kPc[kNext] \in {"done", "lost"} /\ K!Onward("combine")
        /\ kPc' = kPc /\ kLeft' = kLeft
        /\ \E r : kGot' = Append(kGot, r) /\ (kPc[kNext] # "lost" => r = kResult[kNext])
    BY <1>3 DEF K!Join
  <2>2. kNext \in K!Tasks /\ Len(kGot) = kNext
    BY <2>1 DEF ForkInv, WaitInv
  <2>3. \/ kMain' = "join" /\ kNext' = kNext + 1
        \/ kMain' = "combine" /\ kNext' = 0 /\ \A i \in K!Tasks : i < kNext + 1
    BY <1>on, <2>1, <2>2
  <2>4. Created = K!Tasks /\ Created' = K!Tasks
    BY <1>c, <2>1, <2>3 DEF Created
  <2>5. PcInv'
    <3>1. \A i \in K!Tasks : i < kNext + 1 => kPc[i] \in {"done", "lost"}
      <4>1. \A i \in K!Tasks : i < kNext + 1 <=> i < kNext \/ i = kNext
        BY <1>0
      <4> QED
        BY <1>i, <2>1, <4>1 DEF PcInv
    <3>2. \A i \in K!Tasks : /\ kMain' = "join" /\ i < kNext' => kPc[i] \in {"done", "lost"}
                             /\ kMain' = "combine" => kPc[i] \in {"done", "lost"}
      BY <2>3, <3>1
    <3>3. kProgram = "words" => K!chunk_size # 0
      BY <1>i, <2>1 DEF PcInv
    <3>4. kMain' = "combine" => kNext' = 0
      BY <2>3
    <3>5. kMain' \in {"join", "combine"}
      BY <2>3
    <3> QED
      BY <1>c, <1>i, <1>u, <2>1, <2>4, <3>2, <3>3, <3>4, <3>5 DEF PcInv
  <2>6. WorkInv'
    BY <1>c, <1>i, <1>u, <2>1, <2>4 DEF WorkInv
  <2>7. GotInv'
    <3> SUFFICES ASSUME NEW k \in 1 .. Len(kGot'), kPc[k - 1] # "lost"
                 PROVE  kGot'[k] = Value(K!Part(k - 1))
      BY <1>c, <2>1 DEF GotInv
    <3>1. PICK E : kGot \in Seq(E)
      BY DEF ForkInv, WaitInv
    <3>2. PICK r : kGot' = Append(kGot, r) /\ (kPc[kNext] # "lost" => r = kResult[kNext])
      BY <2>1
    <3>3. /\ Len(kGot') = kNext + 1 /\ kGot'[kNext + 1] = r
          /\ \A m \in 1 .. kNext : kGot'[m] = kGot[m]
      BY <2>2, <3>1, <3>2
    <3>4. CASE k = kNext + 1
      <4>1. k - 1 = kNext
        BY <1>0, <3>4
      <4>2. kResult[kNext] = Value(K!Part(kNext))
        BY <1>i, <2>1, <2>2, <2>4, <4>1 DEF WorkInv
      <4> QED
        BY <3>2, <3>3, <3>4, <4>1, <4>2
    <3>5. CASE k # kNext + 1
      <4>1. k \in 1 .. kNext
        BY <1>0, <3>3, <3>5
      <4>2. kGot[k] = Value(K!Part(k - 1))
        BY <1>i, <2>1, <2>2, <4>1 DEF GotInv
      <4> QED
        BY <3>3, <4>1, <4>2
    <3> QED
      BY <3>4, <3>5
  <2>8. CoreInv'
    BY <1>c, <1>i, <1>u, <2>1 DEF CoreInv
  <2> QED
    BY <1>t, <2>3, <2>5, <2>6, <2>7, <2>8 DEF ResultInv
<1> QED
  BY <1>1, <1>2, <1>3

(* Main combines the results of all the parts.                             *)
LEMMA ResultStepCombine ==
  ASSUME ForkInv, ResultInv, K!Combine
  PROVE  ResultInv'
<1>0. /\ kProgram \in K!Programs /\ kRound \in Nat /\ K!NumTasks \in Nat
      /\ \A i \in K!Tasks : i \in Nat /\ i < K!NumTasks
      /\ \A i \in Nat : i < K!NumTasks => i \in K!Tasks
  BY ForkFacts
<1>i. PcInv /\ WorkInv /\ GotInv /\ CoreInv /\ TotalInv
  BY DEF ResultInv
<1>u. /\ UNCHANGED <<kProgram, kText, kNext, kPc, kLeft, kResult, kCpuset>>
      /\ kMain = "combine" /\ kTotal' = K!Combined(kGot) /\ kGot' = <<>> /\ kRound' = kRound + 1
      /\ kMain' \in {"create", "done"} /\ (kMain' = "create" => kProgram = "federated")
  BY DEF K!Combine
<1>c. /\ K!Tasks' = K!Tasks /\ K!Cores' = K!Cores
      /\ K!chunk_size' = K!chunk_size /\ AllPieces' = AllPieces /\ WordAt' = WordAt
      /\ K!Counts' = K!Counts
  BY <1>u, TasksConstant, ResultsConstant
<1>1. Created' = {}
  <2>1. kNext = 0 /\ kNext' = 0
    BY <1>i, <1>u DEF PcInv
  <2>2. \A i \in K!Tasks : ~(i < 0)
    BY <1>0
  <2> QED
    BY <1>c, <1>u, <2>1, <2>2 DEF Created
<1>2. PcInv'
  <2>1. \A i \in K!Tasks : /\ kPc[i] \in {"done", "lost"}
                           /\ kPc[i] = "lost" => kProgram = "graph"
    BY <1>i, <1>u DEF PcInv
  <2>2. kMain' = "create" => \A i \in K!Tasks : kPc[i] = "done"
    BY <1>u, <2>1
  <2>3. kProgram = "words" => K!chunk_size # 0 /\ kText \in Seq(Alphabet)
    BY <1>i, <1>u DEF PcInv
  <2> QED
    BY <1>1, <1>c, <1>u, <2>1, <2>2, <2>3 DEF PcInv
<1>3. WorkInv' /\ GotInv'
  BY <1>1, <1>u DEF WorkInv, GotInv
<1>4. CoreInv'
  BY <1>c, <1>i, <1>u DEF CoreInv
<1>g. /\ \E E : kGot \in Seq(E)
      /\ Len(kGot) = K!NumTasks
      /\ \A k \in 1 .. K!NumTasks : k - 1 \in K!Tasks
      /\ \A k \in 1 .. K!NumTasks : kPc[k - 1] # "lost" => kGot[k] = Value(K!Part(k - 1))
  <2>1. Len(kGot) = K!NumTasks /\ \E E : kGot \in Seq(E)
    BY <1>u DEF ForkInv, WaitInv
  <2>2. \A k \in 1 .. K!NumTasks : k - 1 \in K!Tasks
    <3> SUFFICES ASSUME NEW k \in 1 .. K!NumTasks PROVE k - 1 \in K!Tasks
      OBVIOUS
    <3>1. k - 1 \in Nat /\ k - 1 < K!NumTasks
      BY <1>0
    <3> QED
      BY <1>0, <3>1
  <2> QED
    BY <1>i, <1>u, <2>1, <2>2 DEF GotInv
<1>p. kProgram # "graph" => \A k \in 1 .. K!NumTasks : kGot[k] = Value(K!Part(k - 1))
  BY <1>g, <1>i DEF PcInv
<1>5. TotalInv'
  <2>1. K!Counts => kTotal' = K!Cardinality(K!Primes)
    <3> SUFFICES ASSUME K!Counts PROVE K!Combined(kGot) = K!Cardinality(K!Primes)
      BY <1>u
    <3>1. K!NumTasks = MAX_THREAD /\ kProgram # "graph"
      BY KNumTasks DEF K!Counts
    <3>2. \A k \in 1 .. MAX_THREAD : kGot[k] = CountOf(K!Part(k - 1))
      BY <1>p, <3>1 DEF Value
    <3> QED
      BY <1>g, <3>1, <3>2, CountsTotal
  <2>2. kProgram = "graph" /\ (\A i \in K!Tasks : kPc[i] # "lost") => kTotal' = 27
    <3> SUFFICES ASSUME kProgram = "graph", \A i \in K!Tasks : kPc[i] # "lost"
                 PROVE  K!Combined(kGot) = 27
      BY <1>u
    <3>1. K!NumTasks = 3
      BY KNumTasks, KCompute
    <3>2. \A k \in 1 .. 3 : kGot[k] = OutcomeOf(K!Part(k - 1))
      BY <1>g, <3>1 DEF Value, K!Counts
    <3> QED
      BY <3>2, GraphTotal
  <2>3. kProgram = "words" => kTotal' = BagFrom(AllPieces, WordAt)
    <3> SUFFICES ASSUME kProgram = "words" PROVE K!Combined(kGot) = BagFrom(AllPieces, WordAt)
      BY <1>u
    <3>1. K!NumTasks = K!NumChunks /\ kText \in Seq(Alphabet) /\ K!chunk_size # 0
      BY <1>i, <1>u, KNumTasks DEF PcInv
    <3>2. \A k \in 1 .. K!NumChunks : kGot[k] = BagOf(K!Part(k - 1))
      BY <1>p, <3>1 DEF Value, K!Counts
    <3> QED
      BY <1>g, <3>1, <3>2, WordsTotal
  <2>4. kProgram = "federated" => kTotal' = ModelAt(kRound)
    <3> SUFFICES ASSUME kProgram = "federated" PROVE K!Combined(kGot) = ModelAt(kRound)
      BY <1>u
    <3>1. K!NumTasks = num_workers
      BY KNumTasks
    <3>2. \A k \in 1 .. num_workers : kGot[k] = ModelOf(K!Part(k - 1))
      BY <1>p, <3>1 DEF Value, K!Counts
    <3> QED
      BY <1>g, <3>1, <3>2, FederatedTotal
  <2>5. ModelAt(kRound - 1)' = ModelAt(kRound)
    <3>1. (kRound + 1) - 1 = kRound
      BY <1>0
    <3>2. ModelAt(kRound - 1)' = ModelAt((kRound + 1) - 1)
      BY <1>u DEF ModelAt
    <3> QED
      BY <3>1, <3>2
  <2>6. (K!Cardinality(K!Primes))' = K!Cardinality(K!Primes)
    BY DEF K!Primes
  <2>7. BagFrom(AllPieces, WordAt)' = BagFrom(AllPieces, WordAt)
    BY <1>c DEF BagFrom, Bearers
  <2> QED
    BY <1>c, <1>u, <2>1, <2>2, <2>3, <2>4, <2>5, <2>6, <2>7 DEF TotalInv
<1> QED
  BY <1>2, <1>3, <1>4, <1>5 DEF ResultInv

LEMMA ResultStepInv == ForkInv /\ ForkInv' /\ ResultInv /\ [K!Next]_kVars => ResultInv'
<1> SUFFICES ASSUME ForkInv, ForkInv', ResultInv, [K!Next]_kVars PROVE ResultInv'
  OBVIOUS
<1>1. CASE K!Main \/ K!CreateFails
  BY <1>1, ResultStepMain, ResultStepCombine DEF K!Main
<1>2. CASE K!SomeTask \/ \E i \in K!Tasks : K!Dies(i)
  BY <1>2, ResultStepTask DEF K!SomeTask
<1>3. CASE UNCHANGED kVars
  <2>1. UNCHANGED <<kProgram, kText, kMain, kNext, kRound, kPc, kLeft, kResult, kCpuset, kGot, kTotal>>
    BY <1>3 DEF kVars
  <2>2. /\ K!Tasks' = K!Tasks
        /\ K!chunk_size' = K!chunk_size /\ AllPieces' = AllPieces /\ WordAt' = WordAt
        /\ K!Counts' = K!Counts /\ K!Cores' = K!Cores
        /\ \A s : Value(s)' = Value(s)
        /\ \A s, rest, r : Worked(s, rest, r)' <=> Worked(s, rest, r)
        /\ \A i : K!Part(i)' = K!Part(i)
    BY <2>1, TasksConstant, ResultsConstant
  <2>3. Created' = Created
    BY <2>1, <2>2 DEF Created
  <2>4. PcInv' /\ WorkInv' /\ GotInv' /\ CoreInv'
    BY <2>1, <2>2, <2>3 DEF ResultInv, PcInv, WorkInv, GotInv, CoreInv
  <2>5. ModelAt(kRound - 1)' = ModelAt(kRound - 1)
    BY <2>1 DEF ModelAt
  <2>6. TotalInv'
    BY <2>1, <2>2, <2>5 DEF ResultInv, TotalInv
  <2> QED
    BY <2>4, <2>6 DEF ResultInv
<1> QED
  BY <1>1, <1>2, <1>3 DEF K!Next

(* The results of the whole parts are the right ones.                      *)
LEMMA ResultIsRight == ForkInv /\ ResultInv => K!ResultRight
<1> SUFFICES ASSUME ForkInv, ResultInv PROVE K!ResultRight
  OBVIOUS
<1>i. PcInv /\ WorkInv /\ GotInv /\ CoreInv /\ TotalInv
  BY DEF ResultInv
<1>1. K!PrimesRight
  <2>1. K!Counts /\ kMain = "done" => kTotal = K!Cardinality(K!Primes)
    BY <1>i DEF TotalInv
  <2>2. ASSUME NEW i \in K!Tasks \cap K!Cores, NEW j \in K!Tasks \cap K!Cores,
               kProgram = "affinity", i # j, kResult[i] # None, kResult[j] # None
        PROVE  kCpuset[i] \cap kCpuset[j] = {}
    <3>1. kCpuset[i] = {i} /\ kCpuset[j] = {j}
      BY <1>i, <2>2 DEF CoreInv
    <3> QED
      BY <2>2, <3>1
  <2> QED
    BY <2>1, <2>2 DEF K!PrimesRight
<1>2. K!GraphRight
  BY <1>i DEF K!GraphRight, TotalInv, PcInv
<1>3. K!WordsRight
  <2> SUFFICES ASSUME kProgram = "words" PROVE K!WordsRight
    BY DEF K!WordsRight
  <2>1. kText \in Seq(Alphabet)
    BY <1>i DEF PcInv
  <2>2. ASSUME kMain = "done"
        PROVE  /\ K!MapThenSumSet(LAMBDA w : kTotal[w], K!BagToSet(kTotal))
                    = K!Cardinality(K!Runs(kText)) + K!Cardinality(K!Cuts)
               /\ K!MapThenSumSet(LAMBDA w : kTotal[w] * Len(w), K!BagToSet(kTotal)) = K!Letters(kText)
               /\ K!Cuts = {} => kTotal = K!WordsOf(kText)
    <3>1. K!chunk_size # 0 /\ kTotal = BagFrom(AllPieces, WordAt)
      BY <1>i, <2>2 DEF PcInv, TotalInv
    <3>2. /\ K!MapThenSumSet(LAMBDA w : kTotal[w], K!BagToSet(kTotal)) = Cardinality(AllPieces)
          /\ K!MapThenSumSet(LAMBDA w : kTotal[w] * Len(w), K!BagToSet(kTotal))
               = Cardinality({j \in 1 .. Len(kText) : K!Letter(kText, j)})
      <4> DEFINE WordsIn(T) == K!MapThenSumSet(LAMBDA w : T[w], K!BagToSet(T))
                 LettersIn(T) == K!MapThenSumSet(LAMBDA w : T[w] * Len(w), K!BagToSet(T))
                 T0 == BagFrom(AllPieces, WordAt)
      <4>1. /\ WordsIn(T0) = Cardinality(AllPieces)
            /\ LettersIn(T0) = Cardinality({j \in 1 .. Len(kText) : K!Letter(kText, j)})
        BY <2>1, <3>1, PieceSums
      <4> HIDE DEF WordsIn, LettersIn
      <4>2. WordsIn(kTotal) = WordsIn(T0) /\ LettersIn(kTotal) = LettersIn(T0)
        BY <3>1
      <4>3. /\ WordsIn(kTotal) = Cardinality(AllPieces)
            /\ LettersIn(kTotal) = Cardinality({j \in 1 .. Len(kText) : K!Letter(kText, j)})
        BY <4>1, <4>2
      <4> QED
        BY <4>3 DEF WordsIn, LettersIn
    <3>3. Cardinality(AllPieces) = K!Cardinality(K!Runs(kText)) + K!Cardinality(K!Cuts)
      BY <2>1, <3>1, PiecesCounted, KCardinality
    <3>4. Cardinality({j \in 1 .. Len(kText) : K!Letter(kText, j)}) = K!Letters(kText)
      BY KCardinality DEF K!Letters
    <3>5. K!Cuts = {} => kTotal = K!WordsOf(kText)
      BY <2>1, <3>1, UncutPieces, WholeWords
    <3> QED
      BY <3>2, <3>3, <3>4, <3>5
  <2>3. ASSUME kMain = "failed" PROVE Len(kText) < num_mappers
    <3>1. K!chunk_size = 0
      BY <1>i, <2>3 DEF PcInv
    <3>2. Len(kText) \in Nat
      BY <2>1
    <3> QED
      BY <3>1, <3>2, KSizes DEF K!chunk_size
  <2> QED
    BY <2>2, <2>3 DEF K!WordsRight
<1>4. K!FederatedRight
  <2> SUFFICES ASSUME kProgram = "federated" PROVE K!FederatedRight
    BY DEF K!FederatedRight
  <2>1. ASSUME kRound > 0
        PROVE  /\ \A k \in DOMAIN kTotal : kTotal[k].weights.base = kRound - 1
               /\ UNION {kTotal[k].weights.seen : k \in DOMAIN kTotal} = 1 .. num_examples
               /\ \A k \in DOMAIN kTotal : kTotal[k].num_examples = K!Cardinality(kTotal[k].weights.seen)
               /\ K!MapThenSumSet(LAMBDA k : kTotal[k].num_examples, DOMAIN kTotal) = num_examples
    <3>1. kTotal = ModelAt(kRound - 1)
      BY <1>i, <2>1 DEF TotalInv
    <3>r. PICK r : r = kRound - 1
      OBVIOUS
    <3>2. ExamplesIn(ModelAt(r)) = num_examples
      BY ModelUsesAll
    <3>3. /\ DOMAIN ModelAt(r) = 1 .. num_workers
          /\ \A k \in 1 .. num_workers : /\ ModelAt(r)[k].weights.base = r
                                         /\ ModelAt(r)[k].num_examples
                                              = K!Cardinality(ModelAt(r)[k].weights.seen)
          /\ UNION {ModelAt(r)[k].weights.seen : k \in 1 .. num_workers} = 1 .. num_examples
      BY ModelUsesAll
    <3>4. ExamplesIn(kTotal) = num_examples
      BY <3>r, <3>1, <3>2
    <3>5. /\ \A k \in DOMAIN kTotal : /\ kTotal[k].weights.base = kRound - 1
                                     /\ kTotal[k].num_examples
                                          = K!Cardinality(kTotal[k].weights.seen)
          /\ UNION {kTotal[k].weights.seen : k \in DOMAIN kTotal} = 1 .. num_examples
      BY <3>r, <3>1, <3>3
    <3> QED
      BY <3>4, <3>5 DEF ExamplesIn
  <2>2. kMain = "failed" => \E i \in K!Tasks : kPc[i] = "dead"
    BY <1>i DEF PcInv
  <2> QED
    BY <2>1, <2>2 DEF K!FederatedRight
<1> QED
  BY <1>1, <1>2, <1>3, <1>4 DEF K!ResultRight

-----------------------------------------------------------------------------
(* The exercises together: each keeps its invariant whatever steps the     *)
(* others take.                                                            *)
LabsInv == /\ lab \in Labs
           /\ CounterInv /\ GateInv /\ SemInv /\ CondInv /\ JoinInv /\ BufferInv /\ ForkInv
           /\ ResultInv

LEMMA LabsInit == Init => LabsInv
  BY CounterInit, GateInit, SemInit, CondInit, JoinInit, BufferInit, ForkInit, ResultInit
     DEF Init, LabsInv

LEMMA LabsStep == LabsInv /\ [Next]_vars => LabsInv'
<1> SUFFICES ASSUME LabsInv, [Next]_vars PROVE LabsInv'
  OBVIOUS
<1>1. /\ UNCHANGED lab
      /\ [N!Next]_nVars /\ [G!Next]_gVars /\ [S!Next]_sVars /\ [B!Next]_bVars
      /\ [J!Next]_jVars /\ [F!Next]_fVars /\ [K!Next]_kVars
  BY Frame
<1>2. /\ lab \in Labs
      /\ CounterInv /\ GateInv /\ SemInv /\ CondInv /\ JoinInv /\ BufferInv /\ ForkInv
      /\ ResultInv
  BY DEF LabsInv
<1>3. lab' \in Labs
  BY <1>1, <1>2 DEF Labs
<1>4. CounterInv' /\ GateInv' /\ SemInv' /\ CondInv'
  BY <1>1, <1>2, CounterStepInv, GateStepInv, SemStepInv, CondStepInv
<1>5. JoinInv' /\ BufferInv' /\ ForkInv'
  BY <1>1, <1>2, JoinStepInv, BufferStepInv, ForkStepInv
<1>6. ResultInv'
  BY <1>1, <1>2, <1>5, ResultStepInv
<1> QED
  BY <1>3, <1>4, <1>5, <1>6 DEF LabsInv

LEMMA LabsInvariant == Spec => []LabsInv
  BY LabsInit, LabsStep, PTL DEF Spec

(* The variables of every exercise keep their types, for any numbers of     *)
(* threads, tasks, items and places: counters stay in their ranges, the     *)
(* circular buffer's indices stay inside it, and whatever a task of hands-on *)
(* 8, 10, 18 or 19 has worked out is a result of its program.               *)
THEOREM TypeCorrect == Spec => []TypeOK
<1>1. LabsInv => TypeOK
  BY DEF LabsInv, TypeOK, CounterInv, GateInv, SemInv, CondInv, JoinInv, BufferInv, ForkInv
<1> QED
  BY <1>1, LabsInvariant, PTL

(* ho11 ex1 and ex2, any number of threads and of increments: with the lock *)
(* no update is lost and main prints the full count; without it main's      *)
(* result lies between the two updates that must survive and the full count. *)
THEOREM CounterFinalValue == Spec => []FinalValue
<1>1. LabsInv => FinalValue
  BY CounterFinal DEF LabsInv, FinalValue
<1> QED
  BY <1>1, LabsInvariant, PTL

(* ho11 ex3 and ho12 ex1: threads inside the gate and free places add up to *)
(* the limit, and when main has joined all threads of the barrier no post   *)
(* is left over in either of its semaphores.                                *)
THEOREM SemaphoresInBalance == Spec => []SemaphoresBalance
<1>1. LabsInv => SemaphoresBalance
  BY SemNothingLeft DEF LabsInv, GateInv, SemaphoresBalance
<1> QED
  BY <1>1, LabsInvariant, PTL

(* ho13 ex1: the hand-made join returns only after the child set its flag,  *)
(* whatever wakeups the condition variable makes up.                        *)
THEOREM ParentWaits == Spec => []JoinWaits
<1>1. LabsInv => JoinWaits
  BY DEF LabsInv, JoinInv, JoinWaits
<1> QED
  BY <1>1, LabsInvariant, PTL

(* ho8, ho10, ho18 and ho19, for any bound of the search, text, training set *)
(* and numbers of tasks: however the tasks interleave, main finds the primes *)
(* up to the bound, the value of the expression, every letter of the text in *)
(* one counted word (one word more for each that a chunk's end cuts), and in *)
(* each round models trained on each example once from the last global one;  *)
(* it gives up only when a task is missing or dead or the text is too short. *)
THEOREM ResultsRight == Spec => []ResultRight
<1>1. LabsInv => ResultRight
  BY ResultIsRight DEF LabsInv, ResultRight
<1> QED
  BY <1>1, LabsInvariant, PTL

(* ho12 ex1 and ho13 ex2 let a thread past their barriers only when all     *)
(* have arrived, and ho12 ex2 is a bounded queue: every item leaves once,   *)
(* in the order it was put, and no place of the ring is overwritten.        *)
THEOREM LabsImplement == Spec => ImplementAbstract
<1>1. Init => S!barrier!Init /\ B!barrier!Init /\ F!fifo!Init
  <2> SUFFICES ASSUME Init PROVE S!barrier!Init /\ B!barrier!Init /\ F!fifo!Init
    OBVIOUS
  <2>1. S!Arrived = {} /\ S!Passed = {}
    BY DEF Init, S!Init, S!Arrived, S!Passed
  <2>2. B!Arrived = {} /\ B!Passed = {}
    BY DEF Init, B!Init, B!Arrived, B!Passed
  <2>3. F!fifo!Init
    BY BufferImplementsInit DEF Init
  <2> QED
    BY <2>1, <2>2, <2>3 DEF S!barrier!Init, B!barrier!Init
<1>2. LabsInv /\ [Next]_vars => /\ [S!barrier!Next]_<<S!Arrived, S!Passed>>
                               /\ [B!barrier!Next]_<<B!Arrived, B!Passed>>
                               /\ [F!fifo!Next]_<<F!Queue, F!Made, fItem>>
  BY Frame, SemImplements, CondImplements, BufferImplements DEF LabsInv
<1> QED
  BY <1>1, <1>2, LabsInvariant, PTL
     DEF Spec, ImplementAbstract, S!barrier!Spec, B!barrier!Spec, F!fifo!Spec

=============================================================================
