---------------------------- MODULE MCThreadLabs ----------------------------
(***************************************************************************)
(* The thread exercises of hands-on 11 to 13, and the fork-join programs of *)
(* hands-on 8, 10, 18 and 19, each a program of its own, checked in one     *)
(* run: "lab" names the one that runs and never changes, and the variables *)
(* of the others keep their initial values.                                *)
(***************************************************************************)
EXTENDS Integers, Sequences, FiniteSets

CONSTANTS MaxThreads, MaxValue,        \* ho11 ex1 and ex2: bounds for 10 and 10000
          GateThreads, Limit,          \* ho11 ex3: 5 and 2
          SemThreads, CondThreads,     \* ho12 ex1: 5, ho13 ex2: 4
          BufferSize, NumItems,        \* ho12 ex2: 5 and 15
          MAX_NUMBER, MAX_THREAD, NumCores,        \* ho8: see ForkJoin
          Alphabet, Space, TextLen, num_mappers,   \* ho18: every text up to TextLen
          num_examples, num_workers, num_rounds,   \* ho19
          Garbage,                                 \* ho10
          None

VARIABLES lab,
          nLocked, nPc, nI, nRegister, nCounter, nLock, nPrinted,
          gPc, gSem,
          sPc, sCounter, sMutex, sBarrierSem, sPosts, sJoined,
          bPc, bCount, bLock, bJoined,
          jPc, jChildDone, jLock,
          fPpc, fCpc, fP, fC, fBuffer, fIn, fOut, fEmpty, fFilled, fMutex, fItem, fJoined,
          kProgram, kText, kMain, kNext, kRound, kPc, kLeft, kResult, kCpuset, kGot, kTotal

nVars == <<nLocked, nPc, nI, nRegister, nCounter, nLock, nPrinted>>
gVars == <<gPc, gSem>>
sVars == <<sPc, sCounter, sMutex, sBarrierSem, sPosts, sJoined>>
bVars == <<bPc, bCount, bLock, bJoined>>
jVars == <<jPc, jChildDone, jLock>>
fVars == <<fPpc, fCpc, fP, fC, fBuffer, fIn, fOut, fEmpty, fFilled, fMutex, fItem, fJoined>>
kVars == <<kProgram, kText, kMain, kNext, kRound, kPc, kLeft, kResult, kCpuset, kGot, kTotal>>
vars == <<lab, nVars, gVars, sVars, bVars, jVars, fVars, kVars>>

nThreads == 1..MaxThreads
gThreads == 1..GateThreads
sThreads == 1..SemThreads
bThreads == 1..CondThreads

N == INSTANCE SharedCounter WITH Threads <- nThreads, locked <- nLocked, pc <- nPc, i <- nI,
        register <- nRegister, counter <- nCounter, lock <- nLock, printed <- nPrinted
G == INSTANCE SemGate WITH Threads <- gThreads, pc <- gPc, sem <- gSem
S == INSTANCE SemBarrier WITH Threads <- sThreads, pc <- sPc, counter <- sCounter,
        mutex <- sMutex, barrierSem <- sBarrierSem, posts <- sPosts, joined <- sJoined
B == INSTANCE CondBarrier WITH Threads <- bThreads, pc <- bPc, count <- bCount,
        lock <- bLock, joined <- bJoined
J == INSTANCE CondJoin WITH pc <- jPc, childDone <- jChildDone, lock <- jLock
F == INSTANCE ProdCons WITH ppc <- fPpc, cpc <- fCpc, p <- fP, c <- fC, buffer <- fBuffer,
        in <- fIn, out <- fOut, emptySlots <- fEmpty, filledSlots <- fFilled,
        mutex <- fMutex, item <- fItem, joined <- fJoined
K == INSTANCE ForkJoin WITH Texts <- UNION {[1..n -> Alphabet] : n \in 0..TextLen},
        program <- kProgram, text <- kText, main <- kMain, next <- kNext, round <- kRound,
        pc <- kPc, left <- kLeft, result <- kResult, cpuset <- kCpuset, got <- kGot, total <- kTotal

ASSUME LabsAssumption ==
       /\ N!CounterAssumption /\ G!GateAssumption /\ S!ThreadsAssumption
       /\ B!ThreadsAssumption /\ F!SizesAssumption /\ K!ForkJoinAssumption
       /\ TextLen \in Nat

Labs == {"counter", "gate", "semBarrier", "condBarrier", "condJoin", "prodCons", "forkJoin"}

Init == /\ lab \in Labs
        /\ N!Init /\ (lab # "counter" => nLocked)
        /\ G!Init /\ B!Init /\ J!Init
        /\ S!Init /\ (lab # "semBarrier" => S!AllStarted)
        /\ F!Init /\ (lab # "prodCons" => F!AllStarted)
        /\ K!Init
        /\ lab # "forkJoin" => kProgram = "graph"

Keep(l, v) == IF lab = l THEN TRUE ELSE UNCHANGED v
Only(l) == /\ lab = l
           /\ UNCHANGED lab
           /\ Keep("counter", nVars) /\ Keep("gate", gVars)
           /\ Keep("semBarrier", sVars) /\ Keep("condBarrier", bVars)
           /\ Keep("condJoin", jVars) /\ Keep("prodCons", fVars)
           /\ Keep("forkJoin", kVars)

CounterStep(t) == Only("counter") /\ N!Thread(t)
GateStep(t) == Only("gate") /\ G!Thread(t)
SemBarrierStep(t) == Only("semBarrier") /\ S!Thread(t)
CondBarrierStep(t) == Only("condBarrier") /\ B!Run(t)
ChildStep == Only("condJoin") /\ J!Child
ParentStep == Only("condJoin") /\ J!Parent
ProducerStep == Only("prodCons") /\ F!Producer
ConsumerStep == Only("prodCons") /\ F!Consumer
ForkJoinTask == Only("forkJoin") /\ K!SomeTask
ForkJoinMain == Only("forkJoin") /\ K!Main
MainStep == \/ Only("semBarrier") /\ S!Join
            \/ Only("condBarrier") /\ B!Join
            \/ Only("prodCons") /\ F!Join
Spurious == \/ Only("condBarrier") /\ \E t \in bThreads : B!WakeSpuriously(t)
            \/ Only("condJoin") /\ J!WakeSpuriously
Failure == \/ Only("forkJoin") /\ K!CreateFails
           \/ Only("forkJoin") /\ \E i \in K!Tasks : K!Dies(i)

Next == \/ \E t \in nThreads : CounterStep(t)
        \/ \E t \in gThreads : GateStep(t)
        \/ \E t \in sThreads : SemBarrierStep(t)
        \/ \E t \in bThreads : CondBarrierStep(t)
        \/ ChildStep \/ ParentStep \/ ProducerStep \/ ConsumerStep
        \/ ForkJoinTask \/ ForkJoinMain
        \/ MainStep \/ Spurious \/ Failure

(* Strong fairness for the threads that spurious wakeups of the others can *)
(* keep from a free mutex again and again; nothing forces those wakeups.   *)
Fairness == /\ \A t \in nThreads : WF_vars(CounterStep(t))
            /\ \A t \in gThreads : WF_vars(GateStep(t))
            /\ \A t \in sThreads : WF_vars(SemBarrierStep(t))
            /\ \A t \in bThreads : SF_vars(CondBarrierStep(t))
            /\ SF_vars(ChildStep) /\ SF_vars(ParentStep)
            /\ WF_vars(ProducerStep) /\ WF_vars(ConsumerStep) /\ WF_vars(MainStep)
            /\ WF_vars(ForkJoinTask) /\ WF_vars(ForkJoinMain)

Spec == Init /\ [][Next]_vars /\ Fairness

-----------------------------------------------------------------------------
(* Properties.                                                             *)

(* The variables of every exercise keep their types.                       *)
TypeOK == /\ lab \in Labs
          /\ N!TypeOK /\ G!TypeOK /\ S!TypeOK /\ B!TypeOK /\ J!TypeOK /\ F!TypeOK
          /\ K!TypeOK

(* ho11 ex1 and ex2: what the threads and main print of the counter.        *)
FinalValue == N!FinalValue

(* ho11 ex3 and ho12 ex1: waits and posts balance.  Threads inside and free *)
(* places add up to the limit, and no post of the barrier is left over      *)
(* when main has joined all threads.                                        *)
SemaphoresBalance == G!PlacesAddUp /\ S!NothingLeft

(* ho13 ex1: the parent goes on only when the child has finished.           *)
JoinWaits == J!JoinWaits

(* ho8, ho10, ho18, ho19: the combined results are those of one thread.     *)
ResultRight == K!ResultRight

(* ho12 and ho13: both barriers implement the rendezvous, and the buffer is *)
(* a queue in which nothing is lost, doubled or overwritten.                *)
ImplementAbstract == S!barrier!Spec /\ B!barrier!Spec /\ F!fifo!Spec

(* Every exercise ends: no lost wakeup, no forgotten post, no deadlock.    *)
(* Where the result of pthread_create is not looked at (ho12), only if all *)
(* threads could be started; the others wait for a missing one for ever.   *)
Ended == CASE lab = "counter" -> N!Ended
           [] lab = "gate" -> \A t \in gThreads : gPc[t] = "done"
           [] lab = "semBarrier" -> S!AllStarted => sJoined
           [] lab = "condBarrier" -> bJoined
           [] lab = "condJoin" -> jPc["parent"] = "returned" /\ jPc["child"] = "exited"
           [] lab = "prodCons" -> F!AllStarted => fJoined
           [] lab = "forkJoin" -> K!Ended
AllEnd == <>Ended
=============================================================================
