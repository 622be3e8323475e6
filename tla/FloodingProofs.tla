--------------------------- MODULE FloodingProofs ---------------------------
(***************************************************************************)
(* OnePerLink, SpanningTree and NobodyExitsUninformed of Flooding, proved  *)
(* for every network and every timing (the last one for connected networks *)
(* in which nobody gives up early).                                        *)
(*                                                                         *)
(* OnePerLink is not inductive: that a pipe is empty when its writer comes to it   *)
(* follows from what the writer has still to do.  Who is not informed has  *)
(* nothing to send and has sent nothing; who is, owes a message only to    *)
(* neighbours whose pipe is still empty, never to its source.  For the     *)
(* tree, the depth of an agent is the number of those informed before it.  *)
(***************************************************************************)
EXTENDS Flooding, TLAPS, WellFoundedInduction, FiniteSetTheorems

(* An agent without the message has sent nothing and has nothing to send.  *)
UninformedInv == \A n \in Agents :
    ~informed[n] => todo[n] = {} /\ \A m \in Adjacent(n) : chan[<<n, m>>] = 0

(* The initiator is informed from its first step, the others never before.  *)
StartInv == /\ \A n \in Agents : pc[n] = "open" => ~informed[n]
            /\ pc[Initiator] = "open" \/ informed[Initiator]

(* Where a message is still owed, none has been written.                   *)
OwedInv == \A n \in Agents : \A k \in todo[n] :
    /\ chan[<<n, Neighbours[n][k]>>] = 0
    /\ n # Initiator => source[n] # Neighbours[n][k]

(* A pipe is open for writing only to somebody the message is owed to.     *)
WritingInv == \A n \in Agents :
    writing[n] => pc[n] \in {"send", "killed"} /\ todo[n] # {}

Inv == TypeOK /\ UninformedInv /\ StartInv /\ OwedInv /\ WritingInv /\ OnePerLink
-----------------------------------------------------------------------------
(* A nonempty set of naturals has a least element.                         *)
LEMMA NatMinimum ==
  ASSUME NEW S \in SUBSET Nat, S # {}
  PROVE  \E m \in S : \A n \in S : m <= n
<1> DEFINE Less == {nm \in Nat \X Nat : nm[1] < nm[2]}
<1>1. IsWellFoundedOn(Less, Nat)
  BY NatLessThanWellFounded DEF OpToRel
<1>2. \A n, m \in Nat : n < m => <<n, m>> \in Less
  OBVIOUS
<1> HIDE DEF Less
<1>3. PICK m \in S : \A n \in S : <<n, m>> \notin Less
  BY <1>1, WFMin
<1>4. \A n \in S : ~(n < m)
  BY <1>2, <1>3
<1> QED
  BY <1>4

(* The network: both directions of a link have a pipe.                     *)
LEMMA PositionFacts ==
  ASSUME NEW n \in Agents
  PROVE  /\ Positions(n) \subseteq Nat
         /\ \A k \in Positions(n) :
              /\ Neighbours[n][k] \in Agents /\ Neighbours[n][k] \in Adjacent(n)
              /\ <<n, Neighbours[n][k]>> \in Links /\ <<Neighbours[n][k], n>> \in Links
<1>1. Neighbours[n] \in Seq(Agents)
  BY GraphAssumption
<1>2. Positions(n) \subseteq Nat
  BY <1>1 DEF Positions
<1>3. ASSUME NEW k \in Positions(n)
      PROVE  Neighbours[n][k] \in Agents /\ Neighbours[n][k] \in Adjacent(n)
  BY <1>1, <1>3 DEF Positions, Adjacent
<1>4. \A m \in Adjacent(n) : n \in Adjacent(m)
  BY GraphAssumption
<1> QED
  BY <1>2, <1>3, <1>4 DEF Links

(* The loops look at the lowest position that is left.                     *)
LEMMA LowestPosition ==
  ASSUME NEW S \in SUBSET Nat, S # {}
  PROVE  Lowest(S) \in S
<1>1. \E i \in S : \A j \in S : i <= j
  BY NatMinimum
<1> QED
  BY <1>1 DEF Lowest

(* What is read comes from a neighbour's pipe.                             *)
LEMMA FromFacts ==
  ASSUME TypeOK, NEW n \in Agents, ready[n] # {}
  PROVE  /\ From(n) \in Agents /\ From(n) \in Adjacent(n) /\ <<From(n), n>> \in Links
         /\ Lowest(ready[n]) \in ready[n]
<1>1. ready[n] \in SUBSET Nat /\ ready[n] \subseteq Positions(n)
  BY DEF TypeOK
<1>2. Lowest(ready[n]) \in ready[n]
  BY <1>1, LowestPosition
<1> QED
  BY <1>1, <1>2, PositionFacts DEF From

(* What is written goes to a neighbour the message is owed to.             *)
LEMMA ReaderFacts ==
  ASSUME TypeOK, NEW n \in Agents, todo[n] # {}
  PROVE  /\ NextReader(n) = Neighbours[n][Lowest(todo[n])]
         /\ Lowest(todo[n]) \in todo[n] /\ Lowest(todo[n]) \in Positions(n)
         /\ <<n, NextReader(n)>> \in Links
<1>1. todo[n] \in SUBSET Nat /\ todo[n] \subseteq Positions(n)
  BY DEF TypeOK
<1>2. Lowest(todo[n]) \in todo[n]
  BY <1>1, LowestPosition
<1> QED
  BY <1>1, <1>2, PositionFacts DEF NextReader
-----------------------------------------------------------------------------
(* Taking what is in a pipe keeps the types, and only empties that pipe.   *)
LEMMA TakeInputFacts ==
  ASSUME TypeOK, NEW n \in Agents, TakeInput(n)
  PROVE  /\ ready' \in [Agents -> SUBSET Nat] /\ chan' \in [Links -> Nat]
         /\ idle' \in [Agents -> 0..MaxIdle]
         /\ \A m \in Agents : ready'[m] \subseteq Positions(m)
         /\ \A l \in Links : chan'[l] = 0 \/ chan'[l] = chan[l]
<1>1. ready[n] # {}
  BY DEF TakeInput
<1>2. <<From(n), n>> \in Links
  BY <1>1, FromFacts
<1>3. 0 \in 0..MaxIdle
  BY GraphAssumption
<1> QED
  BY <1>2, <1>3 DEF TypeOK, TakeInput

LEMMA TypeStep == TypeOK /\ WritingInv /\ [Next]_vars => TypeOK'
<1> SUFFICES ASSUME TypeOK, WritingInv, [Next]_vars PROVE TypeOK'
  OBVIOUS
<1>1. CASE UNCHANGED vars
  BY <1>1 DEF TypeOK, vars, Positions
<1>2. ASSUME NEW n \in Agents, OpenPipes(n) PROVE TypeOK'
  <2>1. Positions(n) \in SUBSET Nat
    BY PositionFacts
  <2>2. pc' \in [Agents -> {"open", "select", "scan", "send", "done", "killed"}]
    BY <1>2 DEF TypeOK, OpenPipes, Goto
  <2> QED
    BY <1>2, <2>1, <2>2 DEF TypeOK, OpenPipes, Positions
<1>3. ASSUME NEW n \in Agents, Select(n) PROVE TypeOK'
  <2>1. HasInput(n) \subseteq Positions(n) /\ HasInput(n) \in SUBSET Nat
    BY PositionFacts DEF HasInput
  <2> QED
    BY <1>3, <2>1 DEF TypeOK, Select, Goto, Positions
<1>4. ASSUME NEW n \in Agents, Timeout(n) PROVE TypeOK'
  <2>1. idle[n] + 1 \in 0..MaxIdle
    BY <1>4, GraphAssumption DEF TypeOK, Timeout
  <2> QED
    BY <1>4, <2>1 DEF TypeOK, Timeout, Positions
<1>5. ASSUME NEW n \in Agents, Exit(n) \/ EndScan(n) \/ BrokenPipe(n) \/ EndSend(n)
      PROVE  TypeOK'
  BY <1>5 DEF TypeOK, Exit, EndScan, BrokenPipe, EndSend, Goto, Positions
<1>6. ASSUME NEW n \in Agents, Inform(n) PROVE TypeOK'
  <2>1. From(n) \in Agents
    BY <1>6, FromFacts DEF Inform, TakeInput
  <2>2. Others(n) \subseteq Positions(n) /\ Others(n) \in SUBSET Nat
    BY PositionFacts DEF Others
  <2>3. /\ ready' \in [Agents -> SUBSET Nat] /\ chan' \in [Links -> Nat]
        /\ idle' \in [Agents -> 0..MaxIdle]
        /\ \A m \in Agents : ready'[m] \subseteq Positions(m)
    BY <1>6, TakeInputFacts DEF Inform
  <2> QED
    BY <1>6, <2>1, <2>2, <2>3 DEF TypeOK, Inform, Goto, Positions
<1>7. ASSUME NEW n \in Agents, Drop(n) PROVE TypeOK'
  <2>1. /\ ready' \in [Agents -> SUBSET Nat] /\ chan' \in [Links -> Nat]
        /\ idle' \in [Agents -> 0..MaxIdle]
        /\ \A m \in Agents : ready'[m] \subseteq Positions(m)
    BY <1>7, TakeInputFacts DEF Drop
  <2> QED
    BY <1>7, <2>1 DEF TypeOK, Drop, Positions
<1>8. ASSUME NEW n \in Agents, OpenPipe(n) PROVE TypeOK'
  BY <1>8 DEF TypeOK, OpenPipe, Positions
<1>9. ASSUME NEW n \in Agents, Write(n) PROVE TypeOK'
  <2>1. <<n, NextReader(n)>> \in Links
    BY <1>9, ReaderFacts DEF Write, WritingInv
  <2> QED
    BY <1>9, <2>1 DEF TypeOK, Write, Positions
<1>10. CASE CleanUp
  BY <1>10 DEF TypeOK, CleanUp, Positions
<1> QED
  BY <1>1, <1>2, <1>3, <1>4, <1>5, <1>6, <1>7, <1>8, <1>9, <1>10 DEF Next, Agent
-----------------------------------------------------------------------------
(* A step that informs nobody, owes nobody more and writes nothing keeps    *)
(* what is said of the messages.                                           *)
LEMMA NothingSent ==
  ASSUME Inv, UNCHANGED <<informed, source, todo>>,
         \A l \in Links : chan'[l] = 0 \/ chan'[l] = chan[l]
  PROVE  UninformedInv' /\ OwedInv' /\ OnePerLink'
<1>1. UninformedInv'
  <2> SUFFICES ASSUME NEW n \in Agents, ~informed[n]
               PROVE  todo[n] = {} /\ \A m \in Adjacent(n) : chan'[<<n, m>>] = 0
    BY DEF UninformedInv
  <2>1. \A m \in Adjacent(n) : chan[<<n, m>>] = 0 /\ <<n, m>> \in Links
    <3>1. \A m \in Adjacent(n) : m \in Agents
      BY PositionFacts DEF Adjacent, Positions
    <3> QED
      BY <3>1 DEF Inv, UninformedInv, Links
  <2> QED
    BY <2>1 DEF Inv, UninformedInv
<1>2. OwedInv'
  <2> SUFFICES ASSUME NEW n \in Agents, NEW k \in todo[n]
               PROVE  /\ chan'[<<n, Neighbours[n][k]>>] = 0
                      /\ n # Initiator => source[n] # Neighbours[n][k]
    BY DEF OwedInv
  <2>1. <<n, Neighbours[n][k]>> \in Links
    BY PositionFacts DEF Inv, TypeOK
  <2> QED
    BY <2>1 DEF Inv, OwedInv
<1>3. OnePerLink'
  BY DEF Inv, OnePerLink
<1> QED
  BY <1>1, <1>2, <1>3

(* Every step keeps the invariant.                                         *)
LEMMA InvStep == Inv /\ [Next]_vars => Inv'
<1> SUFFICES ASSUME Inv, [Next]_vars PROVE Inv'
  OBVIOUS
<1> USE DEF Inv
<1>0. TypeOK'
  BY TypeStep
<1>00. ASSUME UninformedInv', StartInv', OwedInv', WritingInv', OnePerLink' PROVE Inv'
  BY <1>0, <1>00
<1>1. CASE UNCHANGED vars
  <2>1. UninformedInv' /\ OwedInv' /\ OnePerLink'
    BY <1>1, NothingSent DEF vars
  <2> QED
    BY <1>00, <1>1, <2>1 DEF vars, StartInv, WritingInv
<1>2. ASSUME NEW n \in Agents, OpenPipes(n) PROVE Inv'
  <2>1. CASE n = Initiator
    <3>1. /\ informed' = [informed EXCEPT ![n] = TRUE]
          /\ todo' = [todo EXCEPT ![n] = Positions(n)]
          /\ pc' = [pc EXCEPT ![n] = "send"] /\ pc[n] = "open"
          /\ UNCHANGED <<source, writing, chan>>
      BY <1>2, <2>1 DEF OpenPipes, Goto
    <3>2. ~informed[n] /\ ~writing[n]
      BY <3>1 DEF StartInv, WritingInv
    <3>3. UninformedInv'
      BY <3>1 DEF TypeOK, UninformedInv
    <3>4. StartInv'
      BY <2>1, <3>1 DEF TypeOK, StartInv
    <3>5. OwedInv'
      <4>1. \A k \in Positions(n) : chan'[<<n, Neighbours[n][k]>>] = 0
        BY <3>1, <3>2, PositionFacts DEF UninformedInv
      <4>2. \A m \in Agents \ {n} : todo'[m] = todo[m]
        BY <3>1 DEF TypeOK
      <4>3. todo'[n] = Positions(n)
        BY <3>1 DEF TypeOK
      <4> QED
        BY <2>1, <3>1, <4>1, <4>2, <4>3 DEF OwedInv
    <3>6. WritingInv'
      BY <3>1, <3>2 DEF TypeOK, WritingInv
    <3>7. OnePerLink'
      BY <3>1, <3>2 DEF TypeOK, OnePerLink, Links
    <3> QED
      BY <1>00, <3>3, <3>4, <3>5, <3>6, <3>7
  <2>2. CASE n # Initiator
    <3>1. /\ pc' = [pc EXCEPT ![n] = "select"] /\ pc[n] = "open"
          /\ UNCHANGED <<informed, source, todo, writing, chan>>
      BY <1>2, <2>2 DEF OpenPipes, Goto
    <3>2. UninformedInv' /\ OwedInv' /\ OnePerLink'
      BY <3>1, NothingSent
    <3>3. StartInv' /\ WritingInv'
      BY <2>2, <3>1, GraphAssumption DEF TypeOK, StartInv, WritingInv
    <3> QED
      BY <1>00, <3>2, <3>3
  <2> QED
    BY <2>1, <2>2
<1>3. ASSUME NEW n \in Agents,
             Select(n) \/ Timeout(n) \/ Exit(n) \/ EndScan(n) \/ BrokenPipe(n) \/ EndSend(n)
      PROVE  Inv'
  <2>1. UNCHANGED <<informed, source, todo, writing, chan>>
    BY <1>3 DEF Select, Timeout, Exit, EndScan, BrokenPipe, EndSend
  <2>2. UninformedInv' /\ OwedInv' /\ OnePerLink'
    BY <2>1, NothingSent
  <2>3. /\ pc[n] # "open" /\ pc'[n] # "open" /\ \A m \in Agents \ {n} : pc'[m] = pc[m]
        /\ writing[n] => pc'[n] \in {"send", "killed"}
    BY <1>3 DEF TypeOK, WritingInv, Select, Timeout, Exit, EndScan, BrokenPipe, EndSend, Goto
  <2>4. StartInv' /\ WritingInv'
    BY <2>1, <2>3, GraphAssumption DEF StartInv, WritingInv
  <2> QED
    BY <1>00, <2>2, <2>4
<1>4. ASSUME NEW n \in Agents, Inform(n) PROVE Inv'
  <2>1. /\ ~informed[n] /\ pc[n] = "scan" /\ ready[n] # {}
        /\ informed' = [informed EXCEPT ![n] = TRUE]
        /\ source' = [source EXCEPT ![n] = From(n)]
        /\ todo' = [todo EXCEPT ![n] = Others(n)]
        /\ pc' = [pc EXCEPT ![n] = "send"]
        /\ UNCHANGED writing
    BY <1>4 DEF Inform, TakeInput, Goto
  <2>2. \A l \in Links : chan'[l] = 0 \/ chan'[l] = chan[l]
    BY <1>4, TakeInputFacts DEF Inform
  <2>3. n # Initiator /\ ~writing[n]
    BY <2>1 DEF StartInv, WritingInv
  <2>4. \A k \in Positions(n) : chan'[<<n, Neighbours[n][k]>>] = 0
    BY <2>1, <2>2, PositionFacts DEF UninformedInv
  <2>5. UninformedInv'
    <3> SUFFICES ASSUME NEW m \in Agents, ~informed'[m]
                 PROVE  todo'[m] = {} /\ \A j \in Adjacent(m) : chan'[<<m, j>>] = 0
      BY DEF UninformedInv
    <3>1. m # n /\ ~informed[m] /\ todo'[m] = todo[m]
      BY <2>1 DEF TypeOK
    <3>2. \A j \in Adjacent(m) : <<m, j>> \in Links
      BY PositionFacts DEF Adjacent, Positions
    <3> QED
      BY <2>2, <3>1, <3>2 DEF UninformedInv
  <2>6. StartInv'
    BY <2>1, GraphAssumption DEF TypeOK, StartInv
  <2>7. OwedInv'
    <3> SUFFICES ASSUME NEW m \in Agents, NEW k \in todo'[m]
                 PROVE  /\ chan'[<<m, Neighbours[m][k]>>] = 0
                        /\ m # Initiator => source'[m] # Neighbours[m][k]
      BY DEF OwedInv
    <3>1. CASE m = n
      <4>1. k \in Others(n) /\ source'[n] = From(n)
        BY <2>1, <3>1 DEF TypeOK
      <4> QED
        BY <2>4, <3>1, <4>1 DEF Others
    <3>2. CASE m # n
      <4>1. k \in todo[m] /\ source'[m] = source[m]
        BY <2>1, <3>2 DEF TypeOK
      <4>2. <<m, Neighbours[m][k]>> \in Links
        BY <4>1, PositionFacts DEF TypeOK
      <4> QED
        BY <2>2, <4>1, <4>2 DEF OwedInv
    <3> QED
      BY <3>1, <3>2
  <2>8. WritingInv'
    BY <2>1, <2>3 DEF TypeOK, WritingInv
  <2>9. OnePerLink'
    <3> SUFFICES ASSUME NEW l \in Links
                 PROVE  /\ chan'[l] <= 1
                        /\ chan'[l] = 1 => informed'[l[1]] /\ (l[1] # Initiator => source'[l[1]] # l[2])
      BY DEF OnePerLink
    <3>1. l[1] \in Agents /\ l[2] \in Adjacent(l[1]) /\ l = <<l[1], l[2]>>
      BY DEF Links
    <3>2. CASE l[1] = n
      <4>1. chan[l] = 0
        BY <2>1, <3>1, <3>2 DEF UninformedInv
      <4> QED
        BY <2>2, <4>1
    <3>3. CASE l[1] # n
      <4>1. informed'[l[1]] = informed[l[1]] /\ source'[l[1]] = source[l[1]]
        BY <2>1, <3>1, <3>3 DEF TypeOK
      <4> QED
        BY <2>2, <4>1 DEF OnePerLink
    <3> QED
      BY <3>2, <3>3
  <2> QED
    BY <1>00, <2>5, <2>6, <2>7, <2>8, <2>9
<1>5. ASSUME NEW n \in Agents, Drop(n) PROVE Inv'
  <2>1. UNCHANGED <<pc, informed, source, todo, writing>>
    BY <1>5 DEF Drop
  <2>2. UninformedInv' /\ OwedInv' /\ OnePerLink'
    BY <1>5, <2>1, NothingSent, TakeInputFacts DEF Drop
  <2> QED
    BY <1>00, <2>1, <2>2 DEF StartInv, WritingInv
<1>6. ASSUME NEW n \in Agents, OpenPipe(n) PROVE Inv'
  <2>1. /\ pc[n] = "send" /\ todo[n] # {} /\ writing' = [writing EXCEPT ![n] = TRUE]
        /\ UNCHANGED <<pc, informed, source, todo, chan>>
    BY <1>6 DEF OpenPipe
  <2>2. UninformedInv' /\ OwedInv' /\ OnePerLink'
    BY <2>1, NothingSent
  <2> QED
    BY <1>00, <2>1, <2>2 DEF TypeOK, StartInv, WritingInv
<1>7. ASSUME NEW n \in Agents, Write(n) PROVE Inv'
  <2> DEFINE k == Lowest(todo[n])
             l == <<n, Neighbours[n][k]>>
  <2>1. /\ todo[n] # {} /\ k \in todo[n] /\ k \in Positions(n) /\ l \in Links
        /\ NextReader(n) = Neighbours[n][k]
    BY <1>7, ReaderFacts DEF Write, WritingInv
  <2>2. /\ chan' = [chan EXCEPT ![l] = @ + 1]
        /\ todo' = [todo EXCEPT ![n] = @ \ {k}]
        /\ writing' = [writing EXCEPT ![n] = FALSE]
        /\ UNCHANGED <<pc, informed, source>>
    BY <1>7, <2>1 DEF Write
  <2>3. informed[n] /\ chan[l] = 0 /\ (n # Initiator => source[n] # Neighbours[n][k])
    BY <2>1 DEF UninformedInv, OwedInv
  <2>4. \A j \in Positions(n) : Neighbours[n][j] = Neighbours[n][k] => j = k
    BY <2>1, GraphAssumption DEF Positions
  <2> HIDE DEF k
  <2>5. chan'[l] = 1 /\ \A o \in Links : o # l => chan'[o] = chan[o]
    BY <2>1, <2>2, <2>3 DEF TypeOK
  <2>6. UninformedInv'
    <3> SUFFICES ASSUME NEW m \in Agents, ~informed[m]
                 PROVE  todo'[m] = {} /\ \A j \in Adjacent(m) : chan'[<<m, j>>] = 0
      BY <2>2 DEF UninformedInv
    <3>1. m # n
      BY <2>3
    <3>2. \A j \in Adjacent(m) : <<m, j>> \in Links /\ <<m, j>> # l
      BY <3>1, PositionFacts DEF Adjacent, Positions
    <3> QED
      BY <2>2, <2>5, <3>1, <3>2 DEF TypeOK, UninformedInv
  <2>7. OwedInv'
    <3> SUFFICES ASSUME NEW m \in Agents, NEW j \in todo'[m]
                 PROVE  /\ chan'[<<m, Neighbours[m][j]>>] = 0
                        /\ m # Initiator => source[m] # Neighbours[m][j]
      BY <2>2 DEF OwedInv
    <3>1. j \in todo[m] /\ (m = n => j # k)
      BY <2>2 DEF TypeOK
    <3>2. j \in Positions(m) /\ <<m, Neighbours[m][j]>> \in Links
      BY <3>1, PositionFacts DEF TypeOK
    <3>3. <<m, Neighbours[m][j]>> # l
      BY <2>4, <3>1, <3>2
    <3> QED
      BY <2>5, <3>1, <3>2, <3>3 DEF OwedInv
  <2>8. StartInv' /\ WritingInv'
    BY <2>2 DEF TypeOK, StartInv, WritingInv
  <2>9. OnePerLink'
    <3> SUFFICES ASSUME NEW o \in Links
                 PROVE  /\ chan'[o] <= 1
                        /\ chan'[o] = 1 => informed[o[1]] /\ (o[1] # Initiator => source[o[1]] # o[2])
      BY <2>2 DEF OnePerLink
    <3>1. CASE o = l
      BY <2>3, <2>5, <3>1
    <3>2. CASE o # l
      BY <2>5, <3>2 DEF OnePerLink
    <3> QED
      BY <3>1, <3>2
  <2> QED
    BY <1>00, <2>6, <2>7, <2>8, <2>9
<1>8. CASE CleanUp
  <2>1. UninformedInv' /\ OwedInv' /\ OnePerLink'
    BY <1>8, NothingSent DEF CleanUp
  <2> QED
    BY <1>00, <1>8, <2>1 DEF CleanUp, StartInv, WritingInv
<1> QED
  BY <1>1, <1>2, <1>3, <1>4, <1>5, <1>6, <1>7, <1>8 DEF Next, Agent

(* The invariant holds at the start.                                       *)
LEMMA InvInit == Init => Inv
<1> SUFFICES ASSUME Init PROVE Inv
  OBVIOUS
<1>1. TypeOK
  <2>1. 0 \in 0..MaxIdle
    BY GraphAssumption
  <2> QED
    BY <2>1 DEF Init, TypeOK
<1>2. UninformedInv
  <2>1. \A n \in Agents : \A m \in Adjacent(n) : <<n, m>> \in Links
    BY PositionFacts DEF Adjacent, Positions
  <2> QED
    BY <2>1 DEF Init, UninformedInv
<1>3. StartInv /\ OwedInv /\ WritingInv /\ OnePerLink
  BY GraphAssumption DEF Init, StartInv, OwedInv, WritingInv, OnePerLink
<1> QED
  BY <1>1, <1>2, <1>3 DEF Inv

(* Every variable keeps its type, for any network.                         *)
THEOREM TypeCorrect == Spec => []TypeOK
<1>1. Inv => TypeOK
  BY DEF Inv
<1> QED
  BY <1>1, InvInit, InvStep, PTL DEF Spec

(* For any network and any timing, early exits and broken pipes included:  *)
(* no pipe holds the message twice, so that no read finds two run together, *)
(* and it never goes back to its source (flooding.c:52-58).                *)
THEOREM OnePerLinkCorrect == Spec => []OnePerLink
<1>1. Inv => OnePerLink
  BY DEF Inv
<1> QED
  BY <1>1, InvInit, InvStep, PTL DEF Spec
-----------------------------------------------------------------------------
Informed == {n \in Agents : informed[n]}

(* An agent only looks at pipes that an informed neighbour has written.    *)
ReadyInv == \A n \in Agents : \A k \in ready[n] : informed[Neighbours[n][k]]

(* The depths count the agents informed before.                            *)
Deepens(depth) == \A n \in Agents : informed[n] =>
    /\ depth[n] < Cardinality(Informed)
    /\ n # Initiator => /\ informed[source[n]] /\ n \in Adjacent(source[n])
                        /\ depth[source[n]] < depth[n]

TreeInv == \E depth \in [Agents -> 0..(N - 1)] : Deepens(depth)

(* There are N agents, and fewer are informed before another one is.       *)
LEMMA InformedFacts ==
  ASSUME TypeOK, NEW n \in Agents, ~informed[n], informed' = [informed EXCEPT ![n] = TRUE]
  PROVE  /\ Cardinality(Informed) \in 0..(N - 1)
         /\ Cardinality(Informed') = Cardinality(Informed) + 1
<1>1. N \in Nat /\ N > 0 /\ Agents = 0..(N - 1)
  BY GraphAssumption DEF Agents
<1>2. IsFiniteSet(Agents) /\ Cardinality(Agents) = N
  BY <1>1, FS_Interval
<1>3. IsFiniteSet(Agents \ {n}) /\ Cardinality(Agents \ {n}) = N - 1
  BY <1>2, FS_RemoveElement
<1>4. Informed \in SUBSET (Agents \ {n}) /\ n \notin Informed
  BY DEF Informed
<1>5. IsFiniteSet(Informed) /\ Cardinality(Informed) <= N - 1
  BY <1>3, <1>4, FS_Subset
<1>6. Cardinality(Informed) \in Nat
  BY <1>5, FS_CardinalityType
<1>7. Informed' = Informed \cup {n}
  BY DEF TypeOK, Informed
<1>8. Cardinality(Informed \cup {n}) = Cardinality(Informed) + 1
  BY <1>4, <1>5, FS_AddElement
<1> QED
  BY <1>1, <1>5, <1>6, <1>7, <1>8

(* An agent that joins is one level below everybody.                       *)
LEMMA TreeGrows ==
  ASSUME TypeOK, TreeInv, NEW n \in Agents, ~informed[n],
         informed' = [informed EXCEPT ![n] = TRUE],
         \A m \in Agents \ {n} : source'[m] = source[m],
         n # Initiator => /\ source'[n] \in Agents /\ informed[source'[n]]
                          /\ n \in Adjacent(source'[n])
  PROVE  TreeInv'
<1> DEFINE size == Cardinality(Informed)
<1>1. size \in 0..(N - 1) /\ Cardinality(Informed') = size + 1
  BY InformedFacts
<1>2. PICK depth \in [Agents -> 0..(N - 1)] : Deepens(depth)
  BY DEF TreeInv
<1> HIDE DEF size
<1> DEFINE new == [depth EXCEPT ![n] = size]
<1>3. new \in [Agents -> 0..(N - 1)] /\ \A m \in Agents : depth[m] \in 0..(N - 1)
  BY <1>1, <1>2
<1>4. /\ new[n] = size /\ \A m \in Agents \ {n} : new[m] = depth[m]
      /\ informed'[n] /\ \A m \in Agents \ {n} : informed'[m] = informed[m]
  BY <1>2 DEF TypeOK
<1>5. size \in Int /\ size < size + 1 /\ \A m \in Agents : depth[m] \in Int
  BY <1>1, <1>3
<1>6. \A m \in Agents : informed[m] =>
        /\ m # n /\ depth[m] < size
        /\ m # Initiator => /\ informed[source[m]] /\ m \in Adjacent(source[m])
                            /\ depth[source[m]] < depth[m]
                            /\ source[m] \in Agents /\ source[m] # n
  BY <1>2 DEF Deepens, TypeOK, size
<1> HIDE DEF new
<1>7. ASSUME NEW m \in Agents, informed'[m]
      PROVE  /\ new[m] < size + 1
             /\ m # Initiator => /\ informed'[source'[m]] /\ m \in Adjacent(source'[m])
                                 /\ new[source'[m]] < new[m]
  <2>1. CASE m = n
    <3>1. new[m] < size + 1
      BY <1>4, <1>5, <2>1
    <3>2. ASSUME m # Initiator
          PROVE  /\ informed'[source'[m]] /\ m \in Adjacent(source'[m])
                 /\ new[source'[m]] < new[m]
      <4>1. source'[n] \in Agents /\ informed[source'[n]] /\ n \in Adjacent(source'[n])
        BY <2>1, <3>2
      <4>2. source'[n] # n /\ depth[source'[n]] < size
        BY <1>6, <4>1
      <4> QED
        BY <1>4, <2>1, <4>1, <4>2
    <3> QED
      BY <3>1, <3>2
  <2>2. CASE m # n
    <3>1. informed[m] /\ new[m] = depth[m] /\ source'[m] = source[m]
      BY <1>4, <1>7, <2>2
    <3>2. new[m] < size + 1
      BY <1>5, <1>6, <3>1
    <3> QED
      BY <1>4, <1>6, <3>1, <3>2
  <2> QED
    BY <2>1, <2>2
<1>8. PICK d \in [Agents -> 0..(N - 1)] : d = new
  BY <1>3
<1>9. Deepens(d)'
  BY <1>1, <1>7, <1>8 DEF Deepens
<1> QED
  BY <1>9 DEF TreeInv

(* Without a new one the tree stays as it is.                              *)
LEMMA TreeStays ==
  ASSUME TreeInv, UNCHANGED <<informed, source>>
  PROVE  TreeInv'
BY DEF TreeInv, Deepens, Informed

(* Every step keeps the tree.                                              *)
LEMMA TreeStep == Inv /\ ReadyInv /\ TreeInv /\ [Next]_vars => ReadyInv' /\ TreeInv'
<1> SUFFICES ASSUME Inv, ReadyInv, TreeInv, [Next]_vars PROVE ReadyInv' /\ TreeInv'
  OBVIOUS
<1>0. TypeOK
  BY DEF Inv
<1>1. CASE UNCHANGED <<informed, source, ready>>
  BY <1>1, TreeStays DEF ReadyInv
<1>2. ASSUME NEW n \in Agents, OpenPipes(n), n = Initiator PROVE ReadyInv' /\ TreeInv'
  <2>1. /\ informed' = [informed EXCEPT ![n] = TRUE] /\ UNCHANGED <<source, ready>>
        /\ ~informed[n]
    BY <1>2 DEF OpenPipes, Inv, StartInv
  <2>2. TreeInv'
    BY <1>0, <1>2, <2>1, TreeGrows
  <2>3. ReadyInv'
    BY <1>0, <2>1, PositionFacts DEF TypeOK, ReadyInv
  <2> QED
    BY <2>2, <2>3
<1>3. ASSUME NEW n \in Agents, Select(n) PROVE ReadyInv' /\ TreeInv'
  <2>1. /\ UNCHANGED <<informed, source>>
        /\ ready' = [ready EXCEPT ![n] = HasInput(n)]
    BY <1>3 DEF Select
  <2>2. ASSUME NEW k \in HasInput(n) PROVE informed[Neighbours[n][k]]
    <3>1. k \in Positions(n) /\ chan[<<Neighbours[n][k], n>>] > 0
      BY DEF HasInput
    <3>2. Neighbours[n][k] \in Agents /\ n \in Adjacent(Neighbours[n][k])
      BY <3>1, PositionFacts, GraphAssumption
    <3> QED
      BY <3>1, <3>2 DEF Inv, UninformedInv
  <2>3. ReadyInv'
    BY <1>0, <2>1, <2>2 DEF TypeOK, ReadyInv
  <2> QED
    BY <2>1, <2>3, TreeStays
<1>4. ASSUME NEW n \in Agents, Inform(n) \/ Drop(n) PROVE ReadyInv' /\ TreeInv'
  <2>1. ready[n] # {} /\ ready' = [ready EXCEPT ![n] = @ \ {Lowest(ready[n])}]
    BY <1>4 DEF Inform, Drop, TakeInput
  <2>2. \A m \in Agents : ready'[m] \subseteq ready[m] /\ ready[m] \subseteq Positions(m)
    BY <1>0, <2>1 DEF TypeOK
  <2>3. \A m \in Agents : informed[m] => informed'[m]
    BY <1>0, <1>4 DEF TypeOK, Inform, Drop
  <2>4. ReadyInv'
    BY <2>2, <2>3, PositionFacts DEF ReadyInv
  <2>5. CASE Inform(n)
    <3>1. /\ ~informed[n] /\ informed' = [informed EXCEPT ![n] = TRUE]
          /\ source' = [source EXCEPT ![n] = From(n)]
      BY <2>5 DEF Inform
    <3>2. From(n) \in Agents /\ From(n) \in Adjacent(n) /\ Lowest(ready[n]) \in ready[n]
      BY <1>0, <2>1, FromFacts
    <3>3. informed[From(n)]
      BY <3>2 DEF ReadyInv, From
    <3>4. n \in Adjacent(From(n))
      BY <3>2, GraphAssumption
    <3>5. source'[n] = From(n) /\ \A m \in Agents \ {n} : source'[m] = source[m]
      BY <1>0, <3>1 DEF TypeOK
    <3>6. TreeInv'
      BY <1>0, <3>1, <3>2, <3>3, <3>4, <3>5, TreeGrows
    <3> QED
      BY <2>4, <3>6
  <2>6. CASE Drop(n)
    BY <2>4, <2>6, TreeStays DEF Drop
  <2> QED
    BY <1>4, <2>5, <2>6
<1>5. ASSUME NEW n \in Agents,
             \/ OpenPipes(n) /\ n # Initiator
             \/ Timeout(n) \/ Exit(n) \/ EndScan(n)
             \/ OpenPipe(n) \/ Write(n) \/ BrokenPipe(n) \/ EndSend(n)
      PROVE  UNCHANGED <<informed, source, ready>>
  BY <1>5 DEF OpenPipes, Timeout, Exit, EndScan, OpenPipe, Write, BrokenPipe, EndSend
<1>6. ASSUME CleanUp \/ UNCHANGED vars PROVE UNCHANGED <<informed, source, ready>>
  BY <1>6 DEF CleanUp, vars
<1> QED
  BY <1>1, <1>2, <1>3, <1>4, <1>5, <1>6 DEF Next, Agent

(* Nobody is informed at the start.                                        *)
LEMMA TreeInit == Init => ReadyInv /\ TreeInv
<1> SUFFICES ASSUME Init PROVE ReadyInv /\ TreeInv
  OBVIOUS
<1>1. [n \in Agents |-> 0] \in [Agents -> 0..(N - 1)]
  BY GraphAssumption
<1>2. Deepens([n \in Agents |-> 0])
  BY DEF Init, Deepens
<1> QED
  BY <1>1, <1>2 DEF Init, ReadyInv, TreeInv

(* For any network and any timing, the first contacts (flooding.c:47-49)   *)
(* form a tree rooted in the initiator: no cycle of sources can arise.     *)
THEOREM TreeCorrect == Spec => []SpanningTree
<1>1. TreeInv => SpanningTree
  BY DEF TreeInv, Deepens, SpanningTree
<1> QED
  BY <1>1, InvInit, InvStep, TreeInit, TreeStep, PTL DEF Spec
-----------------------------------------------------------------------------
(* Nobody is left behind by a wave that everybody waits out.               *)

(* An agent that is not sending owes nothing.                              *)
PaidInv == \A n \in Agents : pc[n] \notin {"send", "killed"} => todo[n] = {}

(* Over each link the news has passed, is under way, or is still owed.     *)
SpreadInv == \A l \in Links : informed[l[1]] =>
    \/ informed[l[2]]
    \/ chan[l] > 0
    \/ \E k \in todo[l[1]] : Neighbours[l[1]][k] = l[2]

(* The wave is over: everybody has the message and nothing is under way.   *)
Over == /\ \A n \in Agents : pc[n] \in {"select", "done"} /\ informed[n] /\ todo[n] = {}
        /\ \A l \in Links : chan[l] = 0

OverInv == prompt /\ (\E n \in Agents : idle[n] = MaxIdle \/ pc[n] \in Gone) => Over

(* Once the wave is over, agents only time out and exit.                   *)
LEMMA OverStays == TypeOK /\ Over /\ [Next]_vars => Over'
<1> SUFFICES ASSUME TypeOK, Over, [Next]_vars PROVE Over'
  OBVIOUS
<1>1. ASSUME NEW n \in Agents
      PROVE  /\ pc[n] \in {"select", "done"} /\ informed[n] /\ todo[n] = {} /\ HasInput(n) = {}
  <2>1. ASSUME NEW k \in Positions(n) PROVE ~(chan[<<Neighbours[n][k], n>>] > 0)
    <3>1. chan[<<Neighbours[n][k], n>>] = 0
      BY PositionFacts DEF Over
    <3> QED
      BY <3>1
  <2>2. HasInput(n) = {}
    BY <2>1 DEF HasInput
  <2> QED
    BY <2>2 DEF Over
<1>2. CASE UNCHANGED vars \/ CleanUp
  BY <1>2 DEF vars, CleanUp, Over
<1>3. ASSUME NEW n \in Agents, Timeout(n) PROVE Over'
  BY <1>3 DEF Timeout, Over
<1>4. ASSUME NEW n \in Agents, Exit(n) PROVE Over'
  BY <1>4 DEF TypeOK, Exit, Goto, Over
<1>5. ASSUME NEW n \in Agents,
             \/ OpenPipes(n) \/ Select(n) \/ Inform(n) \/ Drop(n) \/ EndScan(n)
             \/ OpenPipe(n) \/ Write(n) \/ BrokenPipe(n) \/ EndSend(n)
      PROVE  FALSE
  BY <1>1, <1>5 DEF OpenPipes, Select, Inform, Drop, TakeInput, EndScan, OpenPipe, Write,
                    BrokenPipe, EndSend
<1> QED
  BY <1>2, <1>3, <1>4, <1>5 DEF Next, Agent

(* When nothing is under way the news has reached the whole network.       *)
LEMMA QuietIsOver ==
  ASSUME Inv, PaidInv, SpreadInv, Quiet
  PROVE  Over
<1>1. \A n \in Agents : pc[n] \in {"select", "done"} /\ todo[n] = {}
  BY DEF Quiet, PaidInv
<1>2. \A l \in Links : l[1] \in Agents /\ l[2] \in Agents
  BY PositionFacts DEF Links, Adjacent, Positions
<1>3. Initiator \in Informed
  BY <1>1, GraphAssumption DEF Inv, StartInv, Informed
<1>4. \A l \in Links : l[1] \in Informed => l[2] \in Informed
  BY <1>1, <1>2 DEF Quiet, SpreadInv, Informed
<1>5. Informed = Agents
  BY <1>3, <1>4, ConnectedAssumption DEF Informed
<1> QED
  BY <1>1, <1>5 DEF Quiet, Over, Informed

LEMMA SpreadStep ==
  Inv /\ ReadyInv /\ PaidInv /\ SpreadInv /\ [Next]_vars => PaidInv' /\ SpreadInv'
<1> SUFFICES ASSUME Inv, ReadyInv, PaidInv, SpreadInv, [Next]_vars PROVE PaidInv' /\ SpreadInv'
  OBVIOUS
<1>0. TypeOK
  BY DEF Inv
<1>ends. \A l \in Links : /\ l[1] \in Agents /\ l[2] \in Agents /\ l[2] \in Adjacent(l[1])
                          /\ l = <<l[1], l[2]>>
  BY PositionFacts DEF Links, Adjacent, Positions
<1>1. CASE UNCHANGED vars \/ CleanUp
  BY <1>1 DEF vars, CleanUp, PaidInv, SpreadInv
<1>2. ASSUME NEW n \in Agents, OpenPipes(n) PROVE PaidInv' /\ SpreadInv'
  <2>1. CASE n = Initiator
    <3>1. /\ informed' = [informed EXCEPT ![n] = TRUE]
          /\ todo' = [todo EXCEPT ![n] = Positions(n)]
          /\ pc' = [pc EXCEPT ![n] = "send"] /\ UNCHANGED chan
      BY <1>2, <2>1 DEF OpenPipes, Goto
    <3>2. PaidInv'
      BY <1>0, <3>1 DEF TypeOK, PaidInv
    <3>3. SpreadInv'
      <4> SUFFICES ASSUME NEW l \in Links, informed'[l[1]], ~informed'[l[2]], ~(chan'[l] > 0)
                   PROVE  \E k \in todo'[l[1]] : Neighbours[l[1]][k] = l[2]
        BY DEF SpreadInv
      <4>1. CASE l[1] = n
        BY <1>0, <1>ends, <3>1, <4>1 DEF TypeOK, Adjacent, Positions
      <4>2. CASE l[1] # n
        BY <1>0, <1>ends, <3>1, <4>2 DEF TypeOK, SpreadInv
      <4> QED
        BY <4>1, <4>2
    <3> QED
      BY <3>2, <3>3
  <2>2. CASE n # Initiator
    <3>1. /\ pc' = [pc EXCEPT ![n] = "select"] /\ pc[n] = "open"
          /\ UNCHANGED <<informed, todo, chan>>
      BY <1>2, <2>2 DEF OpenPipes, Goto
    <3> QED
      BY <1>0, <3>1 DEF TypeOK, PaidInv, SpreadInv
  <2> QED
    BY <2>1, <2>2
<1>3. ASSUME NEW n \in Agents,
             \/ Select(n) \/ Timeout(n) \/ Exit(n) \/ EndScan(n)
             \/ OpenPipe(n) \/ BrokenPipe(n) \/ EndSend(n)
      PROVE  PaidInv' /\ SpreadInv'
  <2>1. UNCHANGED <<informed, todo, chan>>
    BY <1>3 DEF Select, Timeout, Exit, EndScan, OpenPipe, BrokenPipe, EndSend
  <2>2. \A m \in Agents : pc'[m] \notin {"send", "killed"} =>
          pc[m] \notin {"send", "killed"} \/ todo[m] = {}
    BY <1>0, <1>3 DEF TypeOK, Select, Timeout, Exit, EndScan, OpenPipe, BrokenPipe, EndSend, Goto
  <2> QED
    BY <2>1, <2>2 DEF PaidInv, SpreadInv
<1>4. ASSUME NEW n \in Agents, Inform(n) \/ Drop(n) PROVE PaidInv' /\ SpreadInv'
  <2>1. /\ ready[n] # {} /\ pc[n] = "scan"
        /\ chan' = [chan EXCEPT ![<<From(n), n>>] = 0]
    BY <1>4 DEF Inform, Drop, TakeInput
  <2>2. /\ From(n) \in Agents /\ <<From(n), n>> \in Links /\ informed[From(n)]
    BY <1>0, <2>1, FromFacts DEF ReadyInv, From
  <2>3. \A l \in Links : l[2] # n => chan'[l] = chan[l]
    BY <1>0, <1>ends, <2>1 DEF TypeOK
  <2>4. CASE Inform(n)
    <3>1. /\ informed' = [informed EXCEPT ![n] = TRUE]
          /\ todo' = [todo EXCEPT ![n] = Others(n)]
          /\ pc' = [pc EXCEPT ![n] = "send"]
      BY <2>4 DEF Inform, Goto
    <3>2. PaidInv'
      BY <1>0, <3>1 DEF TypeOK, PaidInv
    <3>3. SpreadInv'
      <4> SUFFICES ASSUME NEW l \in Links, informed'[l[1]], ~informed'[l[2]], ~(chan'[l] > 0)
                   PROVE  \E k \in todo'[l[1]] : Neighbours[l[1]][k] = l[2]
        BY DEF SpreadInv
      <4>1. l[2] # n /\ chan'[l] = chan[l] /\ ~informed[l[2]] /\ l[2] # From(n)
        BY <1>0, <1>ends, <2>2, <2>3, <3>1 DEF TypeOK
      <4>2. CASE l[1] = n
        <5>1. PICK k \in Positions(n) : Neighbours[n][k] = l[2]
          BY <1>ends, <4>2 DEF Adjacent, Positions
        <5>2. k \in Others(n) /\ todo'[n] = Others(n)
          BY <1>0, <3>1, <4>1, <5>1 DEF TypeOK, Others
        <5> QED
          BY <4>2, <5>1, <5>2
      <4>3. CASE l[1] # n
        BY <1>0, <1>ends, <3>1, <4>1, <4>3 DEF TypeOK, SpreadInv
      <4> QED
        BY <4>2, <4>3
    <3> QED
      BY <3>2, <3>3
  <2>5. CASE Drop(n)
    <3>1. informed[n] /\ UNCHANGED <<pc, informed, todo>>
      BY <2>5 DEF Drop
    <3> QED
      BY <2>3, <3>1 DEF PaidInv, SpreadInv
  <2> QED
    BY <1>4, <2>4, <2>5
<1>5. ASSUME NEW n \in Agents, Write(n) PROVE PaidInv' /\ SpreadInv'
  <2>1. /\ pc[n] = "send" /\ todo[n] # {} /\ UNCHANGED <<pc, informed>>
        /\ chan' = [chan EXCEPT ![<<n, NextReader(n)>>] = @ + 1]
        /\ todo' = [todo EXCEPT ![n] = @ \ {Lowest(todo[n])}]
    BY <1>5 DEF Write, Inv, WritingInv
  <2>2. <<n, NextReader(n)>> \in Links /\ NextReader(n) = Neighbours[n][Lowest(todo[n])]
    BY <1>0, <2>1, ReaderFacts
  <2>3. \A l \in Links : chan[l] \in Nat /\ chan'[l] \in Nat /\ chan'[l] >= chan[l]
    BY <1>0, <2>1 DEF TypeOK
  <2>4. chan'[<<n, NextReader(n)>>] > 0
    BY <1>0, <2>1, <2>2 DEF TypeOK
  <2>5. SpreadInv'
    <3> SUFFICES ASSUME NEW l \in Links, informed[l[1]], ~informed[l[2]], ~(chan'[l] > 0)
                 PROVE  \E k \in todo'[l[1]] : Neighbours[l[1]][k] = l[2]
      BY <2>1 DEF SpreadInv
    <3>1. PICK k \in todo[l[1]] : Neighbours[l[1]][k] = l[2]
      BY <1>0, <2>3 DEF TypeOK, SpreadInv
    <3>2. k \in todo'[l[1]]
      <4>1. CASE l[1] = n
        BY <1>0, <1>ends, <2>1, <2>2, <2>4, <3>1, <4>1 DEF TypeOK
      <4>2. CASE l[1] # n
        BY <1>0, <1>ends, <2>1, <3>1, <4>2 DEF TypeOK
      <4> QED
        BY <4>1, <4>2
    <3> QED
      BY <3>1, <3>2
  <2> QED
    BY <1>0, <2>1, <2>5 DEF TypeOK, PaidInv
<1> QED
  BY <1>1, <1>2, <1>3, <1>4, <1>5 DEF Next, Agent

LEMMA OverStep ==
  Inv /\ PaidInv /\ SpreadInv /\ OverInv /\ [Next]_vars => OverInv'
<1> SUFFICES ASSUME Inv, PaidInv, SpreadInv, OverInv, [Next]_vars, prompt',
                    NEW n \in Agents, idle'[n] = MaxIdle \/ pc'[n] \in Gone
             PROVE  Over'
  BY DEF OverInv
<1>0. TypeOK /\ prompt
  BY DEF Inv, TypeOK, Next, Agent, OpenPipes, Select, Timeout, Exit, Inform, Drop, EndScan,
         OpenPipe, Write, BrokenPipe, EndSend, CleanUp, vars
<1>1. CASE Over
  BY <1>0, <1>1, OverStays
<1>2. CASE ~Over
  <2>1. \A m \in Agents : idle[m] # MaxIdle /\ pc[m] \notin Gone
    BY <1>0, <1>2 DEF OverInv
  <2>2. CASE \E m \in Agents : Timeout(m)
    <3>1. PICK m \in Agents : Timeout(m)
      BY <2>2
    <3>2. pc' = pc /\ idle' = [idle EXCEPT ![m] = @ + 1]
      BY <3>1 DEF Timeout
    <3>3. idle[m] + 1 = MaxIdle
      BY <1>0, <2>1, <3>2 DEF TypeOK
    <3>4. Quiet
      BY <1>0, <3>1, <3>3 DEF Timeout
    <3> QED
      BY <1>2, <3>4, QuietIsOver
  <2>3. ASSUME NEW m \in Agents,
               \/ OpenPipes(m) \/ Select(m) \/ EndScan(m)
               \/ OpenPipe(m) \/ Write(m) \/ EndSend(m)
        PROVE  FALSE
    <3>1. UNCHANGED idle /\ \A k \in Agents : pc'[k] \in Gone => pc[k] \in Gone
      BY <1>0, <2>3 DEF TypeOK, Gone, OpenPipes, Select, EndScan, OpenPipe, Write, EndSend, Goto
    <3> QED
      BY <2>1, <3>1
  <2>4. ASSUME NEW m \in Agents, Inform(m) \/ Drop(m) PROVE FALSE
    <3>1. /\ idle' = [idle EXCEPT ![m] = 0]
          /\ \A k \in Agents : pc'[k] \in Gone => pc[k] \in Gone
      BY <1>0, <2>4 DEF TypeOK, Gone, Inform, Drop, TakeInput, Goto
    <3> QED
      BY <1>0, <2>1, <3>1, GraphAssumption DEF TypeOK
  <2>5. ASSUME NEW m \in Agents, Exit(m) PROVE FALSE
    BY <2>1, <2>5 DEF Exit
  <2>6. ASSUME NEW m \in Agents, BrokenPipe(m) PROVE FALSE
    <3>1. todo[m] # {} /\ pc[NextReader(m)] \in Gone
      BY <2>6 DEF BrokenPipe, Inv, WritingInv
    <3>2. NextReader(m) \in Agents
      BY <1>0, <3>1, ReaderFacts, PositionFacts DEF Links
    <3> QED
      BY <2>1, <3>1, <3>2
  <2>7. CASE UNCHANGED vars \/ CleanUp
    BY <2>1, <2>7 DEF vars, CleanUp
  <2> QED
    BY <2>2, <2>3, <2>4, <2>5, <2>6, <2>7 DEF Next, Agent
<1> QED
  BY <1>1, <1>2

(* In a connected network whose agents wait the wave out, nobody exits     *)
(* before having the message and passing it on (flooding.c:47-58), and     *)
(* nobody is killed by a closed pipe.                                      *)
THEOREM NobodyLeftBehind == Spec => []NobodyExitsUninformed
<1>1. Init => PaidInv /\ SpreadInv /\ OverInv
  <2>1. MaxIdle # 0
    BY GraphAssumption
  <2> QED
    BY <2>1 DEF Init, PaidInv, SpreadInv, OverInv, Gone, Links
<1>2. OverInv => NobodyExitsUninformed
  BY DEF OverInv, Over, NobodyExitsUninformed
<1> QED
  BY <1>1, <1>2, InvInit, InvStep, TreeInit, TreeStep, SpreadStep, OverStep, PTL DEF Spec
=============================================================================
