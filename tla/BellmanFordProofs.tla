-------------------------- MODULE BellmanFordProofs --------------------------
(***************************************************************************)
(* The safety of the distance vectors of BellmanFord, proved for every     *)
(* network and every timing, with early exits and lost updates.            *)
(*                                                                         *)
(* Distances only fall.  So a number on its way, in a pipe or in the hands *)
(* of its reader, is never below the distance its sender has by now, and   *)
(* what is learnt from it is neither too short nor a route in a circle.    *)
(* And when messages keep their distance and nobody gives up early, a      *)
(* network in which nothing is under way has the shortest distances.       *)
(***************************************************************************)
EXTENDS BellmanFord, TLAPS, WellFoundedInduction, FiniteSetTheorems

(* What a node has still to look at is a neighbour's pipe with something in it. *)
ReadyInv == \A n \in Nodes : \A i \in ready[n] : i \in Neighbours(n) /\ chan[<<i, n>>] # <<>>

(* msg() writes to neighbours only, and there is one left while it runs.   *)
TodoInv == \A n \in Nodes : /\ todo[n] \subseteq Neighbours(n)
                            /\ pc[n] = "send" => todo[n] # {}

(* No number on its way is below the distance of its sender.               *)
PipeInv == \A l \in Links : \A k \in 1..Len(chan[l]) : chan[l][k] >= dist[l[1]]

HeldInv == \A n \in Nodes : pc[n] = "apply" =>
              sender[n] \in Neighbours(n) /\ reported[n] >= dist[sender[n]]

Inv == TypeOK /\ ReadyInv /\ TodoInv /\ PipeInv /\ HeldInv /\ NeverTooShort /\ RoutesDescend

-----------------------------------------------------------------------------
(* The network.                                                            *)

(* A nonempty set of naturals has a least element.                         *)
LEMMA NatMinimum ==
  ASSUME NEW S \in SUBSET Nat, S # {}
  PROVE  \E m \in S : \A n \in S : m <= n
<1> DEFINE Less == {nm \in Nat \X Nat : nm[1] < nm[2]}
<1>1. IsWellFoundedOn(Less, Nat)
  BY NatLessThanWellFounded DEF OpToRel
<1>2. \A n, m \in Nat : n < m => <<n, m>> \in Less
  OBVIOUS
<1> HIDE DEF Less
<1>3. PICK m \in S : \A n \in S : <<n, m>> \notin Less
  BY <1>1, WFMin
<1>4. \A n \in S : ~(n < m)
  BY <1>2, <1>3
<1> QED
  BY <1>4

LEMMA NeighbourFacts ==
  ASSUME NEW n \in Nodes, NEW i \in Neighbours(n)
  PROVE  /\ i \in Nodes /\ i # n /\ n \in Neighbours(i)
         /\ <<i, n>> \in Links /\ <<n, i>> \in Links
         /\ Cost[n][i] \in Nat
<1>1. /\ i \in Nodes
      /\ Cost[n][i] # Inf /\ Cost[n][i] # 0
      /\ Cost[i][n] = Cost[n][i] /\ Cost[n][n] = 0
      /\ Cost[n][i] \in Nat
  BY GraphAssumption DEF Neighbours
<1>2. i # n /\ n \in Neighbours(i)
  BY <1>1 DEF Neighbours
<1> QED
  BY <1>1, <1>2 DEF Links

LEMMA LinkFacts ==
  ASSUME NEW l \in Links
  PROVE  l[1] \in Nodes /\ l[2] \in Nodes /\ l[2] \in Neighbours(l[1])
  BY DEF Links

LEMMA NeighboursType == \A n \in Nodes : Neighbours(n) \subseteq Nodes
  BY DEF Neighbours

LEMMA NodesAreNaturals == Nodes \subseteq Nat /\ Target \in Nodes /\ None \notin Nodes
  BY GraphAssumption DEF Nodes

LEMMA LowestMember ==
  ASSUME NEW S \in SUBSET Nat, S # {}
  PROVE  Lowest(S) \in S
<1>1. \E i \in S : \A j \in S : i <= j
  BY NatMinimum
<1> QED
  BY <1>1 DEF Lowest

(* What a read finds: a number its sender wrote.                           *)
LEMMA ReadFacts ==
  ASSUME TypeOK, ReadyInv, NEW n \in Nodes, ready[n] # {}
  PROVE  LET i == Lowest(ready[n])
         IN  /\ i \in ready[n] /\ i \in Neighbours(n) /\ i \in Nodes
             /\ <<i, n>> \in Links
             /\ chan[<<i, n>>] \in Seq(Nat) /\ chan[<<i, n>>] # <<>>
             /\ Head(chan[<<i, n>>]) \in Nat
             /\ Head(chan[<<i, n>>]) = chan[<<i, n>>][1]
             /\ 1 \in 1..Len(chan[<<i, n>>])
<1> DEFINE i == Lowest(ready[n])
<1>1. ready[n] \in SUBSET Nat
  BY NodesAreNaturals DEF TypeOK
<1>2. i \in ready[n]
  BY <1>1, LowestMember
<1>3. i \in Neighbours(n) /\ chan[<<i, n>>] # <<>>
  BY <1>2 DEF ReadyInv
<1>4. i \in Nodes /\ <<i, n>> \in Links
  BY <1>3, NeighbourFacts
<1>5. chan[<<i, n>>] \in Seq(Nat)
  BY <1>4 DEF TypeOK
<1> HIDE DEF i
<1>6. /\ Head(chan[<<i, n>>]) \in Nat
      /\ Head(chan[<<i, n>>]) = chan[<<i, n>>][1]
      /\ 1 \in 1..Len(chan[<<i, n>>])
  BY <1>3, <1>5
<1> QED
  BY <1>2, <1>3, <1>4, <1>5, <1>6 DEF i

(* Where msg() writes next.                                                *)
LEMMA WriteFacts ==
  ASSUME TypeOK, TodoInv, NEW n \in Nodes, pc[n] = "send"
  PROVE  /\ NextReader(n) \in todo[n] /\ NextReader(n) \in Neighbours(n)
         /\ NextReader(n) \in Nodes /\ <<n, NextReader(n)>> \in Links
<1>1. todo[n] \in SUBSET Nat /\ todo[n] # {} /\ todo[n] \subseteq Neighbours(n)
  BY NodesAreNaturals DEF TypeOK, TodoInv
<1>2. NextReader(n) \in todo[n]
  BY <1>1, LowestMember DEF NextReader
<1> QED
  BY <1>1, <1>2, NeighbourFacts

-----------------------------------------------------------------------------
(* Types.                                                                  *)

LEMMA InitType == Init => TypeOK
<1> SUFFICES ASSUME Init PROVE TypeOK
  OBVIOUS
<1>1. Inf \in 0..Inf /\ 0 \in 0..Inf /\ 0 \in 0..MaxIdle /\ 0 \in Nat
  BY GraphAssumption
<1>2. dist \in [Nodes -> 0..Inf] /\ hop \in [Nodes -> Nodes \cup {None}]
  BY <1>1 DEF Init
<1>3. chan \in [Links -> Seq(Nat)]
  BY DEF Init
<1> QED
  BY <1>1, <1>2, <1>3 DEF Init, TypeOK, Steps

LEMMA AfterType == \A n \in Nodes : After(n) \in Steps
  BY DEF After, Steps

LEMMA StepType == TypeOK /\ ReadyInv /\ TodoInv /\ [Next]_vars => TypeOK'
<1> SUFFICES ASSUME TypeOK, ReadyInv, TodoInv, [Next]_vars PROVE TypeOK'
  OBVIOUS
<1> USE AfterType DEF TypeOK, Goto, input, output
<1>1. ASSUME NEW n \in Nodes, Node(n) PROVE TypeOK'
  <2>1. CASE OpenPipes(n)
    <3>1. /\ pc' \in [Nodes -> Steps]
          /\ todo' \in [Nodes -> SUBSET Nodes]
      <4>1. CASE n = Target /\ Neighbours(n) # {}
        <5>1. Neighbours(n) \in SUBSET Nodes
          BY NeighboursType
        <5>2. /\ todo' = [todo EXCEPT ![n] = Neighbours(n)]
              /\ pc' = [pc EXCEPT ![n] = "send"]
          BY <2>1, <4>1 DEF OpenPipes
        <5> QED
          BY <5>1, <5>2 DEF Steps
      <4>2. CASE ~(n = Target /\ Neighbours(n) # {})
        BY <2>1, <4>2 DEF OpenPipes, Steps
      <4> QED
        BY <4>1, <4>2
    <3> QED
      BY <2>1, <3>1 DEF OpenPipes
  <2>2. CASE Select(n)
    <3>1. HasInput(n) \subseteq Nodes
      BY DEF HasInput, Neighbours
    <3>2. 0 \in 0..MaxIdle
      BY GraphAssumption
    <3> QED
      BY <2>2, <3>1, <3>2 DEF Select, Steps
  <2>3. CASE Timeout(n)
    <3>1. idle[n] + 1 \in 0..MaxIdle
      BY <2>3, GraphAssumption DEF Timeout
    <3> QED
      BY <2>3, <3>1 DEF Timeout
  <2>4. CASE Exit(n)
    BY <2>4 DEF Exit, Steps
  <2>5. CASE Read(n)
    <3> DEFINE i == Lowest(ready[n])
    <3>1. i \in Nodes /\ Head(chan[<<i, n>>]) \in Nat
      BY <2>5, ReadFacts DEF Read
    <3>2. /\ sender' = [sender EXCEPT ![n] = i]
          /\ reported' = [reported EXCEPT ![n] = Head(chan[<<i, n>>])]
          /\ ready' = [ready EXCEPT ![n] = ready[n] \ {i}]
          /\ chan' = [chan EXCEPT ![<<i, n>>] = <<>>]
          /\ pc' = [pc EXCEPT ![n] = "apply"]
          /\ UNCHANGED <<env, dist, hop, idle, todo, writing, cleaned>>
      BY <2>5 DEF Read
    <3> HIDE DEF i
    <3>3. <<>> \in Seq(Nat)
      OBVIOUS
    <3>4. chan' \in [Links -> Seq(Nat)]
      BY <3>2, <3>3
    <3> QED
      BY <3>1, <3>2, <3>4 DEF Steps
  <2>6. CASE Improve(n)
    <3>1. NewDist(n) \in 0..Inf
      <4>1. Cost[n][sender[n]] \in Nat /\ reported[n] \in Nat /\ dist[n] \in 0..Inf /\ Inf \in Nat
        BY GraphAssumption
      <4> QED
        BY <2>6, <4>1 DEF Improve, NewDist
    <3>2. Neighbours(n) \ {sender[n]} \subseteq Nodes
      BY DEF Neighbours
    <3> QED
      BY <2>6, <3>1, <3>2 DEF Improve, Steps
  <2>7. CASE Ignore(n)
    BY <2>7 DEF Ignore
  <2>8. CASE OpenPipe(n)
    BY <2>8 DEF OpenPipe
  <2>9. CASE Write(n)
    <3> DEFINE j == NextReader(n)
    <3>1. /\ chan' = [chan EXCEPT ![<<n, j>>] = Append(chan[<<n, j>>], dist[n])]
          /\ todo' = [todo EXCEPT ![n] = todo[n] \ {j}]
          /\ pc' = [pc EXCEPT ![n] = IF todo[n] = {j} THEN After(n) ELSE "send"]
          /\ writing' = [writing EXCEPT ![n] = FALSE]
          /\ UNCHANGED <<env, dist, hop, idle, ready, sender, reported, cleaned>>
      BY <2>9 DEF Write
    <3>2. <<n, j>> \in Links
      BY <2>9, WriteFacts DEF Write
    <3> HIDE DEF j
    <3>3. chan[<<n, j>>] \in Seq(Nat) /\ dist[n] \in Nat
      BY <3>2, GraphAssumption
    <3>4. Append(chan[<<n, j>>], dist[n]) \in Seq(Nat)
      BY <3>3
    <3>5. chan' \in [Links -> Seq(Nat)]
      BY <3>1, <3>4
    <3> QED
      BY <3>1, <3>5 DEF Steps
  <2>10. CASE BrokenPipe(n)
    BY <2>10 DEF BrokenPipe, Steps
  <2> QED
    BY <1>1, <2>1, <2>2, <2>3, <2>4, <2>5, <2>6, <2>7, <2>8, <2>9, <2>10 DEF Node
<1>2. CASE CleanUp
  BY <1>2 DEF CleanUp
<1>3. CASE UNCHANGED vars
  BY <1>3 DEF vars
<1> QED
  BY <1>1, <1>2, <1>3 DEF Next

-----------------------------------------------------------------------------
(* The bookkeeping of the loop.                                            *)

(* Distances are naturals and only fall.                                   *)
LEMMA DistFalls ==
  ASSUME TypeOK, TypeOK', [Next]_vars
  PROVE  \A k \in Nodes : dist[k] \in Nat /\ dist'[k] \in Nat /\ dist'[k] <= dist[k]
<1>1. \A k \in Nodes : dist[k] \in Nat /\ dist'[k] \in Nat
  BY GraphAssumption DEF TypeOK
<1>2. ASSUME NEW n \in Nodes, Improve(n) PROVE \A k \in Nodes : dist'[k] <= dist[k]
  BY <1>1, <1>2 DEF Improve, TypeOK
<1>3. CASE UNCHANGED dist
  BY <1>1, <1>3
<1>4. \/ UNCHANGED dist
      \/ \E n \in Nodes : Improve(n)
  BY DEF Next, Node, OpenPipes, Select, Timeout, Exit, Read, Ignore, OpenPipe, Write,
         BrokenPipe, CleanUp, vars
<1> QED
  BY <1>1, <1>2, <1>3, <1>4

(* Only three steps move what is in the pipes or on a node's list.         *)
LEMMA PipeSteps ==
  ASSUME [Next]_vars
  PROVE  \/ UNCHANGED <<ready, chan>>
         \/ \E n \in Nodes : Select(n) \/ Read(n) \/ Write(n)
  BY DEF Next, Node, OpenPipes, Timeout, Exit, Improve, Ignore, OpenPipe, BrokenPipe,
         CleanUp, vars, input

LEMMA StepReady ==
  ASSUME TypeOK, ReadyInv, TodoInv, [Next]_vars
  PROVE  ReadyInv'
<1>1. CASE UNCHANGED <<ready, chan>>
  BY <1>1 DEF ReadyInv
<1>2. ASSUME NEW n \in Nodes, Select(n) PROVE ReadyInv'
  <2>1. ready' = [ready EXCEPT ![n] = HasInput(n)] /\ UNCHANGED chan
    BY <1>2 DEF Select
  <2> QED
    BY <2>1 DEF ReadyInv, HasInput, TypeOK
<1>3. ASSUME NEW n \in Nodes, Read(n) PROVE ReadyInv'
  <2> DEFINE i == Lowest(ready[n])
  <2>1. /\ ready' = [ready EXCEPT ![n] = ready[n] \ {i}]
        /\ chan' = [chan EXCEPT ![<<i, n>>] = <<>>]
    BY <1>3 DEF Read
  <2> HIDE DEF i
  <2> SUFFICES ASSUME NEW m \in Nodes, NEW j \in ready'[m]
               PROVE  j \in Neighbours(m) /\ chan'[<<j, m>>] # <<>>
    BY DEF ReadyInv
  <2>2. j \in ready[m] /\ <<j, m>> # <<i, n>>
    BY <2>1 DEF TypeOK
  <2>3. j \in Neighbours(m) /\ chan[<<j, m>>] # <<>>
    BY <2>2 DEF ReadyInv
  <2>4. <<j, m>> \in Links
    BY <2>3, NeighbourFacts
  <2> QED
    BY <2>1, <2>2, <2>3, <2>4 DEF TypeOK
<1>4. ASSUME NEW n \in Nodes, Write(n) PROVE ReadyInv'
  <2> DEFINE w == <<n, NextReader(n)>>
  <2>1. UNCHANGED ready /\ chan' = [chan EXCEPT ![w] = Append(chan[w], dist[n])]
    BY <1>4 DEF Write, input
  <2> HIDE DEF w
  <2> SUFFICES ASSUME NEW m \in Nodes, NEW j \in ready[m]
               PROVE  j \in Neighbours(m) /\ chan'[<<j, m>>] # <<>>
    BY <2>1 DEF ReadyInv
  <2>2. j \in Neighbours(m) /\ chan[<<j, m>>] # <<>>
    BY DEF ReadyInv
  <2>3. <<j, m>> \in Links /\ chan[<<j, m>>] \in Seq(Nat)
    BY <2>2, NeighbourFacts DEF TypeOK
  <2>4. dist[n] \in Nat
    BY GraphAssumption DEF TypeOK
  <2>5. Append(chan[<<j, m>>], dist[n]) # <<>>
    BY <2>3, <2>4
  <2> QED
    BY <2>1, <2>2, <2>3, <2>5 DEF TypeOK
<1> QED
  BY <1>1, <1>2, <1>3, <1>4, PipeSteps

LEMMA StepTodo ==
  ASSUME TypeOK, TodoInv, [Next]_vars
  PROVE  TodoInv'
<1> USE DEF Goto
<1>1. ASSUME NEW n \in Nodes, UNCHANGED todo,
             \A k \in Nodes : pc'[k] = "send" => pc[k] = "send"
      PROVE  TodoInv'
  BY <1>1 DEF TodoInv
<1>2. ASSUME NEW n \in Nodes, NEW T \in SUBSET Neighbours(n),
             todo' = [todo EXCEPT ![n] = T],
             \E s : pc' = [pc EXCEPT ![n] = s],
             pc'[n] = "send" => T # {}
      PROVE  TodoInv'
  BY <1>2 DEF TodoInv, TypeOK
<1>3. ASSUME NEW n \in Nodes, Node(n) PROVE TodoInv'
  <2>1. CASE OpenPipes(n)
    <3>1. CASE n = Target /\ Neighbours(n) # {}
      BY <1>2, <2>1, <3>1 DEF OpenPipes
    <3>2. CASE ~(n = Target /\ Neighbours(n) # {})
      BY <1>1, <2>1, <3>2 DEF OpenPipes, TypeOK
    <3> QED
      BY <3>1, <3>2
  <2>2. CASE Select(n) \/ Timeout(n) \/ Exit(n) \/ Read(n) \/ BrokenPipe(n)
    BY <1>1, <2>2 DEF Select, Timeout, Exit, Read, BrokenPipe, output, TypeOK
  <2>3. CASE Ignore(n)
    BY <1>1, <2>3 DEF Ignore, After, output, TypeOK
  <2>4. CASE Improve(n)
    <3> DEFINE others == Neighbours(n) \ {sender[n]}
    <3>1. /\ todo' = [todo EXCEPT ![n] = others]
          /\ pc' = [pc EXCEPT ![n] = IF others = {} THEN After(n) ELSE "send"]
          /\ others \in SUBSET Neighbours(n)
      BY <2>4 DEF Improve
    <3>2. pc'[n] = "send" => others # {}
      BY <3>1 DEF After, TypeOK
    <3> HIDE DEF others
    <3> QED
      BY <1>2, <3>1, <3>2
  <2>5. CASE OpenPipe(n)
    BY <1>1, <2>5 DEF OpenPipe
  <2>6. CASE Write(n)
    <3> DEFINE j == NextReader(n)
    <3>1. /\ todo' = [todo EXCEPT ![n] = todo[n] \ {j}]
          /\ pc' = [pc EXCEPT ![n] = IF todo[n] = {j} THEN After(n) ELSE "send"]
          /\ todo[n] \subseteq Neighbours(n) /\ todo[n] # {}
      BY <2>6 DEF Write, TodoInv
    <3> HIDE DEF j
    <3>2. pc'[n] = "send" => todo[n] \ {j} # {}
      BY <3>1 DEF After, TypeOK
    <3>3. todo[n] \ {j} \in SUBSET Neighbours(n)
      BY <3>1
    <3> QED
      BY <1>2, <3>1, <3>2, <3>3
  <2> QED
    BY <1>3, <2>1, <2>2, <2>3, <2>4, <2>5, <2>6 DEF Node
<1>4. CASE CleanUp
  BY <1>4 DEF CleanUp, output, TodoInv
<1>5. CASE UNCHANGED vars
  BY <1>5 DEF vars, output, TodoInv
<1> QED
  BY <1>3, <1>4, <1>5 DEF Next

-----------------------------------------------------------------------------
(* The distances.                                                          *)

LEMMA StepPipe ==
  ASSUME TypeOK, TypeOK', ReadyInv, TodoInv, PipeInv, [Next]_vars
  PROVE  PipeInv'
<1> USE DistFalls
<1> SUFFICES ASSUME NEW l \in Links, NEW k \in 1..Len(chan'[l])
             PROVE  chan'[l][k] >= dist'[l[1]]
  BY DEF PipeInv
<1>1. l[1] \in Nodes /\ chan[l] \in Seq(Nat)
  BY LinkFacts DEF TypeOK
<1>2. dist[l[1]] \in Nat /\ dist'[l[1]] \in Nat /\ dist'[l[1]] <= dist[l[1]]
  BY <1>1
<1>3. ASSUME chan'[l] = chan[l] PROVE chan'[l][k] >= dist'[l[1]]
  <2>1. chan[l][k] >= dist[l[1]] /\ chan[l][k] \in Nat
    BY <1>1, <1>3 DEF PipeInv
  <2> QED
    BY <1>2, <1>3, <2>1
<1>4. ASSUME NEW n \in Nodes, Read(n) PROVE chan'[l][k] >= dist'[l[1]]
  <2> DEFINE r == <<Lowest(ready[n]), n>>
  <2>1. chan' = [chan EXCEPT ![r] = <<>>]
    BY <1>4 DEF Read
  <2> HIDE DEF r
  <2>2. l # r
    BY <2>1 DEF TypeOK
  <2> QED
    BY <1>3, <2>1, <2>2 DEF TypeOK
<1>5. ASSUME NEW n \in Nodes, Write(n) PROVE chan'[l][k] >= dist'[l[1]]
  <2> DEFINE w == <<n, NextReader(n)>>
  <2>1. chan' = [chan EXCEPT ![w] = Append(chan[w], dist[n])]
    BY <1>5 DEF Write
  <2>2. w[1] = n
    OBVIOUS
  <2> HIDE DEF w
  <2>3. CASE l = w
    <3>1. chan'[l] = Append(chan[l], dist[n]) /\ l[1] = n
      BY <2>1, <2>2, <2>3 DEF TypeOK
    <3>2. CASE k = Len(chan[l]) + 1
      <4>1. chan'[l][k] = dist[n]
        BY <1>1, <1>2, <3>1, <3>2
      <4> QED
        BY <1>2, <3>1, <4>1
    <3>3. CASE k # Len(chan[l]) + 1
      <4>1. k \in 1..Len(chan[l]) /\ chan'[l][k] = chan[l][k] /\ chan[l][k] \in Nat
        BY <1>1, <1>2, <3>1, <3>3
      <4>2. chan[l][k] >= dist[l[1]]
        BY <4>1 DEF PipeInv
      <4> QED
        BY <1>2, <4>1, <4>2
    <3> QED
      BY <3>2, <3>3
  <2>4. CASE l # w
    BY <1>3, <2>1, <2>4 DEF TypeOK
  <2> QED
    BY <2>3, <2>4
<1>6. CASE chan' = chan
  BY <1>3, <1>6
<1>7. \A n \in Nodes : Select(n) => chan' = chan
  BY DEF Select
<1> QED
  BY <1>4, <1>5, <1>6, <1>7, PipeSteps

LEMMA StepHeld ==
  ASSUME TypeOK, TypeOK', ReadyInv, PipeInv, HeldInv, [Next]_vars
  PROVE  HeldInv'
<1> USE DistFalls
<1> SUFFICES ASSUME NEW m \in Nodes, pc'[m] = "apply"
             PROVE  sender'[m] \in Neighbours(m) /\ reported'[m] >= dist'[sender'[m]]
  BY DEF HeldInv
<1>1. ASSUME pc[m] = "apply", sender'[m] = sender[m], reported'[m] = reported[m]
      PROVE  sender'[m] \in Neighbours(m) /\ reported'[m] >= dist'[sender'[m]]
  <2>1. sender[m] \in Neighbours(m) /\ reported[m] >= dist[sender[m]]
    BY <1>1 DEF HeldInv
  <2>2. sender[m] \in Nodes /\ reported[m] \in Nat
    BY DEF TypeOK
  <2> QED
    BY <1>1, <2>1, <2>2
<1>2. ASSUME NEW n \in Nodes, Read(n)
      PROVE  sender'[m] \in Neighbours(m) /\ reported'[m] >= dist'[sender'[m]]
  <2> DEFINE i == Lowest(ready[n])
  <2>1. /\ sender' = [sender EXCEPT ![n] = i]
        /\ reported' = [reported EXCEPT ![n] = Head(chan[<<i, n>>])]
        /\ pc' = [pc EXCEPT ![n] = "apply"]
        /\ ready[n] # {}
    BY <1>2 DEF Read, Goto
  <2>2. /\ i \in Neighbours(n) /\ i \in Nodes /\ <<i, n>> \in Links
        /\ Head(chan[<<i, n>>]) \in Nat
        /\ Head(chan[<<i, n>>]) = chan[<<i, n>>][1]
        /\ 1 \in 1..Len(chan[<<i, n>>])
    BY <2>1, ReadFacts
  <2>3. <<i, n>>[1] = i
    OBVIOUS
  <2> HIDE DEF i
  <2>4. Head(chan[<<i, n>>]) >= dist[i]
    BY <2>2, <2>3 DEF PipeInv
  <2>5. CASE m = n
    <3>1. sender'[m] = i /\ reported'[m] = Head(chan[<<i, n>>])
      BY <2>1, <2>5 DEF TypeOK
    <3>2. dist[i] \in Nat /\ dist'[i] \in Nat /\ dist'[i] <= dist[i]
      BY <2>2
    <3> QED
      BY <2>2, <2>4, <2>5, <3>1, <3>2
  <2>6. CASE m # n
    BY <1>1, <2>1, <2>6 DEF TypeOK
  <2> QED
    BY <2>5, <2>6
<1>3. ASSUME NEW n \in Nodes, Node(n), ~Read(n) PROVE pc[m] = "apply"
  BY <1>3 DEF Node, OpenPipes, Select, Timeout, Exit, Improve, Ignore, OpenPipe, Write,
              BrokenPipe, Goto, After, TypeOK
<1>4. ASSUME NEW n \in Nodes, Node(n), ~Read(n) PROVE UNCHANGED <<sender, reported>>
  BY <1>4 DEF Node, OpenPipes, Select, Timeout, Exit, Improve, Ignore, OpenPipe, Write,
              BrokenPipe, input
<1>5. CASE CleanUp \/ UNCHANGED vars
  BY <1>1, <1>5 DEF CleanUp, vars, input
<1> QED
  BY <1>1, <1>2, <1>3, <1>4, <1>5 DEF Next

(* A distance that is learnt is a way through the sender.                  *)
LEMMA Learnt ==
  ASSUME TypeOK, HeldInv, NEW n \in Nodes, Improve(n)
  PROVE  /\ sender[n] \in Neighbours(n) /\ sender[n] \in Nodes /\ sender[n] # n
         /\ Cost[n][sender[n]] \in Nat
         /\ dist' = [dist EXCEPT ![n] = reported[n] + Cost[n][sender[n]]]
         /\ hop' = [hop EXCEPT ![n] = sender[n]]
         /\ reported[n] \in Nat /\ reported[n] >= dist[sender[n]]
<1>1. pc[n] = "apply" /\ dist' = [dist EXCEPT ![n] = NewDist(n)]
      /\ hop' = [hop EXCEPT ![n] = sender[n]]
  BY DEF Improve
<1>2. sender[n] \in Neighbours(n) /\ reported[n] >= dist[sender[n]]
  BY <1>1 DEF HeldInv
<1>3. reported[n] \in Nat
  BY DEF TypeOK
<1> QED
  BY <1>1, <1>2, <1>3, NeighbourFacts DEF NewDist

LEMMA DistSteps ==
  ASSUME [Next]_vars
  PROVE  \/ UNCHANGED <<dist, hop>>
         \/ \E n \in Nodes : Improve(n)
  BY DEF Next, Node, OpenPipes, Select, Timeout, Exit, Read, Ignore, OpenPipe, Write,
         BrokenPipe, CleanUp, vars

LEMMA StepNeverTooShort ==
  ASSUME TypeOK, HeldInv, NeverTooShort, [Next]_vars
  PROVE  NeverTooShort'
<1>1. ASSUME NEW n \in Nodes, Improve(n) PROVE NeverTooShort'
  <2> DEFINE s == sender[n]
  <2>1. /\ s \in Neighbours(n) /\ s \in Nodes /\ Cost[n][s] \in Nat
        /\ dist' = [dist EXCEPT ![n] = reported[n] + Cost[n][s]]
        /\ reported[n] \in Nat /\ reported[n] >= dist[s]
    BY <1>1, Learnt
  <2>2. /\ Shortest[n] \in Nat /\ Shortest[s] \in Nat /\ dist[s] \in Nat
        /\ dist[s] >= Shortest[s]
    <3>1. Inf \in Nat /\ Shortest \in [Nodes -> 0..(Inf - 1)] /\ dist \in [Nodes -> 0..Inf]
      BY ShortestAssumption, GraphAssumption DEF TypeOK
    <3>2. Shortest[n] \in Nat /\ Shortest[s] \in Nat /\ dist[s] \in Nat
      BY <2>1, <3>1
    <3> QED
      BY <2>1, <3>2 DEF NeverTooShort
  <2>3. Shortest[n] <= Shortest[s] + Cost[n][s]
    <3>1. <<n, s>> \in Links
      BY <2>1, NeighbourFacts
    <3> QED
      BY <3>1, ShortestAssumption
  <2> HIDE DEF s
  <2>4. reported[n] + Cost[n][s] >= Shortest[n]
    BY <2>1, <2>2, <2>3
  <2> QED
    BY <2>1, <2>4 DEF NeverTooShort, TypeOK
<1>2. CASE UNCHANGED dist
  BY <1>2 DEF NeverTooShort
<1> QED
  BY <1>1, <1>2, DistSteps

LEMMA StepRoutes ==
  ASSUME TypeOK, TypeOK', HeldInv, RoutesDescend, [Next]_vars
  PROVE  RoutesDescend'
<1>1. ASSUME NEW n \in Nodes, Improve(n) PROVE RoutesDescend'
  <2> SUFFICES ASSUME NEW m \in Nodes \ {Target}, hop'[m] # None
               PROVE  /\ hop'[m] \in Neighbours(m)
                      /\ dist'[m] >= dist'[hop'[m]] + Cost[m][hop'[m]]
    BY DEF RoutesDescend
  <2> DEFINE s == sender[n]
  <2>1. /\ s \in Neighbours(n) /\ s \in Nodes /\ s # n /\ Cost[n][s] \in Nat
        /\ dist' = [dist EXCEPT ![n] = reported[n] + Cost[n][s]]
        /\ hop' = [hop EXCEPT ![n] = s]
        /\ reported[n] \in Nat /\ reported[n] >= dist[s]
    BY <1>1, Learnt
  <2>2. \A k \in Nodes : dist[k] \in Nat /\ dist'[k] \in Nat /\ dist'[k] <= dist[k]
    BY DistFalls
  <2> HIDE DEF s
  <2>3. CASE m = n
    <3>1. hop'[m] = s /\ dist'[m] = reported[n] + Cost[n][s] /\ dist'[s] = dist[s]
      BY <2>1, <2>3 DEF TypeOK
    <3> QED
      BY <2>1, <2>2, <2>3, <3>1
  <2>4. CASE m # n
    <3>1. hop'[m] = hop[m] /\ dist'[m] = dist[m]
      BY <2>1, <2>4 DEF TypeOK
    <3>2. hop[m] \in Neighbours(m) /\ dist[m] >= dist[hop[m]] + Cost[m][hop[m]]
      BY <3>1 DEF RoutesDescend
    <3>3. hop[m] \in Nodes /\ Cost[m][hop[m]] \in Nat
      BY <3>2, NeighbourFacts
    <3> QED
      BY <2>2, <3>1, <3>2, <3>3
  <2> QED
    BY <2>3, <2>4
<1>2. CASE UNCHANGED <<dist, hop>>
  BY <1>2 DEF RoutesDescend
<1> QED
  BY <1>1, <1>2, DistSteps

-----------------------------------------------------------------------------
(* The theorems.                                                           *)

LEMMA InitInv == Init => Inv
<1> SUFFICES ASSUME Init PROVE Inv
  OBVIOUS
<1>1. TypeOK
  BY InitType
<1>2. ReadyInv /\ TodoInv /\ HeldInv
  BY DEF Init, ReadyInv, TodoInv, HeldInv
<1>3. PipeInv
  BY DEF Init, PipeInv
<1>4. NeverTooShort
  BY ShortestAssumption, GraphAssumption DEF Init, NeverTooShort
<1>5. RoutesDescend
  BY DEF Init, RoutesDescend
<1> QED
  BY <1>1, <1>2, <1>3, <1>4, <1>5 DEF Inv

LEMMA StepInv == Inv /\ [Next]_vars => Inv'
<1> SUFFICES ASSUME Inv, [Next]_vars PROVE Inv'
  OBVIOUS
<1>1. TypeOK'
  BY StepType DEF Inv
<1> QED
  BY <1>1, StepReady, StepTodo, StepPipe, StepHeld, StepNeverTooShort, StepRoutes DEF Inv

(* Every reachable state has the declared types: distances stay between 0  *)
(* and INF, and messages are whole numbers (bellman_ford.c:33-60).         *)
THEOREM TypeCorrect == Spec => []TypeOK
<1>1. Inv => TypeOK
  BY DEF Inv
<1> QED
  BY InitInv, StepInv, <1>1, PTL DEF Spec

(* No node of any network believes it is closer to the target than it is   *)
(* (bellman_ford.c:118-122), with early exits and lost updates.            *)
THEOREM DistancesCorrect == Spec => []NeverTooShort
<1>1. Inv => NeverTooShort
  BY DEF Inv
<1> QED
  BY InitInv, StepInv, <1>1, PTL DEF Spec

(* The next hops of any network never form a loop, not even for a moment   *)
(* (bellman_ford.c:122).                                                   *)
THEOREM RoutesCorrect == Spec => []RoutesDescend
<1>1. Inv => RoutesDescend
  BY DEF Inv
<1> QED
  BY InitInv, StepInv, <1>1, PTL DEF Spec
-----------------------------------------------------------------------------
(* Exits with the right distance.  When messages keep their distance, what *)
(* a node knows has reached each neighbour, is under way, or is on its     *)
(* list.  So when nothing is under way anywhere, no link can improve a     *)
(* distance, and the distances are the shortest.                           *)

PaidInv == \A n \in Nodes : pc[n] \notin {"send", "killed"} => todo[n] = {}

StartInv == /\ dist[Target] = 0
            /\ \A n \in Nodes \ {Target} : pc[n] = "open" => dist[n] = Inf

(* The neighbour m of n knows the way through n, or will be told.          *)
Told(n, m) == \/ dist[m] <= dist[n] + Cost[n][m]
              \/ dist[n] = Inf \/ pc[n] = "open"
              \/ m \in todo[n]
              \/ chan[<<n, m>>] = <<dist[n]>>
              \/ pc[m] = "apply" /\ sender[m] = n /\ reported[m] = dist[n]

ToldInv == env.paced => \A l \in Links : Told(l[1], l[2])

(* Everything is settled: nothing is under way and the distances are right. *)
Over == /\ \A n \in Nodes : pc[n] \in {"select", "done"} /\ dist[n] = Shortest[n]
        /\ \A l \in Links : chan[l] = <<>>

OverInv == env.paced /\ env.prompt =>
              ((\E n \in Nodes : idle[n] = MaxIdle \/ pc[n] \in Gone) => Over)

LEMMA EnvConstant == [Next]_vars => env' = env
  BY DEF Next, Node, OpenPipes, Select, Timeout, Exit, Read, Improve, Ignore, OpenPipe, Write,
         BrokenPipe, CleanUp, vars

(* A quiet network has settled: otherwise take the node nearest to the     *)
(* target that is wrong; the next node on its shortest way is right, and   *)
(* has told it.                                                            *)
LEMMA QuietIsOver ==
  ASSUME TypeOK, NeverTooShort, PaidInv, StartInv, ToldInv, env.paced, Quiet
  PROVE  Over
<1>1. \A n \in Nodes : pc[n] \in {"select", "done"} /\ todo[n] = {}
  BY DEF Quiet, PaidInv
<1>2. \A l \in Links : dist[l[2]] <= dist[l[1]] + Cost[l[1]][l[2]] \/ dist[l[1]] = Inf
  <2> SUFFICES ASSUME NEW l \in Links, dist[l[1]] # Inf
               PROVE  dist[l[2]] <= dist[l[1]] + Cost[l[1]][l[2]]
    OBVIOUS
  <2>1. l[1] \in Nodes /\ l[2] \in Nodes /\ l = <<l[1], l[2]>>
    BY DEF Links
  <2>2. /\ pc[l[1]] # "open" /\ todo[l[1]] = {} /\ pc[l[2]] # "apply"
    BY <1>1, <2>1
  <2>3. chan[<<l[1], l[2]>>] = <<>>
    BY <2>1 DEF Quiet
  <2>4. chan[<<l[1], l[2]>>] # <<dist[l[1]]>>
    BY <2>3
  <2>5. Told(l[1], l[2])
    BY DEF ToldInv
  <2> QED
    BY <2>2, <2>4, <2>5 DEF Told
<1>3. \A n \in Nodes : /\ Shortest[n] \in Nat /\ Shortest[n] < Inf
                       /\ dist[n] \in Nat /\ dist[n] >= Shortest[n]
  <2>1. Inf \in Nat /\ Shortest \in [Nodes -> 0..(Inf - 1)] /\ dist \in [Nodes -> 0..Inf]
    BY ShortestAssumption, GraphAssumption DEF TypeOK
  <2>2. \A n \in Nodes : Shortest[n] \in 0..(Inf - 1) /\ dist[n] \in 0..Inf
    BY <2>1
  <2> QED
    BY <2>1, <2>2 DEF NeverTooShort
<1> DEFINE Wrong == {n \in Nodes : dist[n] # Shortest[n]}
           Far == {Shortest[n] : n \in Wrong}
<1>4. Wrong = {}
  <2> SUFFICES ASSUME Wrong # {} PROVE FALSE
    OBVIOUS
  <2>1. Far \in SUBSET Nat /\ Far # {}
    BY <1>3
  <2>2. PICK n \in Wrong : \A m \in Wrong : Shortest[n] <= Shortest[m]
    <3>1. \E d \in Far : \A e \in Far : d <= e
      BY <2>1, NatMinimum
    <3> QED
      BY <3>1
  <2>3. n \in Nodes \ {Target}
    BY ShortestAssumption, <2>2 DEF StartInv
  <2>4. PICK h \in Neighbours(n) : Shortest[n] = Shortest[h] + Cost[n][h]
    BY <2>3, ShortestAssumption
  <2>5. /\ h \in Nodes /\ <<h, n>> \in Links
        /\ Cost[n][h] \in Nat /\ Cost[n][h] # 0 /\ Cost[h][n] = Cost[n][h]
    <3>1. h \in Nodes /\ <<h, n>> \in Links /\ Cost[n][h] \in Nat
      BY <2>3, NeighbourFacts
    <3> QED
      BY <2>3, <3>1, GraphAssumption DEF Neighbours
  <2>6. h \notin Wrong
    <3>1. Shortest[h] < Shortest[n]
      BY <1>3, <2>3, <2>4, <2>5
    <3>2. Shortest[h] \in Nat /\ Shortest[n] \in Nat
      BY <1>3, <2>3, <2>5
    <3> HIDE DEF Wrong
    <3> QED
      BY <2>2, <3>1, <3>2
  <2>7. dist[h] = Shortest[h] /\ dist[h] # Inf
    BY <1>3, <2>5, <2>6
  <2>8. dist[n] <= dist[h] + Cost[h][n]
    BY <1>2, <2>5, <2>7
  <2>9. dist[n] <= Shortest[n]
    BY <2>4, <2>5, <2>7, <2>8
  <2>10. dist[n] = Shortest[n]
    BY <1>3, <2>3, <2>9
  <2> QED
    BY <2>2, <2>10
<1> QED
  BY <1>1, <1>4 DEF Quiet, Over

LEMMA StartStep ==
  ASSUME Inv, Inv', StartInv, [Next]_vars
  PROVE  StartInv'
<1>0. TypeOK /\ TypeOK'
  BY DEF Inv
<1>1. dist'[Target] = 0
  <2>1. dist'[Target] \in Nat /\ dist'[Target] <= dist[Target] /\ dist[Target] = 0
    BY <1>0, DistFalls, NodesAreNaturals DEF StartInv
  <2> QED
    BY <2>1
<1>2. \A n \in Nodes : pc'[n] = "open" => pc[n] = "open" /\ dist'[n] = dist[n]
  <2>1. ASSUME NEW m \in Nodes, Node(m), NEW n \in Nodes, pc'[n] = "open"
        PROVE  pc[n] = "open" /\ dist'[n] = dist[n]
    <3>1. pc \in [Nodes -> Steps] /\ dist \in [Nodes -> 0..Inf]
      BY <1>0 DEF TypeOK
    <3>2. \E step \in Steps : pc' = [pc EXCEPT ![m] = step] /\ step # "open"
      BY <2>1, <3>1 DEF Node, OpenPipes, Select, Timeout, Exit, Read, Improve, Ignore,
             OpenPipe, Write, BrokenPipe, Goto, After, Steps
    <3>3. pc[n] = "open" /\ n # m
      BY <2>1, <3>1, <3>2
    <3>4. dist' = dist \/ Improve(m)
      BY <2>1 DEF Node, OpenPipes, Select, Timeout, Exit, Read, Ignore, OpenPipe, Write, BrokenPipe
    <3>5. dist'[n] = dist[n]
      BY <3>1, <3>3, <3>4 DEF Improve
    <3> QED
      BY <3>3, <3>5
  <2> QED
    BY <2>1 DEF Next, CleanUp, vars
<1> QED
  BY <1>1, <1>2 DEF StartInv

LEMMA PaidStep ==
  ASSUME TypeOK, PaidInv, [Next]_vars
  PROVE  PaidInv'
<1>1. ASSUME NEW n \in Nodes, Node(n) PROVE PaidInv'
  <2>1. \A m \in Nodes \ {n} : pc'[m] = pc[m] /\ todo'[m] = todo[m]
    BY <1>1 DEF TypeOK, Node, OpenPipes, Select, Timeout, Exit, Read, Improve, Ignore, OpenPipe,
           Write, BrokenPipe, Goto, output
  <2>2. ASSUME pc'[n] \notin {"send", "killed"} PROVE todo'[n] = {}
    <3>1. CASE OpenPipes(n)
      BY <2>2, <3>1 DEF TypeOK, OpenPipes, Goto, PaidInv
    <3>2. CASE Select(n) \/ Timeout(n) \/ Exit(n) \/ Read(n) \/ Ignore(n)
      BY <3>2 DEF Select, Timeout, Exit, Read, Ignore, output, PaidInv
    <3>3. CASE Improve(n)
      <4>1. todo'[n] = Neighbours(n) \ {sender[n]}
        BY <3>3 DEF TypeOK, Improve
      <4> QED
        BY <2>2, <3>3, <4>1 DEF TypeOK, Improve, Goto
    <3>4. CASE OpenPipe(n) \/ BrokenPipe(n)
      BY <2>2, <3>4 DEF TypeOK, OpenPipe, BrokenPipe, Goto
    <3>5. CASE Write(n)
      <4>1. todo'[n] = todo[n] \ {NextReader(n)}
        BY <3>5 DEF TypeOK, Write
      <4>2. todo[n] = {NextReader(n)}
        BY <2>2, <3>5 DEF TypeOK, Write, Goto
      <4> QED
        BY <4>1, <4>2
    <3> QED
      BY <1>1, <3>1, <3>2, <3>3, <3>4, <3>5 DEF Node
  <2> QED
    BY <2>1, <2>2 DEF PaidInv
<1>2. CASE CleanUp \/ UNCHANGED vars
  BY <1>2 DEF CleanUp, vars, output, PaidInv
<1> QED
  BY <1>1, <1>2 DEF Next

LEMMA ToldStep ==
  ASSUME Inv, Inv', PaidInv, StartInv, ToldInv, [Next]_vars
  PROVE  ToldInv'
<1>0. TypeOK /\ TypeOK'
  BY DEF Inv
<1> SUFFICES ASSUME env.paced, NEW n \in Nodes, NEW m \in Nodes, <<n, m>> \in Links
             PROVE  Told(n, m)'
  BY EnvConstant DEF ToldInv, Links
<1>old. Told(n, m)
  BY DEF ToldInv
<1>ends. m \in Neighbours(n) /\ m # n /\ Cost[n][m] \in Nat /\ Cost[m][n] = Cost[n][m]
  <2>1. m \in Neighbours(n)
    BY DEF Links
  <2> QED
    BY <2>1, NeighbourFacts, GraphAssumption
<1>dist. \A k \in Nodes : dist[k] \in Nat /\ dist'[k] \in Nat /\ dist'[k] <= dist[k]
  BY <1>0, DistFalls
<1>1. CASE UNCHANGED vars \/ CleanUp
  BY <1>1, <1>old DEF vars, input, output, CleanUp, Told
<1>2. ASSUME NEW k \in Nodes, OpenPipes(k) PROVE Told(n, m)'
  <2>1. UNCHANGED <<dist, sender, reported, chan>> /\ pc[k] = "open"
    BY <1>2 DEF OpenPipes, input
  <2>2. CASE k = n /\ n = Target
    <3>1. todo'[n] = Neighbours(n)
      BY <1>0, <1>2, <1>ends, <2>2 DEF TypeOK, OpenPipes
    <3> QED
      BY <1>ends, <3>1 DEF Told
  <2>3. CASE k = n /\ n # Target
    <3>1. dist'[n] = Inf
      BY <2>1, <2>3 DEF StartInv
    <3> QED
      BY <3>1 DEF Told
  <2>4. CASE k # n
    <3>1. pc'[n] = pc[n] /\ todo'[n] = todo[n] /\ (m # k => pc'[m] = pc[m])
      BY <1>0, <1>2, <2>4 DEF TypeOK, OpenPipes, Goto
    <3> QED
      BY <1>old, <2>1, <3>1 DEF Told
  <2> QED
    BY <2>2, <2>3, <2>4
<1>3. ASSUME NEW k \in Nodes,
             Select(k) \/ Timeout(k) \/ Exit(k) \/ OpenPipe(k) \/ BrokenPipe(k)
      PROVE  Told(n, m)'
  <2>1. UNCHANGED <<dist, sender, reported, chan, todo>>
    BY <1>3 DEF Select, Timeout, Exit, OpenPipe, BrokenPipe, input, output
  <2>2. (pc[n] = "open" => pc'[n] = "open") /\ (pc[m] = "apply" => pc'[m] = "apply")
    BY <1>0, <1>3 DEF TypeOK, Select, Timeout, Exit, OpenPipe, BrokenPipe, Goto
  <2> QED
    BY <1>old, <2>1, <2>2 DEF Told
<1>4. ASSUME NEW k \in Nodes, Read(k) PROVE Told(n, m)'
  <2> DEFINE i == Lowest(ready[k])
  <2>1. /\ pc[k] = "scan" /\ ready[k] # {} /\ UNCHANGED <<dist, todo>>
        /\ sender' = [sender EXCEPT ![k] = i]
        /\ reported' = [reported EXCEPT ![k] = Head(chan[<<i, k>>])]
        /\ chan' = [chan EXCEPT ![<<i, k>>] = <<>>]
        /\ pc' = [pc EXCEPT ![k] = "apply"]
    BY <1>4 DEF Read, Goto, output
  <2>2. i \in Nodes /\ <<i, k>> \in Links
    BY <1>0, <2>1, ReadFacts DEF Inv
  <2> HIDE DEF i
  <2>3. pc[n] = "open" => pc'[n] = "open"
    BY <1>0, <2>1 DEF TypeOK
  <2>4. CASE m = k /\ n = i
    <3>1. /\ pc'[m] = "apply" /\ sender'[m] = n /\ reported'[m] = Head(chan[<<n, m>>])
          /\ pc[m] # "apply"
      BY <1>0, <2>1, <2>4 DEF TypeOK
    <3>2. CASE chan[<<n, m>>] = <<dist[n]>>
      <4>1. Head(chan[<<n, m>>]) = dist'[n]
        BY <2>1, <3>2
      <4> QED
        BY <3>1, <4>1 DEF Told
    <3>3. CASE chan[<<n, m>>] # <<dist[n]>>
      BY <1>old, <2>1, <2>3, <3>1, <3>3 DEF Told
    <3> QED
      BY <3>2, <3>3
  <2>5. CASE ~(m = k /\ n = i)
    <3>1. chan'[<<n, m>>] = chan[<<n, m>>]
      BY <1>0, <2>1, <2>5 DEF TypeOK
    <3>2. pc[m] = "apply" => pc'[m] = pc[m] /\ sender'[m] = sender[m] /\ reported'[m] = reported[m]
      BY <1>0, <2>1 DEF TypeOK
    <3> QED
      BY <1>old, <2>1, <2>3, <3>1, <3>2 DEF Told
  <2> QED
    BY <2>4, <2>5
<1>5. ASSUME NEW k \in Nodes, Improve(k) PROVE Told(n, m)'
  <2>1. /\ pc[k] = "apply" /\ UNCHANGED <<chan, sender, reported>>
        /\ todo' = [todo EXCEPT ![k] = Neighbours(k) \ {sender[k]}]
        /\ \E s : pc' = [pc EXCEPT ![k] = s]
    BY <1>5 DEF Improve, Goto, input
  <2>2. /\ sender[k] \in Neighbours(k) /\ sender[k] \in Nodes /\ Cost[k][sender[k]] \in Nat
        /\ dist' = [dist EXCEPT ![k] = reported[k] + Cost[k][sender[k]]]
        /\ reported[k] \in Nat /\ reported[k] >= dist[sender[k]]
    BY <1>0, <1>5, Learnt DEF Inv
  <2>3. CASE k = n
    <3>1. CASE m = sender[n]
      <4>1. dist'[n] = reported[n] + Cost[n][m] /\ reported[n] >= dist[m] /\ reported[n] \in Nat
        BY <1>0, <2>2, <2>3, <3>1 DEF TypeOK
      <4>2. dist'[m] <= dist'[n] + Cost[n][m]
        BY <1>dist, <1>ends, <4>1
      <4> QED
        BY <4>2 DEF Told
    <3>2. CASE m # sender[n]
      <4>1. m \in todo'[n]
        BY <1>0, <1>ends, <2>1, <2>3, <3>2 DEF TypeOK
      <4> QED
        BY <4>1 DEF Told
    <3> QED
      BY <3>1, <3>2
  <2>4. CASE k = m
    <3>1. /\ dist'[n] = dist[n] /\ pc'[n] = pc[n] /\ todo'[n] = todo[n]
      BY <1>0, <1>ends, <2>1, <2>2, <2>4 DEF TypeOK
    <3>2. CASE sender[m] = n /\ reported[m] = dist[n]
      <4>1. dist'[m] = dist[n] + Cost[n][m]
        BY <1>0, <1>ends, <2>2, <2>4, <3>2 DEF TypeOK
      <4>2. dist'[m] <= dist'[n] + Cost[n][m]
        BY <1>dist, <1>ends, <3>1, <4>1
      <4> QED
        BY <4>2 DEF Told
    <3>3. CASE dist[m] <= dist[n] + Cost[n][m]
      <4>1. dist'[m] <= dist'[n] + Cost[n][m]
        BY <1>dist, <1>ends, <3>1, <3>3
      <4> QED
        BY <4>1 DEF Told
    <3>4. CASE ~(sender[m] = n /\ reported[m] = dist[n]) /\ ~(dist[m] <= dist[n] + Cost[n][m])
      BY <1>old, <2>1, <3>1, <3>4 DEF Told
    <3> QED
      BY <3>2, <3>3, <3>4
  <2>5. CASE k # n /\ k # m
    <3>1. /\ dist'[n] = dist[n] /\ dist'[m] = dist[m] /\ todo'[n] = todo[n]
          /\ pc'[n] = pc[n] /\ pc'[m] = pc[m]
      BY <1>0, <2>1, <2>2, <2>5 DEF TypeOK
    <3> QED
      BY <1>old, <2>1, <3>1 DEF Told
  <2> QED
    BY <2>3, <2>4, <2>5
<1>6. ASSUME NEW k \in Nodes, Ignore(k) PROVE Told(n, m)'
  <2>1. /\ pc[k] = "apply" /\ UNCHANGED <<dist, chan, sender, reported, todo>>
        /\ \E s : pc' = [pc EXCEPT ![k] = s]
        /\ reported[k] + Cost[k][sender[k]] >= dist[k]
    BY <1>6 DEF Ignore, Goto, input, output, NewDist
  <2>2. pc[n] = "open" => pc'[n] = "open"
    BY <1>0, <2>1 DEF TypeOK
  <2>3. CASE k = m /\ sender[m] = n /\ reported[m] = dist[n]
    <3>1. dist[n] + Cost[n][m] >= dist[m]
      BY <1>ends, <2>1, <2>3
    <3>2. dist'[m] <= dist'[n] + Cost[n][m]
      BY <1>dist, <1>ends, <2>1, <3>1
    <3> QED
      BY <3>2 DEF Told
  <2>4. CASE ~(k = m /\ sender[m] = n /\ reported[m] = dist[n])
    <3>1. k # m => pc'[m] = pc[m]
      BY <1>0, <2>1 DEF TypeOK
    <3> QED
      BY <1>old, <2>1, <2>2, <2>4, <3>1 DEF Told
  <2> QED
    BY <2>3, <2>4
<1>7. ASSUME NEW k \in Nodes, Write(k) PROVE Told(n, m)'
  <2> DEFINE j == NextReader(k)
  <2>1. /\ pc[k] = "send" /\ chan[<<k, j>>] = <<>>
        /\ chan' = [chan EXCEPT ![<<k, j>>] = Append(chan[<<k, j>>], dist[k])]
        /\ todo' = [todo EXCEPT ![k] = todo[k] \ {j}]
        /\ \E s : pc' = [pc EXCEPT ![k] = s]
        /\ UNCHANGED <<dist, sender, reported>>
    BY <1>7 DEF Write, Goto, input
  <2>2. <<k, j>> \in Links
    BY <1>0, <2>1, WriteFacts DEF Inv
  <2> HIDE DEF j
  <2>3. CASE k = n /\ m = j
    <3>1. chan'[<<n, m>>] = Append(<<>>, dist[n])
      BY <1>0, <2>1, <2>2, <2>3 DEF TypeOK
    <3>2. chan'[<<n, m>>] = <<dist'[n]>>
      BY <2>1, <3>1
    <3> QED
      BY <3>2 DEF Told
  <2>4. CASE ~(k = n /\ m = j)
    <3>1. chan'[<<n, m>>] = chan[<<n, m>>]
      BY <1>0, <2>1, <2>4 DEF TypeOK
    <3>2. m \in todo[n] => m \in todo'[n]
      BY <1>0, <2>1, <2>4 DEF TypeOK
    <3>3. (pc[n] = "open" => pc'[n] = "open") /\ (pc[m] = "apply" => pc'[m] = "apply")
      BY <1>0, <2>1 DEF TypeOK
    <3> QED
      BY <1>old, <2>1, <3>1, <3>2, <3>3 DEF Told
  <2> QED
    BY <2>3, <2>4
<1> QED
  BY <1>1, <1>2, <1>3, <1>4, <1>5, <1>6, <1>7 DEF Next, Node

(* Once everything is settled, nodes only time out and exit.               *)
LEMMA OverStays == TypeOK /\ Over /\ [Next]_vars => Over'
<1> SUFFICES ASSUME TypeOK, Over, [Next]_vars PROVE Over'
  OBVIOUS
<1>1. \A n \in Nodes : pc[n] \in {"select", "done"} /\ HasInput(n) = {}
  BY NeighbourFacts DEF Over, HasInput
<1>2. CASE UNCHANGED vars \/ CleanUp
  BY <1>2 DEF vars, CleanUp, Over
<1>3. ASSUME NEW n \in Nodes, Timeout(n) PROVE Over'
  BY <1>3 DEF Timeout, Over
<1>4. ASSUME NEW n \in Nodes, Exit(n) PROVE Over'
  BY <1>4 DEF TypeOK, Exit, Goto, Over
<1>5. ASSUME NEW n \in Nodes,
             \/ OpenPipes(n) \/ Select(n) \/ Read(n) \/ Improve(n) \/ Ignore(n)
             \/ OpenPipe(n) \/ Write(n) \/ BrokenPipe(n)
      PROVE  FALSE
  BY <1>1, <1>5 DEF OpenPipes, Select, Read, Improve, Ignore, OpenPipe, Write, BrokenPipe
<1> QED
  BY <1>2, <1>3, <1>4, <1>5 DEF Next, Node

Settling == PaidInv /\ StartInv /\ ToldInv

LEMMA OverStep ==
  Inv /\ Settling /\ OverInv /\ [Next]_vars => OverInv'
<1> SUFFICES ASSUME Inv, Settling, OverInv, [Next]_vars, env.paced, env.prompt,
                    NEW n \in Nodes, idle'[n] = MaxIdle \/ pc'[n] \in Gone
             PROVE  Over'
  BY EnvConstant DEF OverInv
<1>0. TypeOK
  BY DEF Inv
<1>1. CASE Over
  BY <1>0, <1>1, OverStays
<1>2. CASE ~Over
  <2>1. \A m \in Nodes : idle[m] # MaxIdle /\ pc[m] \notin Gone
    BY <1>2 DEF OverInv
  <2>2. ASSUME NEW m \in Nodes, Timeout(m) PROVE FALSE
    <3>1. pc' = pc /\ idle' = [idle EXCEPT ![m] = @ + 1]
      BY <2>2 DEF Timeout
    <3>2. idle[m] + 1 = MaxIdle
      BY <1>0, <2>1, <3>1 DEF TypeOK
    <3>3. Quiet
      BY <2>2, <3>2 DEF Timeout
    <3> QED
      BY <1>2, <3>3, QuietIsOver DEF Inv, Settling
  <2>3. ASSUME NEW m \in Nodes,
               \/ OpenPipes(m) \/ Select(m) \/ Read(m) \/ Improve(m) \/ Ignore(m)
               \/ OpenPipe(m) \/ Write(m)
        PROVE  FALSE
    <3>1. idle'[n] = idle[n] \/ idle'[n] = 0
      BY <1>0, <2>3 DEF TypeOK, OpenPipes, Select, Read, Improve, Ignore, OpenPipe, Write
    <3>2. pc'[n] \in Gone => pc[n] \in Gone
      BY <1>0, <2>3 DEF TypeOK, Gone, OpenPipes, Select, Read, Improve, Ignore, OpenPipe, Write,
             Goto, After
    <3> QED
      BY <2>1, <3>1, <3>2, GraphAssumption
  <2>4. ASSUME NEW m \in Nodes, Exit(m) PROVE FALSE
    BY <2>1, <2>4 DEF Exit
  <2>5. ASSUME NEW m \in Nodes, BrokenPipe(m) PROVE FALSE
    <3>1. NextReader(m) \in Nodes
      BY <1>0, <2>5, WriteFacts DEF BrokenPipe, Inv
    <3> QED
      BY <2>1, <2>5, <3>1 DEF BrokenPipe
  <2>6. CASE UNCHANGED vars \/ CleanUp
    BY <2>1, <2>6 DEF vars, CleanUp
  <2> QED
    BY <2>2, <2>3, <2>4, <2>5, <2>6 DEF Next, Node
<1> QED
  BY <1>1, <1>2

LEMMA InitSettling == Init => Settling /\ OverInv
<1> SUFFICES ASSUME Init PROVE Settling /\ OverInv
  OBVIOUS
<1>1. MaxIdle # 0 /\ Target \in Nodes
  BY GraphAssumption
<1>2. StartInv
  BY <1>1 DEF Init, StartInv
<1>3. \A n \in Nodes : pc[n] = "open" /\ idle[n] # MaxIdle /\ todo[n] = {}
  BY <1>1 DEF Init
<1> QED
  BY <1>2, <1>3, LinkFacts DEF Settling, PaidInv, ToldInv, Told, OverInv, Gone

LEMMA StepSettling == Inv /\ Settling /\ [Next]_vars => Settling'
<1> SUFFICES ASSUME Inv, Settling, [Next]_vars PROVE Settling'
  OBVIOUS
<1>1. Inv'
  BY StepInv
<1> QED
  BY <1>1, PaidStep, StartStep, ToldStep DEF Inv, Settling

(* In any network, when messages keep their distance and nobody gives up   *)
(* early, a node that has exited printed its shortest distance             *)
(* (bellman_ford.c:126-141).                                               *)
THEOREM ConvergedAtExit == Spec => []ExitsConverged
<1>1. OverInv => ExitsConverged
  BY DEF OverInv, Over, Gone, ExitsConverged
<1> QED
  BY <1>1, InitInv, StepInv, InitSettling, StepSettling, OverStep, PTL DEF Spec
=============================================================================
