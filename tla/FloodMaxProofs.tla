--------------------------- MODULE FloodMaxProofs ---------------------------
(***************************************************************************)
(* Agreement and SynchronousRounds of FloodMax, proved for every network,  *)
(* any number of rounds that is enough for it, and any loss of messages.   *)
(*                                                                         *)
(* Rounds drift apart and reads lose messages, but every read consumes one *)
(* message at least: what a node finds in its r-th read from a neighbour    *)
(* was written in the neighbour's r-th round or later, and a later maximum *)
(* is only better.  As long as nothing was lost from a pipe, that read     *)
(* finds the message of the r-th round itself.                             *)
(***************************************************************************)
EXTENDS FloodMax, TLAPS, WellFoundedInduction, FiniteSetTheorems

(* The equation of Ball, for one radius.                                   *)
BallOf(f, r) == [n \in Nodes |-> IF r = 0 THEN {n}
                                 ELSE f[r - 1][n] \cup UNION {f[r - 1][m] : m \in Adjacent(n)}]
Solves(f, d) == f = [r \in 0..d |-> BallOf(f, r)]

(* v is no less than any identifier at most r links away from n.           *)
Knows(n, v, r) == \A q \in 0..r : \A m \in Nodes : m \in Ball[q][n] => Uid[m] <= v

(* The messages n has read from its a-th neighbour, and written to it.     *)
Reads(n, a) == round[n] - 1 + (IF pc[n] = "read" /\ a < k[n] THEN 1 ELSE 0)
Written(n, a) == round[n] - 1 + (IF pc[n] = "read" \/ (pc[n] = "write" /\ a < k[n])
                                 THEN 1 ELSE 0)

(* The p-th message in a pipe is at least p rounds past what was read.     *)
LinkInv == \A n \in Nodes : \A a \in DOMAIN Neighbours[n] :
             LET i == Neighbours[n][a]
                 c == chan[<<i, n>>]
             IN  /\ \A b \in DOMAIN Neighbours[i] :
                      Neighbours[i][b] = n => Reads(n, a) + Len(c) <= Written(i, b)
                 /\ \A p \in 1..Len(c) : Knows(i, c[p], Reads(n, a) + p - 1)

(* After r rounds a node's maximum knows the nodes r links away, and in     *)
(* the next one newMax what the neighbours read so far knew.               *)
NodeInv == \A n \in Nodes :
             /\ Knows(n, max[n], round[n] - 1)
             /\ pc[n] = "read" =>
                  /\ max[n] <= newMax[n]
                  /\ \A a \in DOMAIN Neighbours[n] :
                       a < k[n] => Knows(Neighbours[n][a], newMax[n], round[n] - 1)

(* A node ends after its last round.                                       *)
RoundInv == \A n \in Nodes : pc[n] = "done" <=> round[n] = Diameter + 1

(* Nothing is sent or held but somebody's identifier.                      *)
Uids == {Uid[m] : m \in Nodes}
RealInv == /\ \A n \in Nodes : max[n] \in Uids /\ newMax[n] \in Uids
           /\ \A l \in Links : \A p \in 1..Len(chan[l]) : chan[l][p] \in Uids

Inv == TypeOK /\ LinkInv /\ NodeInv /\ RoundInv /\ RealInv
-----------------------------------------------------------------------------
(* A nonempty set of naturals has a least element.                         *)
LEMMA NatMinimum ==
  ASSUME NEW S \in SUBSET Nat, S # {}
  PROVE  \E m \in S : \A n \in S : m <= n
<1> DEFINE Less == {nm \in Nat \X Nat : nm[1] < nm[2]}
<1>1. IsWellFoundedOn(Less, Nat)
  BY NatLessThanWellFounded DEF OpToRel
<1>2. \A n, m \in Nat : n < m => <<n, m>> \in Less
  OBVIOUS
<1> HIDE DEF Less
<1>3. PICK m \in S : \A n \in S : <<n, m>> \notin Less
  BY <1>1, WFMin
<1>4. \A n \in S : ~(n < m)
  BY <1>2, <1>3
<1> QED
  BY <1>4

(* The equation has a solution for every radius: from the least radius     *)
(* without one, a solution for it could be built.                          *)
LEMMA BallExists == \A d \in Nat : \E f : Solves(f, d)
<1> DEFINE Bad == {d \in Nat : \A f : ~Solves(f, d)}
<1>1. SUFFICES ASSUME Bad # {} PROVE FALSE
  OBVIOUS
<1>2. PICK d \in Bad : \A e \in Bad : d <= e
  <2>1. Bad \in SUBSET Nat
    OBVIOUS
  <2> HIDE DEF Bad
  <2> QED
    BY <1>1, <2>1, NatMinimum
<1>3. CASE d = 0
  <2> DEFINE f == [r \in 0..0 |-> [n \in Nodes |-> {n}]]
  <2>1. \A r \in 0..0 : BallOf(f, r) = [n \in Nodes |-> {n}]
    BY DEF BallOf
  <2>2. Solves(f, 0)
    BY <2>1 DEF Solves
  <2> QED
    BY <1>3, <2>2
<1>4. CASE d # 0
  <2>1. d \in Nat /\ d - 1 \in Nat /\ ~(d <= d - 1)
    BY <1>4
  <2>2. PICK f : Solves(f, d - 1)
    BY <1>2, <2>1
  <2> DEFINE g == [r \in 0..d |-> IF r = d THEN BallOf(f, d) ELSE f[r]]
  <2>3. ASSUME NEW r \in 0..d PROVE g[r] = BallOf(g, r)
    <3>1. r # 0 => r - 1 \in 0..(d - 1) /\ g[r - 1] = f[r - 1]
      BY <2>1
    <3>2. BallOf(g, r) = BallOf(f, r)
      BY <3>1 DEF BallOf
    <3>3. CASE r = d
      BY <3>2, <3>3
    <3>4. CASE r # d
      <4>1. r \in 0..(d - 1) /\ g[r] = f[r]
        BY <2>1, <3>4
      <4>2. f[r] = BallOf(f, r)
        BY <2>2, <4>1 DEF Solves
      <4> QED
        BY <3>2, <4>1, <4>2
    <3> QED
      BY <3>3, <3>4
  <2>4. Solves(g, d)
    BY <2>3 DEF Solves
  <2> QED
    BY <2>1, <2>4
<1> QED
  BY <1>3, <1>4

(* So Ball satisfies its equation.                                         *)
LEMMA BallEquation ==
  \A r \in 0..Diameter : \A n \in Nodes :
    Ball[r][n] = IF r = 0 THEN {n}
                 ELSE Ball[r - 1][n] \cup UNION {Ball[r - 1][m] : m \in Adjacent(n)}
<1>1. Ball = CHOOSE f : Solves(f, Diameter)
  BY DEF Ball, Solves, BallOf
<1>2. \E f : Solves(f, Diameter)
  BY BallExists, GraphAssumption
<1>3. Solves(Ball, Diameter)
  BY <1>1, <1>2
<1>4. \A r \in 0..Diameter : Ball[r] = BallOf(Ball, r)
  BY <1>3 DEF Solves
<1> QED
  BY <1>4 DEF BallOf
-----------------------------------------------------------------------------
(* The network: both directions of a link have a pipe.                     *)
LEMMA PositionFacts ==
  ASSUME NEW n \in Nodes
  PROVE  /\ Len(Neighbours[n]) \in Nat /\ DOMAIN Neighbours[n] = 1..Len(Neighbours[n])
         /\ 1 \in DOMAIN Neighbours[n]
         /\ \A a \in DOMAIN Neighbours[n] :
              /\ Neighbours[n][a] \in Nodes /\ Neighbours[n][a] \in Adjacent(n)
              /\ <<n, Neighbours[n][a]>> \in Links /\ <<Neighbours[n][a], n>> \in Links
<1>1. Neighbours[n] \in Seq(Nodes) /\ Neighbours[n] # <<>>
  BY GraphAssumption
<1>2. /\ Len(Neighbours[n]) \in Nat /\ DOMAIN Neighbours[n] = 1..Len(Neighbours[n])
      /\ 1 \in DOMAIN Neighbours[n]
  BY <1>1
<1>3. ASSUME NEW a \in DOMAIN Neighbours[n]
      PROVE  Neighbours[n][a] \in Nodes /\ Neighbours[n][a] \in Adjacent(n)
  BY <1>1, <1>3 DEF Adjacent
<1>4. \A m \in Adjacent(n) : n \in Adjacent(m)
  BY GraphAssumption
<1> QED
  BY <1>2, <1>3, <1>4 DEF Links

(* The loop variable is within the list, and 1 and the next one are too.   *)
LEMMA IndexFacts ==
  ASSUME TypeOK, NEW n \in Nodes
  PROVE  /\ k[n] \in Nat /\ k[n] \in DOMAIN Neighbours[n]
         /\ ~LastNeighbour(n) => k[n] + 1 \in DOMAIN Neighbours[n]
         /\ LastNeighbour(n) => \A a \in DOMAIN Neighbours[n] : a <= k[n]
         /\ \A a \in DOMAIN Neighbours[n] : a \in Nat
         /\ round[n] \in Nat /\ round[n] >= 1
<1> DEFINE last == Len(Neighbours[n])
<1>1. last \in Nat /\ DOMAIN Neighbours[n] = 1..last
  BY PositionFacts
<1>2. k[n] \in Nat /\ k[n] \in DOMAIN Neighbours[n]
  BY DEF TypeOK
<1>3. round[n] \in Nat /\ round[n] >= 1
  BY GraphAssumption DEF TypeOK
<1>4. LastNeighbour(n) <=> k[n] = last
  BY DEF LastNeighbour
<1> HIDE DEF last
<1> QED
  BY <1>1, <1>2, <1>3, <1>4

(* Of two numbers the larger one is taken.                                 *)
LEMMA LargerFacts ==
  ASSUME NEW a \in Nat, NEW b \in Nat
  PROVE  Larger(a, b) \in {a, b} /\ Larger(a, b) \in Nat
         /\ a <= Larger(a, b) /\ b <= Larger(a, b)
BY DEF Larger

(* A larger number knows as much.                                          *)
LEMMA KnowsMore ==
  ASSUME NEW n \in Nodes, NEW v \in Nat, NEW w \in Nat, v <= w,
         NEW r \in Int, NEW s \in Int, s <= r, Knows(n, v, r)
  PROVE  Knows(n, w, s)
<1> SUFFICES ASSUME NEW q \in 0..s, NEW m \in Nodes, m \in Ball[q][n] PROVE Uid[m] <= w
  BY DEF Knows
<1>1. q \in 0..r /\ Uid[m] \in Nat
  BY GraphAssumption
<1>2. Uid[m] <= v
  BY <1>1 DEF Knows
<1> QED
  BY <1>1, <1>2

(* What n and all its neighbours know r links away, n knows r + 1 links     *)
(* away.                                                                   *)
LEMMA KnowsNext ==
  ASSUME NEW n \in Nodes, NEW v, NEW r \in Nat, r + 1 <= Diameter,
         Knows(n, v, r), \A m \in Adjacent(n) : Knows(m, v, r)
  PROVE  Knows(n, v, r + 1)
<1> SUFFICES ASSUME NEW q \in 0..(r + 1), NEW m \in Nodes, m \in Ball[q][n]
             PROVE  Uid[m] <= v
  BY DEF Knows
<1>1. CASE q <= r
  BY <1>1 DEF Knows
<1>2. CASE q = r + 1
  <2>1. q \in 0..Diameter /\ q # 0 /\ q - 1 = r /\ r \in 0..r
    BY <1>2, GraphAssumption
  <2>2. Ball[q][n] = Ball[q - 1][n] \cup UNION {Ball[q - 1][o] : o \in Adjacent(n)}
    BY <2>1, BallEquation, Zenon
  <2>3. m \in Ball[r][n] \/ \E o \in Adjacent(n) : m \in Ball[r][o]
    BY <2>1, <2>2
  <2> QED
    BY <2>1, <2>3 DEF Knows
<1> QED
  BY <1>1, <1>2
-----------------------------------------------------------------------------
(* A message is read from a neighbour's pipe, and the larger number kept.  *)
LEMMA ReceivedFacts ==
  ASSUME TypeOK, NEW n \in Nodes, chan[Input(n)] # <<>>
  PROVE  /\ Input(n) \in Links /\ Input(n) = <<Neighbours[n][k[n]], n>>
         /\ Len(chan[Input(n)]) \in Nat /\ 1 \in 1..Len(chan[Input(n)])
         /\ chan[Input(n)][1] \in Nat
         /\ Received(n) \in Nat /\ Received(n) \in {newMax[n], chan[Input(n)][1]}
         /\ newMax[n] <= Received(n) /\ chan[Input(n)][1] <= Received(n)
<1>1. Input(n) \in Links /\ Input(n) = <<Neighbours[n][k[n]], n>>
  BY PositionFacts DEF TypeOK, Input
<1>2. chan[Input(n)] \in Seq(Nat)
  BY <1>1 DEF TypeOK
<1>3. /\ Len(chan[Input(n)]) \in Nat /\ 1 \in 1..Len(chan[Input(n)])
      /\ chan[Input(n)][1] \in Nat /\ Head(chan[Input(n)]) = chan[Input(n)][1]
  BY <1>2
<1>4. newMax[n] \in Nat /\ Received(n) = Larger(newMax[n], chan[Input(n)][1])
  BY <1>3 DEF TypeOK, Received
<1> QED
  BY <1>1, <1>3, <1>4, LargerFacts

(* Every step keeps the types; a node that still writes or reads is within  *)
(* its rounds.                                                             *)
LEMMA TypeStep == TypeOK /\ RoundInv /\ [Next]_vars => TypeOK'
<1> SUFFICES ASSUME TypeOK, RoundInv, [Next]_vars PROVE TypeOK'
  OBVIOUS
<1>1. CASE UNCHANGED vars
  BY <1>1 DEF TypeOK, vars
<1>2. ASSUME NEW n \in Nodes, Write(n) PROVE TypeOK'
  <2> DEFINE l == <<n, Neighbours[n][k[n]]>>
  <2>1. l \in Links /\ max[n] \in Nat
    BY PositionFacts DEF TypeOK
  <2>2. chan' \in [Links -> Seq(Nat)]
    <3>1. Append(chan[l], max[n]) \in Seq(Nat)
      BY <2>1 DEF TypeOK
    <3> QED
      BY <1>2, <2>1, <3>1 DEF TypeOK, Write
  <2>3. k' \in [Nodes -> Nat] /\ \A m \in Nodes : k'[m] \in DOMAIN Neighbours[m]
    BY <1>2, IndexFacts, PositionFacts DEF TypeOK, Write
  <2>4. /\ pc' \in [Nodes -> {"write", "read", "done"}]
        /\ newMax' \in [Nodes -> Nat]
    BY <1>2, <2>1 DEF TypeOK, Write, Goto
  <2> QED
    BY <1>2, <2>2, <2>3, <2>4 DEF TypeOK, Write
<1>3. ASSUME NEW n \in Nodes, ReadOne(n) PROVE TypeOK'
  <2>1. Received(n) \in Nat /\ Input(n) \in Links /\ <<>> \in Seq(Nat)
    BY <1>3, ReceivedFacts DEF ReadOne
  <2>2. k' \in [Nodes -> Nat] /\ \A m \in Nodes : k'[m] \in DOMAIN Neighbours[m]
    BY <1>3, IndexFacts, PositionFacts DEF TypeOK, ReadOne
  <2> QED
    BY <1>3, <2>1, <2>2 DEF TypeOK, ReadOne
<1>4. ASSUME NEW n \in Nodes, EndRound(n) PROVE TypeOK'
  <2>1. Received(n) \in Nat /\ Input(n) \in Links /\ <<>> \in Seq(Nat)
    BY <1>4, ReceivedFacts DEF EndRound
  <2>2. k' \in [Nodes -> Nat] /\ \A m \in Nodes : k'[m] \in DOMAIN Neighbours[m]
    BY <1>4, IndexFacts, PositionFacts DEF TypeOK, EndRound
  <2>3. round[n] + 1 \in 1..(Diameter + 1)
    BY <1>4, GraphAssumption DEF TypeOK, RoundInv, EndRound
  <2>4. pc' \in [Nodes -> {"write", "read", "done"}]
    BY <1>4 DEF TypeOK, EndRound, Goto
  <2> QED
    BY <1>4, <2>1, <2>2, <2>3, <2>4 DEF TypeOK, EndRound
<1>5. CASE CleanUp
  BY <1>5 DEF TypeOK, CleanUp
<1> QED
  BY <1>1, <1>2, <1>3, <1>4, <1>5 DEF Next, Node
-----------------------------------------------------------------------------
(* What a write counts for: one message more to that neighbour.            *)
LEMMA WriteCounts ==
  ASSUME TypeOK, NEW n \in Nodes, Write(n)
  PROVE  /\ \A m \in Nodes : \A a \in DOMAIN Neighbours[m] : Reads(m, a)' = Reads(m, a)
         /\ \A m \in Nodes : \A b \in DOMAIN Neighbours[m] :
              Written(m, b)' = Written(m, b) + (IF m = n /\ b = k[n] THEN 1 ELSE 0)
         /\ Written(n, k[n]) = round[n] - 1
<1>1. /\ pc[n] = "write" /\ round' = round
      /\ \A m \in Nodes \ {n} : pc'[m] = pc[m] /\ k'[m] = k[m]
      /\ IF LastNeighbour(n) THEN k'[n] = 1 /\ pc'[n] = "read"
                             ELSE k'[n] = k[n] + 1 /\ pc'[n] = "write"
  BY DEF TypeOK, Write, Goto
<1>2. \A a \in DOMAIN Neighbours[n] :
        /\ a \in Nat /\ a >= 1 /\ k[n] \in Nat
        /\ LastNeighbour(n) => a <= k[n]
  BY IndexFacts, PositionFacts
<1>3. round[n] \in Nat
  BY IndexFacts
<1>4. \A m \in Nodes : round[m] \in Nat
  BY IndexFacts
<1>5. ASSUME NEW m \in Nodes \ {n}, NEW a \in DOMAIN Neighbours[m]
      PROVE  Reads(m, a)' = Reads(m, a) /\ Written(m, a)' = Written(m, a) + 0
  BY <1>1, <1>4 DEF Reads, Written
<1>6. ASSUME NEW a \in DOMAIN Neighbours[n]
      PROVE  /\ Reads(n, a)' = Reads(n, a)
             /\ Written(n, a)' = Written(n, a) + (IF a = k[n] THEN 1 ELSE 0)
  BY <1>1, <1>2, <1>3 DEF Reads, Written
<1>7. Written(n, k[n]) = round[n] - 1
  BY <1>1, <1>2, <1>3, IndexFacts DEF Written
<1> QED
  BY <1>5, <1>6, <1>7

(* What a read counts for: one read more from that neighbour.              *)
LEMMA ReadCounts ==
  ASSUME TypeOK, NEW n \in Nodes, ReadOne(n) \/ EndRound(n)
  PROVE  /\ \A m \in Nodes : \A a \in DOMAIN Neighbours[m] :
              /\ Written(m, a)' = Written(m, a)
              /\ Reads(m, a)' = Reads(m, a) + (IF m = n /\ a = k[n] THEN 1 ELSE 0)
         /\ Reads(n, k[n]) = round[n] - 1
<1>1. /\ pc[n] = "read"
      /\ \A m \in Nodes \ {n} : pc'[m] = pc[m] /\ k'[m] = k[m] /\ round'[m] = round[m]
      /\ \/ ~LastNeighbour(n) /\ k'[n] = k[n] + 1 /\ pc'[n] = "read" /\ round'[n] = round[n]
         \/ /\ LastNeighbour(n) /\ k'[n] = 1 /\ pc'[n] \in {"write", "done"}
            /\ round'[n] = round[n] + 1
  BY DEF TypeOK, ReadOne, EndRound, Goto
<1>2. \A a \in DOMAIN Neighbours[n] :
        /\ a \in Nat /\ a >= 1 /\ k[n] \in Nat
        /\ LastNeighbour(n) => a <= k[n]
  BY IndexFacts, PositionFacts
<1>3. \A m \in Nodes : round[m] \in Nat
  BY IndexFacts
<1>4. ASSUME NEW m \in Nodes \ {n}, NEW a \in DOMAIN Neighbours[m]
      PROVE  Written(m, a)' = Written(m, a) /\ Reads(m, a)' = Reads(m, a) + 0
  BY <1>1, <1>3 DEF Reads, Written
<1>5. ASSUME NEW a \in DOMAIN Neighbours[n]
      PROVE  /\ Written(n, a)' = Written(n, a)
             /\ Reads(n, a)' = Reads(n, a) + (IF a = k[n] THEN 1 ELSE 0)
  BY <1>1, <1>2, <1>3 DEF Reads, Written
<1>6. Reads(n, k[n]) = round[n] - 1
  BY <1>2, <1>3, IndexFacts DEF Reads
<1> QED
  BY <1>4, <1>5, <1>6

(* Counts are numbers.                                                     *)
LEMMA CountType ==
  ASSUME TypeOK, NEW n \in Nodes, NEW a
  PROVE  Reads(n, a) \in Nat /\ Written(n, a) \in Nat
BY IndexFacts DEF Reads, Written

(* A pipe is written as late as the writer's round.                        *)
LEMMA LinkAfterWrite ==
  ASSUME Inv, NEW n \in Nodes, Write(n)
  PROVE  LinkInv'
<1> USE DEF Inv
<1> DEFINE w == <<n, Neighbours[n][k[n]]>>
<1>1. /\ w \in Links /\ k[n] \in DOMAIN Neighbours[n] /\ Neighbours[n][k[n]] \in Nodes
      /\ chan' = [chan EXCEPT ![w] = Append(@, max[n])] /\ max[n] \in Nat
  BY PositionFacts DEF TypeOK, Write
<1> SUFFICES ASSUME NEW m \in Nodes, NEW a \in DOMAIN Neighbours[m]
             PROVE  LET i == Neighbours[m][a]
                        c == chan'[<<i, m>>]
                    IN  /\ \A b \in DOMAIN Neighbours[i] :
                             Neighbours[i][b] = m => Reads(m, a)' + Len(c) <= Written(i, b)'
                        /\ \A p \in 1..Len(c) : Knows(i, c[p], Reads(m, a)' + p - 1)
  BY DEF LinkInv, Knows
<1> DEFINE i == Neighbours[m][a]
           c == chan[<<i, m>>]
<1>2. i \in Nodes /\ <<i, m>> \in Links
  BY PositionFacts
<1>3. c \in Seq(Nat) /\ Len(c) \in Nat
  BY <1>2 DEF TypeOK
<1>4. /\ \A b \in DOMAIN Neighbours[i] :
           Neighbours[i][b] = m => Reads(m, a) + Len(c) <= Written(i, b)
      /\ \A p \in 1..Len(c) : Knows(i, c[p], Reads(m, a) + p - 1)
  BY DEF LinkInv
<1>5. Reads(m, a)' = Reads(m, a) /\ Reads(m, a) \in Nat
  BY WriteCounts, CountType
<1>6. \A b \in DOMAIN Neighbours[i] :
        /\ Written(i, b)' = Written(i, b) + (IF i = n /\ b = k[n] THEN 1 ELSE 0)
        /\ Written(i, b) \in Nat
  BY <1>2, WriteCounts, CountType
<1> HIDE DEF i, c
<1>7. CASE <<i, m>> = w
  <2>1. i = n /\ m = Neighbours[n][k[n]]
    BY <1>7
  <2>2. chan'[<<i, m>>] = Append(c, max[n])
    BY <1>1, <1>7 DEF TypeOK, c
  <2>3. \A b \in DOMAIN Neighbours[i] : Neighbours[i][b] = m => b = k[n]
    BY <1>1, <2>1, GraphAssumption
  <2>4. Reads(m, a) + Len(c) <= round[n] - 1
    BY <1>1, <1>4, <2>1, WriteCounts
  <2>5. ASSUME NEW p \in 1..(Len(c) + 1)
        PROVE  Knows(i, Append(c, max[n])[p], Reads(m, a) + p - 1)
    <3>1. CASE p \in 1..Len(c)
      <4>1. Append(c, max[n])[p] = c[p]
        BY <1>3, <3>1
      <4>2. Knows(i, c[p], Reads(m, a) + p - 1)
        BY <1>4, <3>1
      <4> QED
        BY <4>1, <4>2
    <3>2. CASE p = Len(c) + 1
      <4>1. Append(c, max[n])[p] = max[n] /\ Reads(m, a) + p - 1 <= round[n] - 1
        BY <1>3, <1>5, <2>4, <3>2
      <4>2. Knows(n, max[n], round[n] - 1) /\ round[n] \in Nat
        BY IndexFacts DEF NodeInv
      <4>3. Reads(m, a) + p - 1 \in Int /\ round[n] - 1 \in Int /\ max[n] <= max[n]
        BY <1>1, <1>3, <1>5, <3>2, <4>2
      <4>4. Knows(n, max[n], Reads(m, a) + p - 1)
        BY <1>1, <4>1, <4>2, <4>3, KnowsMore
      <4> QED
        BY <2>1, <4>1, <4>4
    <3> QED
      BY <1>3, <3>1, <3>2
  <2>6. Len(Append(c, max[n])) = Len(c) + 1
    BY <1>3
  <2>7. ASSUME NEW b \in DOMAIN Neighbours[i], Neighbours[i][b] = m
        PROVE  Reads(m, a)' + (Len(c) + 1) <= Written(i, b)'
    <3>1. Written(i, b)' = Written(i, b) + 1 /\ Written(i, b) \in Nat
      BY <1>6, <2>1, <2>3, <2>7
    <3>2. Reads(m, a) + Len(c) <= Written(i, b)
      BY <1>4, <2>7
    <3> HIDE DEF Inv
    <3> QED
      BY <1>3, <1>5, <3>1, <3>2
  <2> QED
    BY <1>5, <2>2, <2>5, <2>6, <2>7 DEF i
<1>8. CASE <<i, m>> # w
  <2>1. chan'[<<i, m>>] = c
    BY <1>1, <1>2, <1>8 DEF TypeOK, i, c
  <2>2. \A b \in DOMAIN Neighbours[i] : Written(i, b) <= Written(i, b)'
    BY <1>6
  <2>3. ASSUME NEW b \in DOMAIN Neighbours[i], Neighbours[i][b] = m
        PROVE  Reads(m, a)' + Len(c) <= Written(i, b)'
    <3>1. Reads(m, a) + Len(c) <= Written(i, b) /\ Written(i, b) <= Written(i, b)'
      BY <1>4, <2>2, <2>3
    <3>2. Written(i, b) \in Nat /\ Written(i, b)' \in Nat
      BY <1>6
    <3> QED
      BY <1>3, <1>5, <3>1, <3>2
  <2> QED
    BY <1>4, <1>5, <2>1, <2>3 DEF i
<1> QED
  BY <1>7, <1>8

(* A read empties the pipe, and at least the message that was due is gone. *)
LEMMA LinkAfterRead ==
  ASSUME Inv, NEW n \in Nodes, ReadOne(n) \/ EndRound(n)
  PROVE  LinkInv'
<1> USE DEF Inv
<1>1. /\ chan[Input(n)] # <<>> /\ chan' = [chan EXCEPT ![Input(n)] = <<>>]
      /\ Input(n) \in Links /\ Input(n) = <<Neighbours[n][k[n]], n>>
      /\ k[n] \in DOMAIN Neighbours[n]
  BY ReceivedFacts DEF TypeOK, ReadOne, EndRound
<1> SUFFICES ASSUME NEW m \in Nodes, NEW a \in DOMAIN Neighbours[m]
             PROVE  LET i == Neighbours[m][a]
                        c == chan'[<<i, m>>]
                    IN  /\ \A b \in DOMAIN Neighbours[i] :
                             Neighbours[i][b] = m => Reads(m, a)' + Len(c) <= Written(i, b)'
                        /\ \A p \in 1..Len(c) : Knows(i, c[p], Reads(m, a)' + p - 1)
  BY DEF LinkInv, Knows
<1> DEFINE i == Neighbours[m][a]
           c == chan[<<i, m>>]
<1>2. i \in Nodes /\ <<i, m>> \in Links
  BY PositionFacts
<1>3. c \in Seq(Nat) /\ Len(c) \in Nat
  BY <1>2 DEF TypeOK
<1>4. /\ \A b \in DOMAIN Neighbours[i] :
           Neighbours[i][b] = m => Reads(m, a) + Len(c) <= Written(i, b)
      /\ \A p \in 1..Len(c) : Knows(i, c[p], Reads(m, a) + p - 1)
  BY DEF LinkInv
<1>5. /\ Reads(m, a)' = Reads(m, a) + (IF m = n /\ a = k[n] THEN 1 ELSE 0)
      /\ Reads(m, a) \in Nat
  BY ReadCounts, CountType
<1>6. \A b \in DOMAIN Neighbours[i] : Written(i, b)' = Written(i, b) /\ Written(i, b) \in Nat
  BY <1>2, ReadCounts, CountType
<1>7. CASE m = n /\ a = k[n]
  <2>1. chan'[<<i, m>>] = <<>> /\ c # <<>>
    BY <1>1, <1>7 DEF TypeOK
  <2> HIDE DEF i, c
  <2>2. Len(c) >= 1
    BY <1>3, <2>1
  <2>3. ASSUME NEW b \in DOMAIN Neighbours[i], Neighbours[i][b] = m
        PROVE  Reads(m, a)' + 0 <= Written(i, b)'
    <3>1. Reads(m, a) + Len(c) <= Written(i, b)
      BY <1>4, <2>3
    <3>2. Written(i, b) \in Nat /\ Written(i, b)' = Written(i, b)
      BY <1>6
    <3>3. Reads(m, a)' = Reads(m, a) + 1
      BY <1>5, <1>7
    <3> QED
      BY <1>3, <1>5, <2>2, <3>1, <3>2, <3>3
  <2>4. Len(chan'[<<i, m>>]) = 0
    BY <2>1
  <2> QED
    BY <2>3, <2>4 DEF i
<1>8. CASE ~(m = n /\ a = k[n])
  <2>1. <<i, m>> # Input(n)
    <3>1. \A b \in DOMAIN Neighbours[n] : Neighbours[n][b] = Neighbours[n][k[n]] => b = k[n]
      BY <1>1, GraphAssumption
    <3> HIDE DEF Inv, c
    <3>2. CASE m # n
      BY <1>1, <3>2
    <3>3. CASE m = n
      <4>1. i # Neighbours[n][k[n]]
        BY <1>8, <3>1, <3>3
      <4> HIDE DEF i
      <4> QED
        BY <1>1, <4>1
    <3> QED
      BY <3>2, <3>3
  <2>2. chan'[<<i, m>>] = c
    BY <1>1, <1>2, <2>1 DEF TypeOK
  <2>3. Reads(m, a)' = Reads(m, a)
    BY <1>5, <1>8
  <2> HIDE DEF i, c
  <2> QED
    BY <1>4, <1>6, <2>2, <2>3 DEF i
<1> QED
  BY <1>7, <1>8
-----------------------------------------------------------------------------
(* What is due in the round comes with the read.                           *)
LEMMA ReceivedKnows ==
  ASSUME Inv, NEW n \in Nodes, pc[n] = "read", chan[Input(n)] # <<>>
  PROVE  /\ max[n] <= Received(n) /\ Knows(n, Received(n), round[n] - 1)
         /\ \A a \in DOMAIN Neighbours[n] :
              a <= k[n] => Knows(Neighbours[n][a], Received(n), round[n] - 1)
<1> DEFINE r == round[n] - 1
           v == Received(n)
           j == Neighbours[n][k[n]]
           head == chan[<<j, n>>][1]
<1>1. TypeOK /\ LinkInv /\ NodeInv
  BY DEF Inv
<1>2. /\ v \in Nat /\ newMax[n] <= v /\ head \in Nat /\ head <= v
      /\ 1 \in 1..Len(chan[<<j, n>>])
  BY <1>1, ReceivedFacts
<1>3. /\ k[n] \in DOMAIN Neighbours[n] /\ k[n] \in Nat /\ r \in Nat
      /\ max[n] \in Nat /\ newMax[n] \in Nat
      /\ \A a \in DOMAIN Neighbours[n] : a \in Nat /\ Neighbours[n][a] \in Nodes
  <2>1. k[n] \in DOMAIN Neighbours[n] /\ k[n] \in Nat /\ round[n] \in Nat /\ round[n] >= 1
    BY <1>1, IndexFacts
  <2>2. max[n] \in Nat /\ newMax[n] \in Nat
    BY <1>1 DEF TypeOK
  <2>3. \A a \in DOMAIN Neighbours[n] : a \in Nat /\ Neighbours[n][a] \in Nodes
    <3>1. \A a \in DOMAIN Neighbours[n] : a \in Nat
      BY <1>1, IndexFacts
    <3>2. \A a \in DOMAIN Neighbours[n] : Neighbours[n][a] \in Nodes
      BY PositionFacts
    <3> QED
      BY <3>1, <3>2
  <2>4. r \in Nat
    BY <2>1
  <2> QED
    BY <2>1, <2>2, <2>3, <2>4
<1>4. Reads(n, k[n]) = r
  BY <1>3 DEF Reads
<1>5. Knows(j, head, r)
  <2>1. Knows(j, head, Reads(n, k[n]) + 1 - 1)
    BY <1>1, <1>2, <1>3 DEF LinkInv
  <2>2. Reads(n, k[n]) + 1 - 1 = r
    BY <1>3, <1>4
  <2> QED
    BY <2>1, <2>2
<1>6. /\ Knows(n, max[n], r) /\ max[n] <= newMax[n]
      /\ \A a \in DOMAIN Neighbours[n] : a < k[n] => Knows(Neighbours[n][a], newMax[n], r)
  BY <1>1 DEF NodeInv
<1> HIDE DEF r, v, head, Inv
<1>7. max[n] <= v
  BY <1>2, <1>3, <1>6
<1>8. r \in Int /\ r <= r
  BY <1>3
<1>9. Knows(n, v, r)
  BY <1>2, <1>3, <1>6, <1>7, <1>8, KnowsMore
<1>10. ASSUME NEW a \in DOMAIN Neighbours[n], a <= k[n] PROVE Knows(Neighbours[n][a], v, r)
  <2>1. CASE a = k[n]
    BY <1>2, <1>3, <1>5, <1>8, <2>1, KnowsMore
  <2>2. CASE a # k[n]
    <3>1. Knows(Neighbours[n][a], newMax[n], r)
      BY <1>3, <1>6, <1>10, <2>2
    <3> QED
      BY <1>2, <1>3, <1>8, <3>1, KnowsMore
  <2> QED
    BY <2>1, <2>2
<1> QED
  BY <1>7, <1>9, <1>10 DEF r, v

(* A node's step keeps what it knows.                                      *)
LEMMA NodeStep ==
  ASSUME Inv, NEW n \in Nodes, Node(n)
  PROVE  NodeInv' /\ RoundInv'
<1>1. TypeOK /\ NodeInv /\ RoundInv
  BY DEF Inv
<1>2. \A m \in Nodes \ {n} : /\ max'[m] = max[m] /\ newMax'[m] = newMax[m]
                             /\ pc'[m] = pc[m] /\ k'[m] = k[m] /\ round'[m] = round[m]
  BY <1>1 DEF TypeOK, Node, Write, ReadOne, EndRound, Goto
<1> DEFINE Part(m) ==
      /\ Knows(m, max'[m], round'[m] - 1)
      /\ pc'[m] = "read" =>
           /\ max'[m] <= newMax'[m]
           /\ \A a \in DOMAIN Neighbours[m] :
                a < k'[m] => Knows(Neighbours[m][a], newMax'[m], round'[m] - 1)
      /\ pc'[m] = "done" <=> round'[m] = Diameter + 1
<1>3. ASSUME NEW m \in Nodes \ {n} PROVE Part(m)
  BY <1>1, <1>2, <1>3 DEF NodeInv, RoundInv
<1>4. \A a \in DOMAIN Neighbours[n] : a \in Nat /\ a >= 1
  BY PositionFacts
<1>5. k[n] \in Nat /\ round[n] \in Nat /\ max[n] \in Nat /\ newMax[n] \in Nat
      /\ round[n] >= 1 /\ Diameter \in Nat /\ round[n] <= Diameter + 1
  BY <1>1, IndexFacts, GraphAssumption DEF TypeOK
<1>6. Knows(n, max[n], round[n] - 1) /\ (pc[n] = "done" <=> round[n] = Diameter + 1)
  BY <1>1 DEF NodeInv, RoundInv
<1>7. ASSUME Write(n) PROVE Part(n)
  <2>1. /\ pc[n] = "write" /\ max'[n] = max[n] /\ round'[n] = round[n]
        /\ \/ pc'[n] = "write"
           \/ pc'[n] = "read" /\ k'[n] = 1 /\ newMax'[n] = max[n]
    BY <1>1, <1>7 DEF TypeOK, Write, Goto
  <2> QED
    BY <1>4, <1>5, <1>6, <2>1
<1>8. ASSUME ReadOne(n) PROVE Part(n)
  <2>1. /\ pc[n] = "read" /\ pc'[n] = "read" /\ max'[n] = max[n] /\ round'[n] = round[n]
        /\ newMax'[n] = Received(n) /\ k'[n] = k[n] + 1 /\ chan[Input(n)] # <<>>
    BY <1>1, <1>8 DEF TypeOK, ReadOne
  <2>2. /\ max[n] <= Received(n)
        /\ \A a \in DOMAIN Neighbours[n] :
             a <= k[n] => Knows(Neighbours[n][a], Received(n), round[n] - 1)
    BY <2>1, ReceivedKnows
  <2>3. \A a \in DOMAIN Neighbours[n] : a < k[n] + 1 => a <= k[n]
    BY <1>4, <1>5
  <2> QED
    BY <1>6, <2>1, <2>2, <2>3
<1>9. ASSUME EndRound(n) PROVE Part(n)
  <2>1. /\ pc[n] = "read" /\ max'[n] = Received(n) /\ round'[n] = round[n] + 1
        /\ pc'[n] = IF round[n] = Diameter THEN "done" ELSE "write"
        /\ LastNeighbour(n) /\ chan[Input(n)] # <<>>
    BY <1>1, <1>9 DEF TypeOK, EndRound, Goto
  <2>2. /\ Knows(n, Received(n), round[n] - 1)
        /\ \A a \in DOMAIN Neighbours[n] : Knows(Neighbours[n][a], Received(n), round[n] - 1)
    BY <1>1, <2>1, ReceivedKnows, IndexFacts
  <2>3. round[n] - 1 \in Nat /\ (round[n] - 1) + 1 = round[n] /\ round[n] <= Diameter
    BY <1>5, <1>6, <2>1
  <2>4. \A m \in Adjacent(n) : Knows(m, Received(n), round[n] - 1)
    BY <2>2 DEF Adjacent
  <2>5. Knows(n, Received(n), round[n])
    <3>1. Knows(n, Received(n), (round[n] - 1) + 1)
      BY <2>2, <2>3, <2>4, KnowsNext
    <3> QED
      BY <2>3, <3>1
  <2>6. (round[n] + 1) - 1 = round[n] /\ (round[n] + 1 = Diameter + 1 <=> round[n] = Diameter)
    BY <1>5
  <2> QED
    BY <2>1, <2>5, <2>6
<1>10. \A m \in Nodes : Part(m)
  BY <1>3, <1>7, <1>8, <1>9 DEF Node
<1> QED
  BY <1>10 DEF NodeInv, RoundInv, Knows

(* No step invents an identifier.                                          *)
LEMMA RealStep ==
  ASSUME Inv, NEW n \in Nodes, Node(n)
  PROVE  RealInv'
<1>1. TypeOK /\ RealInv
  BY DEF Inv
<1>2. CASE Write(n)
  <2> DEFINE w == <<n, Neighbours[n][k[n]]>>
  <2>1. /\ max' = max /\ chan' = [chan EXCEPT ![w] = Append(@, max[n])] /\ w \in Links
        /\ \A m \in Nodes : newMax'[m] \in {newMax[m], max[m]}
    BY <1>1, <1>2, PositionFacts DEF TypeOK, Write
  <2>2. chan[w] \in Seq(Nat)
    BY <1>1, <2>1 DEF TypeOK
  <2>3. \A l \in Links : \A p \in 1..Len(chan'[l]) : chan'[l][p] \in Uids
    <3> SUFFICES ASSUME NEW l \in Links, NEW p \in 1..Len(chan'[l])
                 PROVE  chan'[l][p] \in Uids
      OBVIOUS
    <3>1. CASE l # w
      BY <1>1, <2>1, <3>1 DEF TypeOK, RealInv
    <3>2. CASE l = w
      <4>1. chan'[l] = Append(chan[w], max[n])
        BY <1>1, <2>1, <3>2 DEF TypeOK
      <4>2. \/ p \in 1..Len(chan[w]) /\ chan'[l][p] = chan[w][p]
            \/ chan'[l][p] = max[n]
        BY <2>2, <4>1
      <4> QED
        BY <1>1, <2>1, <4>2 DEF RealInv
    <3> QED
      BY <3>1, <3>2
  <2> QED
    BY <1>1, <2>1, <2>3 DEF RealInv, Uids
<1>3. CASE ReadOne(n) \/ EndRound(n)
  <2>1. /\ chan' = [chan EXCEPT ![Input(n)] = <<>>] /\ chan[Input(n)] # <<>>
        /\ \A m \in Nodes : max'[m] \in {max[m], Received(n)}
        /\ \A m \in Nodes : newMax'[m] \in {newMax[m], Received(n)}
    BY <1>1, <1>3 DEF TypeOK, ReadOne, EndRound
  <2>2. Received(n) \in Uids
    BY <1>1, <2>1, ReceivedFacts DEF RealInv
  <2>3. \A l \in Links : \A p \in 1..Len(chan'[l]) : p \in 1..Len(chan[l]) /\ chan'[l][p] = chan[l][p]
    <3> SUFFICES ASSUME NEW l \in Links, NEW p \in 1..Len(chan'[l])
                 PROVE  p \in 1..Len(chan[l]) /\ chan'[l][p] = chan[l][p]
      OBVIOUS
    <3>1. chan'[l] = chan[l] \/ chan'[l] = <<>>
      BY <1>1, <2>1 DEF TypeOK
    <3>2. \A q \in 1..Len(<<>>) : FALSE
      OBVIOUS
    <3> QED
      BY <3>1, <3>2
  <2> QED
    BY <1>1, <2>1, <2>2, <2>3 DEF RealInv, Uids
<1> QED
  BY <1>2, <1>3 DEF Node

(* Every step keeps the invariant.                                         *)
LEMMA InvStep == Inv /\ [Next]_vars => Inv'
<1> SUFFICES ASSUME Inv, [Next]_vars PROVE Inv'
  OBVIOUS
<1>1. TypeOK'
  BY TypeStep DEF Inv
<1>2. ASSUME NEW n \in Nodes, Node(n) PROVE Inv'
  BY <1>1, <1>2, LinkAfterWrite, LinkAfterRead, NodeStep, RealStep DEF Node, Inv
<1>3. CASE CleanUp \/ UNCHANGED vars
  <2>1. UNCHANGED <<pc, round, k, max, newMax, chan>>
    BY <1>3 DEF CleanUp, vars
  <2>2. LinkInv'
    <3>1. \A n \in Nodes : \A a : Reads(n, a)' = Reads(n, a) /\ Written(n, a)' = Written(n, a)
      BY <2>1 DEF Reads, Written
    <3>2. SUFFICES ASSUME NEW n \in Nodes, NEW a \in DOMAIN Neighbours[n]
                   PROVE  LET i == Neighbours[n][a]
                              c == chan[<<i, n>>]
                          IN  /\ \A b \in DOMAIN Neighbours[i] :
                                   Neighbours[i][b] = n => Reads(n, a) + Len(c) <= Written(i, b)'
                              /\ \A p \in 1..Len(c) : Knows(i, c[p], Reads(n, a) + p - 1)
      BY <2>1, <3>1 DEF LinkInv, Knows
    <3>3. Neighbours[n][a] \in Nodes
      BY PositionFacts
    <3> QED
      BY <3>1, <3>3 DEF Inv, LinkInv
  <2>3. NodeInv' /\ RoundInv' /\ RealInv'
    BY <2>1 DEF Inv, NodeInv, RoundInv, RealInv, Knows, Uids
  <2> QED
    BY <1>1, <2>2, <2>3 DEF Inv
<1> QED
  BY <1>2, <1>3 DEF Next

(* The invariant holds at the start: a node knows itself.                  *)
LEMMA InvInit == Init => Inv
<1> SUFFICES ASSUME Init PROVE Inv
  OBVIOUS
<1>1. TypeOK
  <2>1. 1 \in 1..(Diameter + 1) /\ Uid \in [Nodes -> Nat]
    BY GraphAssumption
  <2>2. \A n \in Nodes : 1 \in DOMAIN Neighbours[n]
    BY PositionFacts
  <2>3. k \in [Nodes -> Nat] /\ \A n \in Nodes : k[n] \in DOMAIN Neighbours[n]
    BY <2>2 DEF Init
  <2>4. chan \in [Links -> Seq(Nat)]
    BY DEF Init
  <2> QED
    BY <2>1, <2>3, <2>4 DEF Init, TypeOK
<1>2. \A n \in Nodes : Uid[n] \in Nat /\ Knows(n, Uid[n], 0)
  <2>1. \A n \in Nodes : Ball[0][n] = {n} /\ Uid[n] \in Nat
    <3>1. 0 \in 0..Diameter
      BY GraphAssumption
    <3>2. \A n \in Nodes : Ball[0][n] = {n}
      BY <3>1, BallEquation
    <3> QED
      BY <3>2, GraphAssumption
  <2>2. \A q \in 0..0 : q = 0
    OBVIOUS
  <2> QED
    BY <2>1, <2>2 DEF Knows
<1>3. LinkInv
  <2>1. ASSUME NEW n \in Nodes, NEW a \in DOMAIN Neighbours[n]
        PROVE  /\ chan[<<Neighbours[n][a], n>>] = <<>> /\ Neighbours[n][a] \in Nodes
               /\ Reads(n, a) = 0
    <3>1. Neighbours[n][a] \in Nodes /\ <<Neighbours[n][a], n>> \in Links
      BY PositionFacts
    <3>2. pc[n] = "write" /\ round[n] = 1
      BY DEF Init
    <3>3. Reads(n, a) = 0
      BY <3>2 DEF Reads
    <3> QED
      BY <3>1, <3>3 DEF Init
  <2>2. ASSUME NEW n \in Nodes, NEW a \in DOMAIN Neighbours[n] PROVE Written(n, a) = 0
    <3>1. pc[n] = "write" /\ round[n] = 1 /\ k[n] = 1
      BY DEF Init
    <3>2. a \in Nat /\ ~(a < 1)
      BY PositionFacts
    <3> QED
      BY <3>1, <3>2 DEF Written
  <2>3. Len(<<>>) = 0 /\ \A p \in 1..Len(<<>>) : FALSE
    OBVIOUS
  <2> QED
    BY <2>1, <2>2, <2>3 DEF LinkInv
<1>4. NodeInv
  BY <1>2 DEF Init, NodeInv
<1>5. RoundInv
  BY GraphAssumption DEF Init, RoundInv
<1>6. RealInv
  BY DEF Init, RealInv, Uids
<1> QED
  BY <1>1, <1>3, <1>4, <1>5, <1>6 DEF Inv

(* Who has decided knows the whole network.                                *)
LEMMA InvAgrees == Inv => Agreement
<1> SUFFICES ASSUME Inv, NEW n \in Nodes, pc[n] = "done"
             PROVE  IsMaxOf(max[n], Nodes)
  BY DEF Agreement
<1>1. round[n] = Diameter + 1 /\ Diameter \in Nat
  BY GraphAssumption DEF Inv, RoundInv
<1>2. (Diameter + 1) - 1 = Diameter /\ Diameter \in 0..Diameter
  BY <1>1
<1>3. Knows(n, max[n], Diameter)
  BY <1>1, <1>2 DEF Inv, NodeInv
<1>4. \A m \in Nodes : Uid[m] <= max[n]
  BY <1>2, <1>3, DiameterAssumption DEF Knows
<1>5. \E m \in Nodes : Uid[m] = max[n]
  BY DEF Inv, RealInv, Uids
<1> QED
  BY <1>4, <1>5 DEF IsMaxOf

(* Every variable keeps its type, for any network.                         *)
THEOREM TypeCorrect == Spec => []TypeOK
<1>1. Inv => TypeOK
  BY DEF Inv
<1> QED
  BY <1>1, InvInit, InvStep, PTL DEF Spec

(* For any network whose diameter is at most DIAMETER, at any timing and    *)
(* with any loss of messages, a node that decides (floodmax.c:69-73) holds  *)
(* the largest identifier: two nodes never proclaim themselves.            *)
THEOREM AgreementCorrect == Spec => []Agreement
BY InvInit, InvStep, InvAgrees, PTL DEF Spec

-----------------------------------------------------------------------------
(* Round by round.                                                         *)

(* The identifiers at most r links away from n.                            *)
Near(n, r) == {Uid[m] : m \in Ball[r][n]}

(* As long as no message of a pipe was lost, it holds all that was written  *)
(* and not read, and its first message is the maximum of the round that is *)
(* due.  Unpaced, that is known of the first read only.                    *)
PipeInv == \A n \in Nodes : \A a \in DOMAIN Neighbours[n] :
             LET i == Neighbours[n][a]
                 c == chan[<<i, n>>]
             IN  /\ paced => Len(c) <= 1
                 /\ paced \/ Reads(n, a) = 0 =>
                      /\ \A b \in DOMAIN Neighbours[i] :
                           Neighbours[i][b] = n => Reads(n, a) + Len(c) = Written(i, b)
                      /\ c # <<>> => c[1] \in Near(i, Reads(n, a))

(* Nothing held has come from farther away than the rounds done.           *)
HeldInv == \A n \in Nodes :
             /\ paced \/ round[n] <= 2 => max[n] \in Near(n, round[n] - 1)
             /\ pc[n] = "read" /\ (paced \/ round[n] = 1) => newMax[n] \in Near(n, round[n])

ExactInv == Inv /\ PipeInv /\ HeldInv

(* A ball holds nodes only: the least radius whose ball does not would have *)
(* got something else from a smaller ball.                                 *)
LEMMA BallInside == \A r \in 0..Diameter : \A n \in Nodes : Ball[r][n] \subseteq Nodes
<1> DEFINE Bad == {r \in 0..Diameter : \E n \in Nodes : ~(Ball[r][n] \subseteq Nodes)}
<1> SUFFICES ASSUME Bad # {} PROVE FALSE
  OBVIOUS
<1>1. Bad \in SUBSET Nat
  OBVIOUS
<1>2. PICK r \in Bad : \A q \in Bad : r <= q
  BY <1>1, NatMinimum
<1>3. PICK n \in Nodes : ~(Ball[r][n] \subseteq Nodes)
  OBVIOUS
<1>4. Ball[r][n] = IF r = 0 THEN {n}
                   ELSE Ball[r - 1][n] \cup UNION {Ball[r - 1][m] : m \in Adjacent(n)}
  BY BallEquation
<1>5. r # 0
  BY <1>3, <1>4
<1>6. r - 1 \in 0..Diameter /\ ~(r <= r - 1)
  BY <1>5, GraphAssumption
<1>7. r - 1 \notin Bad
  BY <1>2, <1>6
<1>8. \A m \in Nodes : Ball[r - 1][m] \subseteq Nodes
  BY <1>6, <1>7
<1>9. Adjacent(n) \subseteq Nodes
  BY PositionFacts DEF Adjacent
<1> QED
  BY <1>3, <1>4, <1>5, <1>8, <1>9

(* One round more reaches one link farther.                                *)
LEMMA NearGrows ==
  ASSUME NEW n \in Nodes, NEW r \in Nat, r + 1 <= Diameter
  PROVE  /\ Near(n, r) \subseteq Near(n, r + 1)
         /\ \A m \in Adjacent(n) : Near(m, r) \subseteq Near(n, r + 1)
<1>1. r + 1 \in 0..Diameter /\ r + 1 # 0 /\ (r + 1) - 1 = r
  BY GraphAssumption
<1>2. Ball[r + 1][n] = Ball[(r + 1) - 1][n] \cup UNION {Ball[(r + 1) - 1][m] : m \in Adjacent(n)}
  BY <1>1, BallEquation, Zenon
<1> QED
  BY <1>1, <1>2 DEF Near

LEMMA PipeAfterWrite ==
  ASSUME ExactInv, NEW n \in Nodes, Write(n)
  PROVE  PipeInv'
<1> DEFINE w == <<n, Neighbours[n][k[n]]>>
<1>0. TypeOK /\ PipeInv /\ HeldInv
  BY DEF ExactInv, Inv
<1>1. /\ w \in Links /\ k[n] \in DOMAIN Neighbours[n] /\ Neighbours[n][k[n]] \in Nodes
      /\ chan' = [chan EXCEPT ![w] = Append(@, max[n])] /\ max[n] \in Nat
      /\ paced => chan[w] = <<>>
      /\ paced' = paced
  BY <1>0, PositionFacts DEF TypeOK, Write
<1> SUFFICES ASSUME NEW m \in Nodes, NEW a \in DOMAIN Neighbours[m]
             PROVE  LET i == Neighbours[m][a]
                        c == chan'[<<i, m>>]
                    IN  /\ paced => Len(c) <= 1
                        /\ paced \/ Reads(m, a)' = 0 =>
                             /\ \A b \in DOMAIN Neighbours[i] :
                                  Neighbours[i][b] = m => Reads(m, a)' + Len(c) = Written(i, b)'
                             /\ c # <<>> => c[1] \in Near(i, Reads(m, a)')
  BY <1>1 DEF PipeInv, Near
<1> DEFINE i == Neighbours[m][a]
           c == chan[<<i, m>>]
<1>2. i \in Nodes /\ <<i, m>> \in Links
  BY PositionFacts
<1>3. c \in Seq(Nat) /\ Len(c) \in Nat
  BY <1>0, <1>2 DEF TypeOK
<1>4. /\ paced => Len(c) <= 1
      /\ paced \/ Reads(m, a) = 0 =>
           /\ \A b \in DOMAIN Neighbours[i] :
                Neighbours[i][b] = m => Reads(m, a) + Len(c) = Written(i, b)
           /\ c # <<>> => c[1] \in Near(i, Reads(m, a))
  BY <1>0 DEF PipeInv
<1>5. Reads(m, a)' = Reads(m, a) /\ Reads(m, a) \in Nat
  BY <1>0, WriteCounts, CountType
<1>6. \A b \in DOMAIN Neighbours[i] :
        /\ Written(i, b)' = Written(i, b) + (IF i = n /\ b = k[n] THEN 1 ELSE 0)
        /\ Written(i, b) \in Nat
  BY <1>0, <1>2, WriteCounts, CountType
<1> HIDE DEF i, c
<1>7. CASE <<i, m>> = w
  <2>1. i = n /\ m = Neighbours[n][k[n]] /\ c = chan[w]
    BY <1>7 DEF c
  <2>2. chan'[<<i, m>>] = Append(c, max[n])
    BY <1>0, <1>1, <1>7 DEF TypeOK, c
  <2>3. \A b \in DOMAIN Neighbours[i] : Neighbours[i][b] = m => b = k[n]
    BY <1>1, <2>1, GraphAssumption
  <2>4. Len(Append(c, max[n])) = Len(c) + 1 /\ (paced => Len(c) = 0)
    BY <1>1, <1>3, <2>1
  <2>5. ASSUME paced \/ Reads(m, a) = 0, NEW b \in DOMAIN Neighbours[i], Neighbours[i][b] = m
        PROVE  Reads(m, a) + (Len(c) + 1) = Written(i, b)'
    <3>1. Written(i, b)' = Written(i, b) + 1 /\ Written(i, b) \in Nat
      BY <1>6, <2>1, <2>3, <2>5
    <3>2. Reads(m, a) + Len(c) = Written(i, b)
      BY <1>4, <2>5
    <3> QED
      BY <1>3, <1>5, <3>1, <3>2
  <2>6. ASSUME paced \/ Reads(m, a) = 0
        PROVE  Append(c, max[n])[1] \in Near(i, Reads(m, a))
    <3>1. CASE c = <<>>
      <4>1. Append(c, max[n])[1] = max[n] /\ Len(c) = 0
        BY <3>1
      <4>2. Reads(m, a) + Len(c) = Written(i, k[n]) /\ Written(n, k[n]) = round[n] - 1
        BY <1>0, <1>1, <1>4, <2>1, <2>6, WriteCounts
      <4>3. round[n] \in Nat
        BY <1>0, IndexFacts
      <4>4. Reads(m, a) = round[n] - 1
        BY <1>5, <2>1, <4>1, <4>2, <4>3
      <4>5. max[n] \in Near(n, round[n] - 1)
        BY <1>0, <2>6, <4>3, <4>4 DEF HeldInv
      <4> QED
        BY <2>1, <4>1, <4>4, <4>5
    <3>2. CASE c # <<>>
      <4>1. Append(c, max[n])[1] = c[1]
        BY <1>3, <3>2
      <4> QED
        BY <1>4, <2>6, <3>2, <4>1
    <3> QED
      BY <3>1, <3>2
  <2> QED
    BY <1>5, <2>2, <2>4, <2>5, <2>6 DEF i
<1>8. CASE <<i, m>> # w
  <2>1. chan'[<<i, m>>] = c
    BY <1>0, <1>1, <1>2, <1>8 DEF TypeOK, i, c
  <2>2. ASSUME NEW b \in DOMAIN Neighbours[i], Neighbours[i][b] = m
        PROVE  Written(i, b)' = Written(i, b)
    <3>1. ~(i = n /\ b = k[n])
      BY <1>8, <2>2
    <3> QED
      BY <1>6, <3>1
  <2> QED
    BY <1>4, <1>5, <2>1, <2>2 DEF i
<1> QED
  BY <1>7, <1>8

(* Paced, a read takes the only message; unpaced, nothing is claimed of the *)
(* pipe afterwards.                                                        *)
LEMMA PipeAfterRead ==
  ASSUME ExactInv, NEW n \in Nodes, ReadOne(n) \/ EndRound(n)
  PROVE  PipeInv'
<1>0. TypeOK /\ PipeInv
  BY DEF ExactInv, Inv
<1>1. /\ chan[Input(n)] # <<>> /\ chan' = [chan EXCEPT ![Input(n)] = <<>>]
      /\ Input(n) \in Links /\ Input(n) = <<Neighbours[n][k[n]], n>>
      /\ k[n] \in DOMAIN Neighbours[n] /\ paced' = paced
  BY <1>0, ReceivedFacts DEF TypeOK, ReadOne, EndRound
<1> SUFFICES ASSUME NEW m \in Nodes, NEW a \in DOMAIN Neighbours[m]
             PROVE  LET i == Neighbours[m][a]
                        c == chan'[<<i, m>>]
                    IN  /\ paced => Len(c) <= 1
                        /\ paced \/ Reads(m, a)' = 0 =>
                             /\ \A b \in DOMAIN Neighbours[i] :
                                  Neighbours[i][b] = m => Reads(m, a)' + Len(c) = Written(i, b)'
                             /\ c # <<>> => c[1] \in Near(i, Reads(m, a)')
  BY <1>1 DEF PipeInv, Near
<1> DEFINE i == Neighbours[m][a]
           c == chan[<<i, m>>]
<1>2. i \in Nodes /\ <<i, m>> \in Links
  BY PositionFacts
<1>3. c \in Seq(Nat) /\ Len(c) \in Nat
  BY <1>0, <1>2 DEF TypeOK
<1>4. /\ paced => Len(c) <= 1
      /\ paced \/ Reads(m, a) = 0 =>
           /\ \A b \in DOMAIN Neighbours[i] :
                Neighbours[i][b] = m => Reads(m, a) + Len(c) = Written(i, b)
           /\ c # <<>> => c[1] \in Near(i, Reads(m, a))
  BY <1>0 DEF PipeInv
<1>5. /\ Reads(m, a)' = Reads(m, a) + (IF m = n /\ a = k[n] THEN 1 ELSE 0)
      /\ Reads(m, a) \in Nat
  BY <1>0, ReadCounts, CountType
<1>6. \A b \in DOMAIN Neighbours[i] : Written(i, b)' = Written(i, b) /\ Written(i, b) \in Nat
  BY <1>0, <1>2, ReadCounts, CountType
<1>7. CASE m = n /\ a = k[n]
  <2>1. chan'[<<i, m>>] = <<>> /\ c # <<>>
    BY <1>0, <1>1, <1>7 DEF TypeOK
  <2> HIDE DEF i, c
  <2>2. Len(chan'[<<i, m>>]) = 0 /\ Len(c) >= 1
    BY <1>3, <2>1
  <2>3. Reads(m, a)' = Reads(m, a) + 1 /\ Reads(m, a)' # 0
    BY <1>5, <1>7
  <2>4. ASSUME paced, NEW b \in DOMAIN Neighbours[i], Neighbours[i][b] = m
        PROVE  Reads(m, a)' + 0 = Written(i, b)'
    <3>1. Reads(m, a) + Len(c) = Written(i, b)
      BY <1>4, <2>4
    <3>3. \E l \in Nat : l = Len(c) /\ l <= 1 /\ l >= 1
      BY <1>3, <1>4, <2>2, <2>4
    <3>2. Written(i, b) \in Nat /\ Written(i, b)' = Written(i, b)
      BY <1>6
    <3> QED
      BY <1>5, <2>3, <3>1, <3>2, <3>3
  <2> QED
    BY <2>1, <2>2, <2>3, <2>4 DEF i
<1>8. CASE ~(m = n /\ a = k[n])
  <2>1. <<i, m>> # Input(n)
    <3>1. \A b \in DOMAIN Neighbours[n] : Neighbours[n][b] = Neighbours[n][k[n]] => b = k[n]
      BY <1>1, GraphAssumption
    <3> HIDE DEF c
    <3>2. CASE m # n
      BY <1>1, <3>2
    <3>3. CASE m = n
      <4>1. i # Neighbours[n][k[n]]
        BY <1>8, <3>1, <3>3
      <4> HIDE DEF i
      <4> QED
        BY <1>1, <4>1
    <3> QED
      BY <3>2, <3>3
  <2>2. chan'[<<i, m>>] = c
    BY <1>0, <1>1, <1>2, <2>1 DEF TypeOK
  <2>3. Reads(m, a)' = Reads(m, a)
    BY <1>5, <1>8
  <2> HIDE DEF i, c
  <2> QED
    BY <1>4, <1>6, <2>2, <2>3 DEF i
<1> QED
  BY <1>7, <1>8

(* What is read in the first round, or paced, is the neighbour's maximum of *)
(* that round, which has come one link less.                               *)
LEMMA ReceivedNear ==
  ASSUME ExactInv, NEW n \in Nodes, pc[n] = "read", chan[Input(n)] # <<>>,
         paced \/ round[n] = 1
  PROVE  Received(n) \in Near(n, round[n])
<1> DEFINE j == Neighbours[n][k[n]]
           r == round[n] - 1
<1>1. TypeOK /\ RoundInv /\ PipeInv /\ HeldInv
  BY DEF ExactInv, Inv
<1>2. /\ Input(n) = <<j, n>> /\ k[n] \in DOMAIN Neighbours[n] /\ k[n] \in Nat
      /\ Received(n) \in {newMax[n], chan[Input(n)][1]} /\ j \in Adjacent(n)
  BY <1>1, ReceivedFacts, IndexFacts, PositionFacts
<1>3. round[n] \in Nat /\ round[n] >= 1 /\ round[n] <= Diameter /\ Diameter \in Nat
  <2>1. round[n] \in 1..(Diameter + 1) /\ Diameter \in Nat
    BY <1>1, GraphAssumption DEF TypeOK
  <2>2. round[n] # Diameter + 1
    BY <1>1 DEF RoundInv
  <2> QED
    BY <2>1, <2>2
<1>4. Reads(n, k[n]) = r /\ r \in Nat /\ r + 1 = round[n]
  BY <1>2, <1>3 DEF Reads
<1>5. paced \/ Reads(n, k[n]) = 0
  BY <1>3, <1>4
<1> HIDE DEF r
<1>6. chan[Input(n)][1] \in Near(j, r)
  BY <1>1, <1>2, <1>4, <1>5 DEF PipeInv
<1>7. newMax[n] \in Near(n, round[n])
  BY <1>1 DEF HeldInv
<1> HIDE DEF j
<1>8. Near(j, r) \subseteq Near(n, round[n])
  BY <1>2, <1>3, <1>4, NearGrows
<1> QED
  BY <1>2, <1>6, <1>7, <1>8

LEMMA HeldStep ==
  ASSUME ExactInv, NEW n \in Nodes, Node(n)
  PROVE  HeldInv'
<1>1. TypeOK /\ RoundInv /\ HeldInv
  BY DEF ExactInv, Inv
<1>2. /\ \A m \in Nodes \ {n} : /\ max'[m] = max[m] /\ newMax'[m] = newMax[m]
                                /\ pc'[m] = pc[m] /\ round'[m] = round[m]
      /\ paced' = paced
  BY <1>1 DEF TypeOK, Node, Write, ReadOne, EndRound, Goto
<1> DEFINE Part(m) ==
      /\ paced \/ round'[m] <= 2 => max'[m] \in Near(m, round'[m] - 1)
      /\ pc'[m] = "read" /\ (paced \/ round'[m] = 1) => newMax'[m] \in Near(m, round'[m])
<1>3. ASSUME NEW m \in Nodes \ {n} PROVE Part(m)
  BY <1>1, <1>2, <1>3 DEF HeldInv
<1>4. round[n] \in Nat /\ round[n] >= 1 /\ Diameter \in Nat
      /\ round[n] <= Diameter + 1 /\ (round[n] = Diameter + 1 <=> pc[n] = "done")
  <2>1. round[n] \in 1..(Diameter + 1) /\ Diameter \in Nat
    BY <1>1, GraphAssumption DEF TypeOK
  <2>2. pc[n] = "done" <=> round[n] = Diameter + 1
    BY <1>1 DEF RoundInv
  <2> QED
    BY <2>1, <2>2
<1>5. /\ paced \/ round[n] <= 2 => max[n] \in Near(n, round[n] - 1)
      /\ pc[n] = "read" /\ (paced \/ round[n] = 1) => newMax[n] \in Near(n, round[n])
  BY <1>1 DEF HeldInv
<1>6. ASSUME Write(n) PROVE Part(n)
  <2>1. /\ pc[n] = "write" /\ max'[n] = max[n] /\ round'[n] = round[n]
        /\ \/ pc'[n] = "write"
           \/ pc'[n] = "read" /\ newMax'[n] = max[n]
    BY <1>1, <1>6 DEF TypeOK, Write, Goto
  <2>2. round[n] - 1 \in Nat /\ (round[n] - 1) + 1 = round[n] /\ round[n] <= Diameter
    BY <1>4, <2>1
  <2>3. Near(n, round[n] - 1) \subseteq Near(n, round[n])
    BY <2>2, NearGrows
  <2>4. round[n] = 1 => round[n] <= 2
    OBVIOUS
  <2> QED
    BY <1>5, <2>1, <2>3, <2>4
<1>7. ASSUME ReadOne(n) PROVE Part(n)
  <2>1. /\ pc[n] = "read" /\ max'[n] = max[n] /\ round'[n] = round[n]
        /\ newMax'[n] = Received(n) /\ chan[Input(n)] # <<>>
    BY <1>1, <1>7 DEF TypeOK, ReadOne
  <2>2. paced \/ round[n] = 1 => Received(n) \in Near(n, round[n])
    BY <2>1, ReceivedNear
  <2> QED
    BY <1>5, <2>1, <2>2
<1>8. ASSUME EndRound(n) PROVE Part(n)
  <2>1. /\ pc[n] = "read" /\ max'[n] = Received(n) /\ round'[n] = round[n] + 1
        /\ pc'[n] # "read" /\ chan[Input(n)] # <<>>
    BY <1>1, <1>8 DEF TypeOK, EndRound, Goto
  <2>2. paced \/ round[n] = 1 => Received(n) \in Near(n, round[n])
    BY <2>1, ReceivedNear
  <2>3. (round[n] + 1) - 1 = round[n] /\ (round[n] + 1 <= 2 => round[n] = 1)
    BY <1>4
  <2> QED
    BY <2>1, <2>2, <2>3
<1>9. \A m \in Nodes : Part(m)
  BY <1>3, <1>6, <1>7, <1>8 DEF Node
<1> QED
  BY <1>2, <1>9 DEF HeldInv, Near

LEMMA ExactInit == Init => ExactInv
<1> SUFFICES ASSUME Init PROVE ExactInv
  OBVIOUS
<1>1. /\ \A n \in Nodes : pc[n] = "write" /\ round[n] = 1 /\ k[n] = 1 /\ max[n] = Uid[n]
      /\ \A l \in Links : chan[l] = <<>>
  BY DEF Init
<1>2. PipeInv
  <2> SUFFICES ASSUME NEW n \in Nodes, NEW a \in DOMAIN Neighbours[n]
               PROVE  /\ chan[<<Neighbours[n][a], n>>] = <<>> /\ Reads(n, a) = 0
                      /\ \A b \in DOMAIN Neighbours[Neighbours[n][a]] :
                            Written(Neighbours[n][a], b) = 0
    BY DEF PipeInv
  <2>1. Neighbours[n][a] \in Nodes /\ <<Neighbours[n][a], n>> \in Links
    BY PositionFacts
  <2>2. ASSUME NEW m \in Nodes, NEW b \in DOMAIN Neighbours[m]
        PROVE  Reads(m, b) = 0 /\ Written(m, b) = 0
    <3>1. b \in Nat /\ ~(b < 1)
      BY PositionFacts
    <3> QED
      BY <1>1, <3>1 DEF Reads, Written
  <2> QED
    BY <1>1, <2>1, <2>2
<1>3. HeldInv
  <2>1. \A n \in Nodes : Uid[n] \in Near(n, 1 - 1)
    <3>1. 1 - 1 = 0 /\ 0 \in 0..Diameter
      BY GraphAssumption
    <3>2. \A n \in Nodes : Ball[0][n] = {n}
      BY <3>1, BallEquation
    <3> QED
      BY <3>1, <3>2 DEF Near
  <2> QED
    BY <1>1, <2>1 DEF HeldInv
<1> QED
  BY <1>2, <1>3, InvInit DEF ExactInv

LEMMA ExactStep == ExactInv /\ [Next]_vars => ExactInv'
<1> SUFFICES ASSUME ExactInv, [Next]_vars PROVE ExactInv'
  OBVIOUS
<1>1. Inv'
  BY InvStep DEF ExactInv
<1>2. ASSUME NEW n \in Nodes, Node(n) PROVE ExactInv'
  BY <1>1, <1>2, PipeAfterWrite, PipeAfterRead, HeldStep DEF Node, ExactInv
<1>3. CASE CleanUp \/ UNCHANGED vars
  <2>1. UNCHANGED <<paced, pc, round, k, max, newMax, chan>>
    BY <1>3 DEF CleanUp, vars
  <2>2. \A n : \A a : Reads(n, a)' = Reads(n, a) /\ Written(n, a)' = Written(n, a)
    BY <2>1 DEF Reads, Written
  <2>3. PipeInv'
    BY <2>1, <2>2 DEF ExactInv, PipeInv, Near
  <2>4. HeldInv'
    BY <2>1 DEF ExactInv, HeldInv, Near
  <2> QED
    BY <1>1, <2>3, <2>4 DEF ExactInv
<1> QED
  BY <1>2, <1>3 DEF Next

LEMMA ExactRounds == ExactInv => SynchronousRounds
<1> SUFFICES ASSUME ExactInv, NEW n \in Nodes
             PROVE  /\ \A m \in Ball[round[n] - 1][n] : Uid[m] <= max[n]
                    /\ paced \/ Diameter <= 2 =>
                         \E m \in Ball[round[n] - 1][n] : Uid[m] = max[n]
  BY DEF SynchronousRounds
<1> DEFINE r == round[n] - 1
<1>1. TypeOK /\ NodeInv /\ RealInv /\ HeldInv
  BY DEF ExactInv, Inv
<1>2. round[n] \in 1..(Diameter + 1) /\ Diameter \in Nat
  BY <1>1, GraphAssumption DEF TypeOK
<1>3. r \in 0..Diameter /\ r \in 0..r
  BY <1>2
<1>4. \A m \in Nodes : m \in Ball[r][n] => Uid[m] <= max[n]
  BY <1>1, <1>3 DEF NodeInv, Knows
<1>5. Ball[r][n] \subseteq Nodes
  BY <1>3, BallInside
<1>6. ASSUME paced \/ Diameter <= 2 PROVE \E m \in Ball[r][n] : Uid[m] = max[n]
  <2>1. CASE paced \/ round[n] <= 2
    BY <1>1, <2>1 DEF HeldInv, Near
  <2>2. CASE ~(paced \/ round[n] <= 2)
    <3>1. r = Diameter
      BY <1>2, <1>6, <2>2
    <3>2. \E m \in Nodes : Uid[m] = max[n]
      BY <1>1 DEF RealInv, Uids
    <3> QED
      BY <3>1, <3>2, DiameterAssumption
  <2> QED
    BY <2>1, <2>2
<1> QED
  BY <1>4, <1>5, <1>6

(* For any network and number of rounds, and whatever is lost, after r      *)
(* rounds of floodmax.c:45-67 a node holds no less than the synchronous     *)
(* algorithm would, and exactly that if writes keep clear of unread         *)
(* messages or there are two rounds as in the program.                     *)
THEOREM RoundsCorrect == Spec => []SynchronousRounds
BY ExactInit, ExactStep, ExactRounds, PTL DEF Spec
=============================================================================
