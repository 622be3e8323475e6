------------------------------ MODULE LCRProofs ------------------------------
(***************************************************************************)
(* The safety of the election of LCR, proved for every size of the ring    *)
(* and every distinct identifiers, with and without lost messages.         *)
(*                                                                         *)
(* The inductive invariant says what every message has been through since  *)
(* its owner sent it: an identifier only passed smaller ones, and an       *)
(* announcement only nodes that have stopped with it.                      *)
(***************************************************************************)
EXTENDS LCR, TLAPS, FiniteSetTheorems, FunctionTheorems

(* The nodes behind o up to n, in the direction of the ring.               *)
Seg(o, n) == IF o <= n THEN (o + 1)..n ELSE ((o + 1)..(N - 1)) \cup (0..n)

(* What m has been through when node n has written it.                     *)
Travelled(m, n) ==
    \E o \in Nodes :
        /\ Uid[o] = m.uid
        /\ (m.kind = "UID") => \A k \in Seg(o, n) : Uid[k] < m.uid
        /\ (m.kind = "LEADER") => IsMax(m.uid) /\ \A k \in Seg(o, n) : leader[k] = m.uid

ChanInv == \A n \in Nodes : \A i \in 1..Len(chan[n]) : Travelled(chan[n][i], n)
HeldInv == \A n \in Nodes : pc[n] = "handle" => Travelled(held[n], Pred(n))
StopInv == \A n \in Nodes : leader[n] # None => pc[n] = "done" /\ IsMax(leader[n])
LastInv == \A n \in Nodes : leader[n] = Uid[n] => \A k \in Nodes : leader[k] = Uid[n]

Inv == TypeOK /\ ChanInv /\ HeldInv /\ StopInv /\ LastInv

-----------------------------------------------------------------------------
(* The ring.                                                               *)

LEMMA PredType == \A n \in Nodes : Pred(n) \in Nodes
  BY RingAssumption DEF Pred, Nodes

LEMMA SegSelf == \A n \in Nodes : Seg(n, n) = {}
  BY RingAssumption DEF Seg, Nodes

LEMMA SegType == \A o, n \in Nodes : Seg(o, n) \subseteq Nodes
  BY RingAssumption DEF Seg, Nodes

(* A message that reaches n, not its owner, has passed one node more.      *)
LEMMA SegNext == \A o, n \in Nodes : o # n => Seg(o, n) = Seg(o, Pred(n)) \cup {n}
  BY RingAssumption DEF Seg, Nodes, Pred

(* A message that reaches its owner has passed all the others.             *)
LEMMA SegRound == \A n \in Nodes : Nodes = Seg(n, Pred(n)) \cup {n}
  BY RingAssumption DEF Seg, Nodes, Pred

LEMMA UidType == /\ \A n \in Nodes : Uid[n] \in Nat /\ Uid[n] \in Uids
                 /\ Uids \subseteq Nat
                 /\ None \notin Uids
  BY RingAssumption DEF Uids

LEMMA MessageType ==
  ASSUME NEW u \in Uids
  PROVE  UidMsg(u) \in Message /\ LeaderMsg(u) \in Message
  BY DEF UidMsg, LeaderMsg, Message

-----------------------------------------------------------------------------
(* Types.                                                                  *)

LEMMA InitType == Init => TypeOK
<1> SUFFICES ASSUME Init PROVE TypeOK
  OBVIOUS
<1>1. held \in [Nodes -> Message]
  BY UidType, MessageType DEF Init
<1>2. pc \in [Nodes -> {"start", "read", "handle", "done"}]
  BY DEF Init
<1>3. chan \in [Nodes -> Seq(Message)]
  BY DEF Init
<1>4. leader \in [Nodes -> Uids \cup {None}]
  BY DEF Init
<1> QED
  BY <1>1, <1>2, <1>3, <1>4 DEF Init, TypeOK

(* A write appends to the pipe of one node.                                *)
LEMMA WriteType ==
  ASSUME TypeOK, NEW n \in Nodes, NEW m \in Message, Write(n, m)
  PROVE  chan' \in [Nodes -> Seq(Message)]
<1>1. chan \in [Nodes -> Seq(Message)]
  BY DEF TypeOK
<1>2. chan' = [chan EXCEPT ![n] = Append(chan[n], m)]
  BY DEF Write
<1> QED
  BY <1>1, <1>2

LEMMA TypeStep == TypeOK /\ [Next]_vars => TypeOK'
<1> SUFFICES ASSUME TypeOK, [Next]_vars PROVE TypeOK'
  OBVIOUS
<1>pc. pc \in [Nodes -> {"start", "read", "handle", "done"}]
  BY DEF TypeOK
<1>held. held \in [Nodes -> Message]
  BY DEF TypeOK
<1>chan. chan \in [Nodes -> Seq(Message)]
  BY DEF TypeOK
<1>leader. leader \in [Nodes -> Uids \cup {None}]
  BY DEF TypeOK
<1>1. CASE UNCHANGED vars
  BY <1>1 DEF TypeOK, vars
<1>2. CASE CleanUp
  BY <1>2 DEF TypeOK, CleanUp
<1>3. ASSUME NEW n \in Nodes, Node(n) PROVE TypeOK'
  <2>uid. Uid[n] \in Uids
    BY UidType
  <2>1. CASE Start(n)
    <3>1. chan' \in [Nodes -> Seq(Message)]
      BY <2>1, <2>uid, MessageType, WriteType DEF Start
    <3>2. pc' \in [Nodes -> {"start", "read", "handle", "done"}]
      BY <2>1, <1>pc DEF Start, Goto
    <3> QED
      BY <2>1, <3>1, <3>2 DEF Start, TypeOK
  <2>2. CASE Read(n)
    <3>1. Pred(n) \in Nodes
      BY PredType
    <3>2. Head(chan[Pred(n)]) \in Message
      BY <2>2, <1>chan, <3>1 DEF Read
    <3>3. held' \in [Nodes -> Message]
      BY <2>2, <1>held, <3>2 DEF Read
    <3>4. chan' \in [Nodes -> Seq(Message)]
      BY <2>2, <1>chan, <3>1 DEF Read
    <3>5. pc' \in [Nodes -> {"start", "read", "handle", "done"}]
      BY <2>2, <1>pc DEF Read, Goto
    <3> QED
      BY <2>2, <3>3, <3>4, <3>5 DEF Read, TypeOK
  <2>3. CASE ForwardUid(n)
    <3>1. chan' \in [Nodes -> Seq(Message)]
      BY <2>3, <1>held, WriteType DEF ForwardUid
    <3>2. pc' \in [Nodes -> {"start", "read", "handle", "done"}]
      BY <2>3, <1>pc DEF ForwardUid, Goto
    <3> QED
      BY <2>3, <3>1, <3>2 DEF ForwardUid, TypeOK
  <2>4. CASE DiscardUid(n)
    <3>1. pc' \in [Nodes -> {"start", "read", "handle", "done"}]
      BY <2>4, <1>pc DEF DiscardUid, Goto
    <3> QED
      BY <2>4, <3>1 DEF DiscardUid, TypeOK
  <2>5. CASE BecomeLeader(n)
    <3>1. chan' \in [Nodes -> Seq(Message)]
      BY <2>5, <2>uid, MessageType, WriteType DEF BecomeLeader
    <3>2. pc' \in [Nodes -> {"start", "read", "handle", "done"}]
      BY <2>5, <1>pc DEF BecomeLeader, Goto
    <3> QED
      BY <2>5, <3>1, <3>2 DEF BecomeLeader, TypeOK
  <2>stop. ASSUME Stop(n)
           PROVE  /\ leader' \in [Nodes -> Uids \cup {None}]
                  /\ pc' \in [Nodes -> {"start", "read", "handle", "done"}]
    <3>1. held[n].uid \in Uids
      BY <1>held DEF Message
    <3>2. leader' \in [Nodes -> Uids \cup {None}]
      BY <2>stop, <1>leader, <3>1 DEF Stop
    <3>3. pc' \in [Nodes -> {"start", "read", "handle", "done"}]
      BY <2>stop, <1>pc DEF Stop, Goto
    <3> QED
      BY <3>2, <3>3
  <2>6. CASE ForwardLeader(n)
    <3>1. chan' \in [Nodes -> Seq(Message)]
      BY <2>6, <1>held, WriteType DEF ForwardLeader
    <3> QED
      BY <2>6, <2>stop, <3>1 DEF ForwardLeader, Stop, TypeOK
  <2>7. CASE LeaderReturns(n)
    BY <2>7, <2>stop DEF LeaderReturns, Stop, TypeOK
  <2> QED
    BY <1>3, <2>1, <2>2, <2>3, <2>4, <2>5, <2>6, <2>7 DEF Node
<1> QED
  BY <1>1, <1>2, <1>3 DEF Next

(* Every reachable state has the declared types: only identifiers of       *)
(* node_uids travel, whole, in the pipes of lcr.c:24-39.                   *)
THEOREM TypeCorrect == Spec => []TypeOK
  BY InitType, TypeStep, PTL DEF Spec

-----------------------------------------------------------------------------
(* How steps disturb what messages have been through.                      *)

(* Nodes that stop do not undo what a message has been through.            *)
LEMMA TravelsOn ==
  ASSUME NEW m \in Message, NEW n \in Nodes, Travelled(m, n),
         \A k \in Nodes : leader[k] # None => leader'[k] = leader[k]
  PROVE  Travelled(m, n)'
<1>1. PICK o \in Nodes :
        /\ Uid[o] = m.uid
        /\ (m.kind = "UID") => \A k \in Seg(o, n) : Uid[k] < m.uid
        /\ (m.kind = "LEADER") => IsMax(m.uid) /\ \A k \in Seg(o, n) : leader[k] = m.uid
  BY DEF Travelled
<1>2. m.uid # None
  BY <1>1, UidType
<1>3. (m.kind = "LEADER") => \A k \in Seg(o, n) : leader'[k] = m.uid
  BY <1>1, <1>2, SegType
<1> QED
  BY <1>1, <1>3 DEF Travelled

(* A write keeps the invariant of the pipes when the new message keeps it. *)
LEMMA WriteKeeps ==
  ASSUME TypeOK, ChanInv, NEW n \in Nodes, NEW m \in Message, Write(n, m),
         \A k \in Nodes : leader[k] # None => leader'[k] = leader[k],
         Travelled(m, n)'
  PROVE  ChanInv'
<1>1. chan \in [Nodes -> Seq(Message)]
  BY DEF TypeOK
<1>2. chan' = [chan EXCEPT ![n] = Append(chan[n], m)]
  BY DEF Write
<1> SUFFICES ASSUME NEW j \in Nodes, NEW i \in 1..Len(chan'[j]) PROVE Travelled(chan[j][i], j)'
  BY DEF ChanInv
<1>3. CASE j = n /\ i = Len(chan[n]) + 1
  <2>1. chan'[j][i] = m
    BY <1>1, <1>2, <1>3
  <2> QED
    BY <2>1, <1>3 DEF Travelled
<1>4. CASE ~(j = n /\ i = Len(chan[n]) + 1)
  <2>1. /\ i \in 1..Len(chan[j])
        /\ chan'[j][i] = chan[j][i]
    BY <1>1, <1>2, <1>4
  <2>2. chan[j][i] \in Message /\ Travelled(chan[j][i], j)
    BY <2>1, <1>1 DEF ChanInv
  <2>3. \A x \in Message : Travelled(x, j) => Travelled(x, j)'
    BY TravelsOn
  <2> QED
    BY <2>1, <2>2, <2>3 DEF Travelled
<1> QED
  BY <1>3, <1>4

(* Nothing that the invariant of the pipes speaks of has changed.          *)
LEMMA ChanFrame ==
  ASSUME ChanInv, UNCHANGED <<chan, leader>>
  PROVE  ChanInv'
  BY DEF ChanInv, Travelled

(* The other nodes still hold what they held.                              *)
LEMMA HeldFrame ==
  ASSUME TypeOK, HeldInv, NEW n \in Nodes, NEW step, Goto(n, step), step # "handle",
         UNCHANGED held,
         \A k \in Nodes : leader[k] # None => leader'[k] = leader[k]
  PROVE  HeldInv'
<1> SUFFICES ASSUME NEW j \in Nodes, pc'[j] = "handle" PROVE Travelled(held[j], Pred(j))'
  BY DEF HeldInv
<1>1. pc[j] = "handle"
  BY DEF Goto, TypeOK
<1>2. held[j] \in Message /\ Pred(j) \in Nodes /\ Travelled(held[j], Pred(j))
  BY <1>1, PredType DEF HeldInv, TypeOK
<1>3. \A x \in Message, k \in Nodes : Travelled(x, k) => Travelled(x, k)'
  BY TravelsOn
<1> QED
  BY <1>2, <1>3 DEF Travelled

(* A node that has not stopped can move without disturbing those who have. *)
LEMMA StopFrame ==
  ASSUME TypeOK, StopInv, LastInv, NEW n \in Nodes, NEW step, Goto(n, step),
         pc[n] # "done", UNCHANGED leader
  PROVE  StopInv' /\ LastInv'
<1>1. \A k \in Nodes : leader[k] # None => k # n
  BY DEF StopInv
<1>2. \A k \in Nodes : k # n => pc'[k] = pc[k]
  BY DEF Goto, TypeOK
<1> QED
  BY <1>1, <1>2 DEF StopInv, LastInv

(* The maximum is one node's.                                              *)
LEMMA MaxUnique ==
  ASSUME NEW u \in Uids, NEW v \in Uids, IsMax(u), IsMax(v)
  PROVE  u = v
<1>1. PICK i \in Nodes : Uid[i] = u
  BY DEF Uids
<1>2. PICK j \in Nodes : Uid[j] = v
  BY DEF Uids
<1>3. u \in Nat /\ v \in Nat
  BY UidType
<1> QED
  BY <1>1, <1>2, <1>3 DEF IsMax

-----------------------------------------------------------------------------
(* The invariant.                                                          *)

LEMMA InitInv == Init => Inv
<1> SUFFICES ASSUME Init PROVE Inv
  OBVIOUS
<1>1. TypeOK
  BY InitType
<1>2. ChanInv
  BY DEF Init, ChanInv
<1>3. HeldInv
  BY DEF Init, HeldInv
<1>4. StopInv
  BY DEF Init, StopInv
<1>5. LastInv
  BY UidType DEF Init, LastInv
<1> QED
  BY <1>1, <1>2, <1>3, <1>4, <1>5 DEF Inv

LEMMA StepInv == Inv /\ [Next]_vars => Inv'
<1> SUFFICES ASSUME Inv, [Next]_vars PROVE Inv'
  OBVIOUS
<1>types. TypeOK
  BY DEF Inv
<1>old. ChanInv /\ HeldInv /\ StopInv /\ LastInv
  BY DEF Inv
<1>new. TypeOK'
  BY <1>types, TypeStep
<1>1. CASE UNCHANGED vars
  <2>1. UNCHANGED <<pc, held, chan, leader>>
    BY <1>1 DEF vars
  <2>2. ChanInv' /\ HeldInv'
    BY <2>1, <1>old, ChanFrame DEF HeldInv, Travelled
  <2>3. StopInv' /\ LastInv'
    BY <2>1, <1>old DEF StopInv, LastInv
  <2> QED
    BY <2>2, <2>3, <1>new DEF Inv
<1>2. CASE CleanUp
  <2>1. UNCHANGED <<pc, held, chan, leader>>
    BY <1>2 DEF CleanUp
  <2>2. ChanInv' /\ HeldInv'
    BY <2>1, <1>old, ChanFrame DEF HeldInv, Travelled
  <2>3. StopInv' /\ LastInv'
    BY <2>1, <1>old DEF StopInv, LastInv
  <2> QED
    BY <2>2, <2>3, <1>new DEF Inv
<1>3. ASSUME NEW n \in Nodes, Node(n) PROVE Inv'
  <2>uid. Uid[n] \in Uids /\ Uid[n] \in Nat
    BY UidType
  <2>held. held[n] \in Message
    BY <1>types DEF TypeOK
  <2>nat. held[n].uid \in Uids /\ held[n].uid \in Nat
    BY <2>held, UidType DEF Message
  <2>pred. Pred(n) \in Nodes
    BY PredType
  (* What the message in hand has been through.                            *)
  <2>hand. ASSUME pc[n] = "handle"
           PROVE  \E o \in Nodes :
                    /\ Uid[o] = held[n].uid
                    /\ (held[n].kind = "UID") => \A k \in Seg(o, Pred(n)) : Uid[k] < held[n].uid
                    /\ (held[n].kind = "LEADER") => /\ IsMax(held[n].uid)
                                                    /\ \A k \in Seg(o, Pred(n)) : leader[k] = held[n].uid
    BY <2>hand, <1>old DEF HeldInv, Travelled
  <2>1. CASE Start(n)
    <3>1. Write(n, UidMsg(Uid[n])) /\ Goto(n, "read") /\ pc[n] # "done" /\ UNCHANGED <<held, leader>>
      BY <2>1 DEF Start
    <3>2. UidMsg(Uid[n]).uid = Uid[n] /\ UidMsg(Uid[n]).kind = "UID"
      BY DEF UidMsg
    <3>3. Travelled(UidMsg(Uid[n]), n)'
      BY <3>2, SegSelf DEF Travelled
    <3>4. ChanInv'
      BY <3>1, <3>3, <1>types, <1>old, <2>uid, MessageType, WriteKeeps
    <3>5. HeldInv'
      BY <3>1, <1>types, <1>old, HeldFrame
    <3>6. StopInv' /\ LastInv'
      BY <3>1, <1>types, <1>old, StopFrame
    <3> QED
      BY <3>4, <3>5, <3>6, <1>new DEF Inv
  <2>2. CASE Read(n)
    <3>1. /\ Goto(n, "handle") /\ pc[n] # "done" /\ UNCHANGED leader
          /\ chan[Pred(n)] # <<>>
          /\ held' = [held EXCEPT ![n] = Head(chan[Pred(n)])]
          /\ chan' = [chan EXCEPT ![Pred(n)] = <<>>]
      BY <2>2 DEF Read
    <3>2. Travelled(Head(chan[Pred(n)]), Pred(n))
      <4>1. chan[Pred(n)] \in Seq(Message)
        BY <2>pred, <1>types DEF TypeOK
      <4>2. 1 \in 1..Len(chan[Pred(n)]) /\ Head(chan[Pred(n)]) = chan[Pred(n)][1]
        BY <4>1, <3>1
      <4> QED
        BY <4>2, <2>pred, <1>old DEF ChanInv
    <3>3. ChanInv'
      <4> SUFFICES ASSUME NEW j \in Nodes, NEW i \in 1..Len(chan'[j]) PROVE Travelled(chan[j][i], j)'
        BY DEF ChanInv
      <4>1. chan'[j] = chan[j]
        BY <3>1, <1>types DEF TypeOK
      <4> QED
        BY <4>1, <3>1, <1>old DEF ChanInv, Travelled
    <3>4. HeldInv'
      <4> SUFFICES ASSUME NEW j \in Nodes, pc'[j] = "handle" PROVE Travelled(held[j], Pred(j))'
        BY DEF HeldInv
      <4>1. CASE j = n
        <5>1. held'[j] = Head(chan[Pred(n)])
          BY <4>1, <3>1, <1>types DEF TypeOK
        <5> QED
          BY <5>1, <4>1, <3>1, <3>2 DEF Travelled
      <4>2. CASE j # n
        <5>1. held'[j] = held[j] /\ pc[j] = "handle"
          BY <4>2, <3>1, <1>types DEF TypeOK, Goto
        <5> QED
          BY <5>1, <3>1, <1>old DEF HeldInv, Travelled
      <4> QED
        BY <4>1, <4>2
    <3>5. StopInv' /\ LastInv'
      BY <3>1, <1>types, <1>old, StopFrame
    <3> QED
      BY <3>3, <3>4, <3>5, <1>new DEF Inv
  <2>3. CASE ForwardUid(n)
    <3>1. /\ pc[n] = "handle" /\ held[n].kind = "UID" /\ held[n].uid > Uid[n]
          /\ Write(n, held[n]) /\ Goto(n, "read") /\ UNCHANGED <<held, leader>>
      BY <2>3 DEF ForwardUid, Handles
    <3>2. Travelled(held[n], n)
      <4>1. PICK o \in Nodes : /\ Uid[o] = held[n].uid
                              /\ \A k \in Seg(o, Pred(n)) : Uid[k] < held[n].uid
        BY <2>hand, <3>1
      <4>2. o # n
        BY <4>1, <3>1, <2>uid
      <4>3. \A k \in Seg(o, n) : Uid[k] < held[n].uid
        BY <4>1, <4>2, <3>1, <2>uid, <2>nat, SegNext
      <4> QED
        BY <4>1, <4>3, <3>1 DEF Travelled
    <3>3. Travelled(held[n], n)'
      BY <3>1, <3>2 DEF Travelled
    <3>4. ChanInv'
      BY <3>1, <3>3, <1>types, <1>old, <2>held, WriteKeeps
    <3>5. HeldInv'
      BY <3>1, <1>types, <1>old, HeldFrame
    <3>6. StopInv' /\ LastInv'
      BY <3>1, <1>types, <1>old, StopFrame
    <3> QED
      BY <3>4, <3>5, <3>6, <1>new DEF Inv
  <2>4. CASE DiscardUid(n)
    <3>1. pc[n] = "handle" /\ Goto(n, "read") /\ UNCHANGED <<held, chan, leader>>
      BY <2>4 DEF DiscardUid, Handles
    <3>2. ChanInv'
      BY <3>1, <1>old, ChanFrame
    <3>3. HeldInv'
      BY <3>1, <1>types, <1>old, HeldFrame
    <3>4. StopInv' /\ LastInv'
      BY <3>1, <1>types, <1>old, StopFrame
    <3> QED
      BY <3>2, <3>3, <3>4, <1>new DEF Inv
  <2>5. CASE BecomeLeader(n)
    <3>1. /\ pc[n] = "handle" /\ held[n].kind = "UID" /\ held[n].uid = Uid[n]
          /\ Write(n, LeaderMsg(Uid[n])) /\ Goto(n, "read") /\ UNCHANGED <<held, leader>>
      BY <2>5 DEF BecomeLeader, Handles
    <3>2. IsMax(Uid[n])
      <4>1. PICK o \in Nodes : /\ Uid[o] = held[n].uid
                              /\ \A k \in Seg(o, Pred(n)) : Uid[k] < held[n].uid
        BY <2>hand, <3>1
      <4>2. o = n
        BY <4>1, <3>1, RingAssumption
      <4>3. \A k \in Nodes : k = n \/ Uid[k] < Uid[n]
        BY <4>1, <4>2, <3>1, SegRound
      <4> QED
        BY <4>3, <2>uid, UidType DEF IsMax
    <3>3. LeaderMsg(Uid[n]).uid = Uid[n] /\ LeaderMsg(Uid[n]).kind = "LEADER"
      BY DEF LeaderMsg
    <3>4. Travelled(LeaderMsg(Uid[n]), n)'
      BY <3>2, <3>3, SegSelf DEF Travelled
    <3>5. ChanInv'
      BY <3>1, <3>4, <1>types, <1>old, <2>uid, MessageType, WriteKeeps
    <3>6. HeldInv'
      BY <3>1, <1>types, <1>old, HeldFrame
    <3>7. StopInv' /\ LastInv'
      BY <3>1, <1>types, <1>old, StopFrame
    <3> QED
      BY <3>5, <3>6, <3>7, <1>new DEF Inv
  (* A node that stops with the announcement in hand.                      *)
  <2>stop. ASSUME pc[n] = "handle", held[n].kind = "LEADER", Stop(n)
           PROVE  /\ leader'[n] = held[n].uid /\ leader[n] = None /\ pc'[n] = "done"
                  /\ \A k \in Nodes : k # n => leader'[k] = leader[k] /\ pc'[k] = pc[k]
                  /\ \A k \in Nodes : leader[k] # None => leader'[k] = leader[k]
                  /\ IsMax(held[n].uid)
                  /\ HeldInv'
                  /\ StopInv'
    <3>1. leader[n] = None
      BY <2>stop, <1>old DEF StopInv
    <3>2. leader'[n] = held[n].uid /\ \A k \in Nodes : k # n => leader'[k] = leader[k]
      BY <2>stop, <1>types DEF Stop, TypeOK
    <3>3. pc'[n] = "done" /\ \A k \in Nodes : k # n => pc'[k] = pc[k]
      BY <2>stop, <1>types DEF Stop, Goto, TypeOK
    <3>4. \A k \in Nodes : leader[k] # None => leader'[k] = leader[k]
      BY <3>1, <3>2
    <3>5. IsMax(held[n].uid)
      BY <2>hand, <2>stop
    <3>6. HeldInv'
      <4>1. Goto(n, "done") /\ UNCHANGED held
        BY <2>stop DEF Stop
      <4> QED
        BY <4>1, <3>4, <1>types, <1>old, HeldFrame
    <3>7. StopInv'
      <4> SUFFICES ASSUME NEW k \in Nodes, leader'[k] # None
                   PROVE  pc'[k] = "done" /\ IsMax(leader'[k])
        BY DEF StopInv, IsMax
      <4> QED
        BY <3>2, <3>3, <3>5, <1>old DEF StopInv
    <3> QED
      BY <3>1, <3>2, <3>3, <3>4, <3>5, <3>6, <3>7
  <2>6. CASE ForwardLeader(n)
    <3>1. pc[n] = "handle" /\ held[n].kind = "LEADER" /\ held[n].uid # Uid[n] /\ Write(n, held[n]) /\ Stop(n)
      BY <2>6 DEF ForwardLeader, Handles
    <3>2. Travelled(held[n], n)'
      <4>1. PICK o \in Nodes : /\ Uid[o] = held[n].uid
                              /\ IsMax(held[n].uid)
                              /\ \A k \in Seg(o, Pred(n)) : leader[k] = held[n].uid
        BY <2>hand, <3>1
      <4>2. o # n
        BY <4>1, <3>1
      <4>3. held[n].uid # None
        BY <2>nat, UidType
      <4>4. \A k \in Seg(o, Pred(n)) : leader'[k] = held[n].uid
        BY <4>1, <4>3, <2>stop, <3>1, <2>pred, SegType
      <4>5. \A k \in Seg(o, n) : leader'[k] = held[n].uid
        BY <4>2, <4>4, <2>stop, <3>1, SegNext
      <4>6. held'[n] = held[n]
        BY <3>1 DEF Stop
      <4> QED
        BY <4>1, <4>5, <4>6, <3>1 DEF Travelled, IsMax
    <3>3. Travelled(held[n], n)' => ChanInv'
      <4>1. \A k \in Nodes : leader[k] # None => leader'[k] = leader[k]
        BY <3>1, <2>stop
      <4>2. held' = held
        BY <3>1 DEF Stop
      <4> QED
        BY <4>1, <4>2, <3>1, <1>types, <1>old, <2>held, WriteKeeps DEF Travelled
    <3>4. LastInv'
      <4> SUFFICES ASSUME NEW j \in Nodes, leader'[j] = Uid[j]
                   PROVE  \A k \in Nodes : leader'[k] = Uid[j]
        BY DEF LastInv
      <4>1. j # n
        BY <2>stop, <3>1
      <4>2. leader[j] = Uid[j]
        BY <4>1, <2>stop, <3>1
      <4>3. leader[n] = Uid[j]
        BY <4>2, <1>old DEF LastInv
      <4> QED
        BY <4>3, <2>stop, <3>1, UidType
    <3> QED
      BY <3>1, <3>2, <3>3, <3>4, <2>stop, <1>new DEF Inv
  <2>7. CASE LeaderReturns(n)
    <3>1. /\ pc[n] = "handle" /\ held[n].kind = "LEADER" /\ held[n].uid = Uid[n] /\ Stop(n)
          /\ UNCHANGED chan
      BY <2>7 DEF LeaderReturns, Handles
    <3>2. \A k \in Nodes : leader'[k] = Uid[n]
      <4>1. PICK o \in Nodes : /\ Uid[o] = held[n].uid
                              /\ \A k \in Seg(o, Pred(n)) : leader[k] = held[n].uid
        BY <2>hand, <3>1
      <4>2. o = n
        BY <4>1, <3>1, RingAssumption
      <4>3. \A k \in Nodes : k = n \/ leader[k] = Uid[n]
        BY <4>1, <4>2, <3>1, SegRound
      <4> QED
        BY <4>3, <3>1, <2>stop
    <3>3. LastInv'
      BY <3>2, RingAssumption DEF LastInv
    <3>4. ChanInv'
      <4> SUFFICES ASSUME NEW j \in Nodes, NEW i \in 1..Len(chan'[j]) PROVE Travelled(chan[j][i], j)'
        BY DEF ChanInv
      <4>1. \A k \in Nodes : leader[k] # None => leader'[k] = leader[k]
        BY <3>1, <2>stop
      <4>2. chan' = chan
        BY <3>1
      <4>3. chan[j] \in Seq(Message) /\ i \in 1..Len(chan[j])
        BY <4>2, <1>types DEF TypeOK
      <4>4. chan[j][i] \in Message /\ Travelled(chan[j][i], j)
        BY <4>3, <1>old DEF ChanInv
      <4>5. \A x \in Message : Travelled(x, j) => Travelled(x, j)'
        BY <4>1, TravelsOn
      <4> QED
        BY <4>2, <4>4, <4>5 DEF Travelled
    <3> QED
      BY <3>1, <3>3, <3>4, <2>stop, <1>new DEF Inv
  <2> QED
    BY <1>3, <2>1, <2>2, <2>3, <2>4, <2>5, <2>6, <2>7 DEF Node
<1> QED
  BY <1>1, <1>2, <1>3 DEF Next

(* Only the maximum is ever announced or believed to be the leader         *)
(* (lcr.c:69-73), on every ring and whatever messages are lost.            *)
THEOREM LeaderCorrect == Spec => []LeaderIsMax
<1>1. Inv => LeaderIsMax
  BY DEF Inv, ChanInv, StopInv, Travelled, LeaderIsMax
<1> QED
  BY InitInv, StepInv, <1>1, PTL DEF Spec

(* The leader stops last (lcr.c:50-52), on every ring and whatever         *)
(* messages are lost.                                                      *)
THEOREM StopsLastCorrect == Spec => []LeaderStopsLast
<1>1. Inv => LeaderStopsLast
  BY DEF Inv, LastInv, LeaderStopsLast
<1> QED
  BY InitInv, StepInv, <1>1, PTL DEF Spec

-----------------------------------------------------------------------------
(* How much can be queued.                                                 *)

(* No two messages that are queued or in hand carry the same identifier,   *)
(* and none carries that of a node that has not started.                   *)
ChanSingle ==
    \A n, k \in Nodes : \A i \in 1..Len(chan[n]), j \in 1..Len(chan[k]) :
        chan[n][i].uid = chan[k][j].uid => n = k /\ i = j
HeldSingle ==
    \A n, k \in Nodes : pc[n] = "handle" /\ pc[k] = "handle" /\ held[n].uid = held[k].uid
                         => n = k
ChanOrHeld ==
    \A n, k \in Nodes : pc[k] = "handle" => \A i \in 1..Len(chan[n]) : chan[n][i].uid # held[k].uid
NotStarted ==
    \A o, n \in Nodes : pc[o] = "start" =>
        /\ pc[n] = "handle" => held[n].uid # Uid[o]
        /\ \A i \in 1..Len(chan[n]) : chan[n][i].uid # Uid[o]

Single == ChanSingle /\ HeldSingle /\ ChanOrHeld /\ NotStarted

(* Node n writes the message it has in hand, or its own when it starts.    *)
LEMMA WriteSingle ==
  ASSUME TypeOK, Single, NEW n \in Nodes, NEW m \in Message, Write(n, m),
         \/ pc[n] = "start" /\ m.uid = Uid[n]
         \/ pc[n] = "handle" /\ m.uid = held[n].uid,
         NEW step, step \notin {"start", "handle"}, Goto(n, step), UNCHANGED held
  PROVE  Single'
<1>1. chan \in [Nodes -> Seq(Message)] /\ pc \in [Nodes -> {"start", "read", "handle", "done"}]
  BY DEF TypeOK
<1>2. chan' = [chan EXCEPT ![n] = Append(chan[n], m)]
  BY DEF Write
<1>3. \A k \in Nodes : \A i \in 1..Len(chan'[k]) :
        \/ k = n /\ i = Len(chan[n]) + 1 /\ chan'[k][i] = m
        \/ i \in 1..Len(chan[k]) /\ chan'[k][i] = chan[k][i]
  <2> SUFFICES ASSUME NEW k \in Nodes, NEW i \in 1..Len(chan'[k])
               PROVE  \/ k = n /\ i = Len(chan[n]) + 1 /\ chan'[k][i] = m
                      \/ i \in 1..Len(chan[k]) /\ chan'[k][i] = chan[k][i]
    OBVIOUS
  <2>1. chan[k] \in Seq(Message)
    BY <1>1
  <2>2. CASE k = n
    <3>1. chan'[k] = Append(chan[k], m)
      BY <1>1, <1>2, <2>2
    <3> QED
      BY <2>1, <2>2, <3>1
  <2>3. CASE k # n
    BY <1>1, <1>2, <2>3
  <2> QED
    BY <2>2, <2>3
<1>4. \A k \in Nodes : \A i \in 1..Len(chan[k]) : chan[k][i].uid # m.uid
  BY DEF Single, ChanOrHeld, NotStarted
<1>5. \A k \in Nodes : /\ pc'[k] = "handle" => k # n /\ pc[k] = "handle"
                       /\ pc'[k] = "start" => k # n /\ pc[k] = "start"
  BY <1>1 DEF Goto
<1>6. \A k \in Nodes : /\ pc'[k] = "handle" => held[k].uid # m.uid
                       /\ pc'[k] = "start" => Uid[k] # m.uid
  BY <1>5, RingAssumption DEF Single, HeldSingle, NotStarted
<1>7. ChanSingle'
  <2> SUFFICES ASSUME NEW l \in Nodes, NEW k \in Nodes, NEW i \in 1..Len(chan'[l]),
                      NEW j \in 1..Len(chan'[k]), chan'[l][i].uid = chan'[k][j].uid
               PROVE  l = k /\ i = j
    BY DEF ChanSingle
  <2>1. \/ l = n /\ i = Len(chan[n]) + 1 /\ chan'[l][i] = m
        \/ i \in 1..Len(chan[l]) /\ chan'[l][i] = chan[l][i]
    BY <1>3
  <2>2. \/ k = n /\ j = Len(chan[n]) + 1 /\ chan'[k][j] = m
        \/ j \in 1..Len(chan[k]) /\ chan'[k][j] = chan[k][j]
    BY <1>3
  <2>3. CASE i \in 1..Len(chan[l]) /\ j \in 1..Len(chan[k]) /\ chan[l][i].uid = chan[k][j].uid
    BY <2>3 DEF Single, ChanSingle
  <2>4. CASE l = n /\ i = Len(chan[n]) + 1 /\ k = n /\ j = Len(chan[n]) + 1
    BY <2>4
  <2> QED
    BY <1>4, <2>1, <2>2, <2>3, <2>4
<1>8. HeldSingle'
  BY <1>5 DEF Single, HeldSingle
<1>9. ChanOrHeld'
  BY <1>3, <1>5, <1>6 DEF Single, ChanOrHeld
<1>10. NotStarted'
  BY <1>3, <1>5, <1>6 DEF Single, NotStarted
<1> QED
  BY <1>7, <1>8, <1>9, <1>10 DEF Single

(* Node n is done with the message in hand.                                *)
LEMMA DropSingle ==
  ASSUME TypeOK, Single, NEW n \in Nodes, NEW step, step \notin {"start", "handle"},
         Goto(n, step), UNCHANGED <<held, chan>>
  PROVE  Single'
<1>1. \A k \in Nodes : pc'[k] \in {"start", "handle"} => pc'[k] = pc[k]
  BY DEF TypeOK, Goto
<1> QED
  BY <1>1 DEF Single, ChanSingle, HeldSingle, ChanOrHeld, NotStarted

(* A message goes from the pipe to the hand; those behind it are lost.     *)
LEMMA ReadSingle ==
  ASSUME TypeOK, Single, NEW n \in Nodes, Read(n)
  PROVE  Single'
<1> DEFINE p == Pred(n)
           h == Head(chan[p])
<1>1. /\ chan \in [Nodes -> Seq(Message)] /\ held \in [Nodes -> Message]
      /\ pc \in [Nodes -> {"start", "read", "handle", "done"}]
      /\ p \in Nodes
  BY PredType DEF TypeOK
<1>2. /\ pc[n] = "read" /\ chan[p] # <<>>
      /\ held' = [held EXCEPT ![n] = h]
      /\ chan' = [chan EXCEPT ![p] = <<>>]
      /\ pc' = [pc EXCEPT ![n] = "handle"]
  BY DEF Read, Goto
<1>3. 1 \in 1..Len(chan[p]) /\ h = chan[p][1]
  <2>1. chan[p] \in Seq(Message)
    BY <1>1
  <2> QED
    BY <2>1, <1>2
<1> HIDE DEF p, h
<1>4. \A k \in Nodes : \A i \in 1..Len(chan'[k]) :
        k # p /\ i \in 1..Len(chan[k]) /\ chan'[k][i] = chan[k][i]
  BY <1>1, <1>2
<1>5. \A k \in Nodes : pc'[k] = "handle" =>
        \/ k = n /\ held'[k] = h
        \/ pc[k] = "handle" /\ held'[k] = held[k]
  BY <1>1, <1>2
<1>6. \A k \in Nodes : pc'[k] = "start" => pc[k] = "start"
  BY <1>1, <1>2
<1>7. ChanSingle'
  BY <1>4 DEF Single, ChanSingle
<1>8. HeldSingle'
  BY <1>1, <1>3, <1>5 DEF Single, HeldSingle, ChanOrHeld
<1>9. ChanOrHeld'
  <2> SUFFICES ASSUME NEW l \in Nodes, NEW k \in Nodes, pc'[k] = "handle",
                      NEW i \in 1..Len(chan'[l])
               PROVE  chan'[l][i].uid # held'[k].uid
    BY DEF ChanOrHeld
  <2>1. l # p /\ i \in 1..Len(chan[l]) /\ chan'[l][i] = chan[l][i]
    BY <1>4
  <2>2. chan[l][i].uid # h.uid
    BY <1>1, <1>3, <2>1 DEF Single, ChanSingle
  <2> QED
    BY <1>5, <2>1, <2>2 DEF Single, ChanOrHeld
<1>10. NotStarted'
  <2> SUFFICES ASSUME NEW o \in Nodes, NEW k \in Nodes, pc'[o] = "start"
               PROVE  /\ pc'[k] = "handle" => held'[k].uid # Uid[o]
                      /\ \A i \in 1..Len(chan'[k]) : chan'[k][i].uid # Uid[o]
    BY DEF NotStarted
  <2>1. pc[o] = "start" /\ h.uid # Uid[o]
    BY <1>1, <1>3, <1>6 DEF Single, NotStarted
  <2> QED
    BY <1>4, <1>5, <2>1 DEF Single, NotStarted
<1> QED
  BY <1>7, <1>8, <1>9, <1>10 DEF Single

LEMMA InitSingle == Init => Single
<1> SUFFICES ASSUME Init PROVE Single
  OBVIOUS
<1>1. \A n \in Nodes : pc[n] = "start" /\ chan[n] = <<>>
  BY DEF Init
<1> QED
  BY <1>1 DEF Single, ChanSingle, HeldSingle, ChanOrHeld, NotStarted

LEMMA StepSingle == TypeOK /\ Single /\ [Next]_vars => Single'
<1> SUFFICES ASSUME TypeOK, Single, [Next]_vars PROVE Single'
  OBVIOUS
<1>1. CASE UNCHANGED vars \/ CleanUp
  <2>1. UNCHANGED <<pc, held, chan>>
    BY <1>1 DEF vars, CleanUp
  <2> QED
    BY <2>1 DEF Single, ChanSingle, HeldSingle, ChanOrHeld, NotStarted
<1>2. ASSUME NEW n \in Nodes, Node(n) PROVE Single'
  <2>1. held[n] \in Message /\ Uid[n] \in Uids
    BY UidType DEF TypeOK
  <2>2. CASE Start(n)
    BY <2>1, <2>2, MessageType, WriteSingle DEF Start, UidMsg
  <2>3. CASE Read(n)
    BY <2>3, ReadSingle
  <2>4. CASE ForwardUid(n)
    BY <2>1, <2>4, WriteSingle DEF ForwardUid, Handles
  <2>5. CASE DiscardUid(n)
    BY <2>5, DropSingle DEF DiscardUid
  <2>6. CASE BecomeLeader(n)
    BY <2>1, <2>6, MessageType, WriteSingle DEF BecomeLeader, Handles, LeaderMsg
  <2>7. CASE ForwardLeader(n)
    BY <2>1, <2>7, WriteSingle DEF ForwardLeader, Handles, Stop
  <2>8. CASE LeaderReturns(n)
    BY <2>8, DropSingle DEF LeaderReturns, Stop
  <2> QED
    BY <1>2, <2>2, <2>3, <2>4, <2>5, <2>6, <2>7, <2>8 DEF Node
<1> QED
  BY <1>1, <1>2 DEF Next

(* A pipe holds at most one message for each identifier, and at most one   *)
(* announcement, for only the maximum is ever announced.                   *)
LEMMA QueuedBound ==
  ASSUME TypeOK, ChanSingle, LeaderIsMax, NEW n \in Nodes
  PROVE  Bytes(n) <= 7 * N + 3
<1> DEFINE D == 1..Len(chan[n])
           A == Queued(n, "LEADER")
           B == Queued(n, "UID")
<1>1. chan[n] \in Seq(Message) /\ DOMAIN chan[n] = D /\ Len(chan[n]) \in Nat
  BY DEF TypeOK
<1>2. \A i \in D : chan[n][i] \in Message
  BY <1>1
<1>3. IsFiniteSet(Nodes) /\ Cardinality(Nodes) = N
  BY RingAssumption, FS_Interval DEF Nodes
<1>4. IsFiniteSet(Uids) /\ Cardinality(Uids) <= N
  <2> DEFINE f == [k \in Nodes |-> Uid[k]]
  <2>1. f \in Surjection(Nodes, Uids)
    BY DEF Surjection, Uids
  <2> QED
    BY <2>1, <1>3, FS_Surjection
<1>5. IsFiniteSet(D) /\ Cardinality(D) <= Cardinality(Uids)
  <2> DEFINE f == [i \in D |-> chan[n][i].uid]
  <2>1. f \in [D -> Uids]
    BY <1>2 DEF Message
  <2>2. \A i, j \in D : f[i] = f[j] => i = j
    BY DEF ChanSingle
  <2> HIDE DEF f, D
  <2>3. f \in Injection(D, Uids)
    BY <2>1, <2>2 DEF Injection, IsInjective
  <2> QED
    BY <2>3, <1>4, FS_Injection
<1>6. A \cup B = D /\ A \cap B = {} /\ A \subseteq D /\ B \subseteq D
  BY <1>1, <1>2 DEF Queued, Message
<1>7. IsFiniteSet(A) /\ IsFiniteSet(B) /\ Cardinality(A) \in Nat /\ Cardinality(B) \in Nat
  BY <1>5, <1>6, FS_Subset, FS_CardinalityType
<1>8. Cardinality(A) + Cardinality(B) = Cardinality(D)
  <2> HIDE DEF A, B, D
  <2>1. Cardinality(A \cap B) = 0
    BY <1>6, FS_EmptySet
  <2>2. Cardinality(A \cup B) = Cardinality(A) + Cardinality(B) - Cardinality(A \cap B)
    BY <1>7, FS_Union
  <2>3. A \cup B = D
    BY <1>6
  <2> QED
    BY <2>1, <2>2, <2>3, <1>7
<1>9. Cardinality(A) <= 1
  <2>1. ASSUME NEW i \in A, NEW j \in A PROVE i = j
    <3>1. /\ i \in D /\ j \in D
          /\ IsMax(chan[n][i].uid) /\ IsMax(chan[n][j].uid)
      BY <1>1 DEF Queued, LeaderIsMax
    <3>2. chan[n][i].uid \in Uids /\ chan[n][j].uid \in Uids
      BY <1>2, <3>1 DEF Message
    <3>3. chan[n][i].uid = chan[n][j].uid
      BY <3>1, <3>2, MaxUnique
    <3> QED
      BY <3>1, <3>3 DEF ChanSingle
  <2> HIDE DEF A
  <2>2. CASE A = {}
    BY <2>2, FS_EmptySet
  <2>3. CASE A # {}
    <3>1. PICK i \in A : TRUE
      BY <2>3
    <3>2. A = {i}
      BY <2>1, <3>1
    <3> QED
      BY <3>2, FS_Singleton
  <2> QED
    BY <2>2, <2>3
<1> HIDE DEF A, B, D
<1>10. Cardinality(D) <= N
  <2>1. Cardinality(D) \in Nat /\ Cardinality(Uids) \in Nat
    BY <1>4, <1>5, FS_CardinalityType
  <2> QED
    BY <2>1, <1>4, <1>5, RingAssumption
<1>11. Bytes(n) = 10 * Cardinality(A) + 7 * Cardinality(B)
  BY DEF Bytes, A, B
<1> QED
  BY <1>7, <1>8, <1>9, <1>10, <1>11, RingAssumption

(* On a ring of up to eight nodes with identifiers of at most two digits a *)
(* read takes whole messages: whatever queues up in a pipe fits the buffer *)
(* of lcr.c:43-44, which the program's five nodes stay well below.         *)
THEOREM ReadsWholeMessages ==
  ASSUME N <= 8
  PROVE  Spec => []ReadTakesAll
<1>1. TypeOK /\ Single /\ LeaderIsMax => ReadTakesAll
  <2> SUFFICES ASSUME TypeOK, ChanSingle, LeaderIsMax, NEW n \in Nodes
               PROVE  Bytes(n) <= BufSize
    BY DEF ReadTakesAll, Single
  <2>1. Bytes(n) <= 7 * N + 3
    BY QueuedBound
  <2>2. Bytes(n) \in Nat
    <3>1. IsFiniteSet(DOMAIN chan[n])
      <4>1. DOMAIN chan[n] = 1..Len(chan[n]) /\ Len(chan[n]) \in Nat
        BY DEF TypeOK
      <4>2. IsFiniteSet(1..Len(chan[n]))
        BY <4>1, FS_Interval
      <4> QED
        BY <4>1, <4>2
    <3>2. \A kind : Cardinality(Queued(n, kind)) \in Nat
      BY <3>1, FS_Subset, FS_CardinalityType DEF Queued
    <3> QED
      BY <3>2 DEF Bytes
  <2> QED
    BY <2>1, <2>2, RingAssumption DEF BufSize
<1> QED
  BY <1>1, InitSingle, StepSingle, TypeCorrect, LeaderCorrect, PTL DEF Spec
=============================================================================
