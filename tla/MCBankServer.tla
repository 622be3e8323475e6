---------------------------- MODULE MCBankServer ----------------------------
(* Values of the constants of BankServer for TLC.                          *)
EXTENDS BankServer

CONSTANTS c1, c2, c3, short, long

AllClients == {c1, c2, c3}
TwoClients == {c1, c2}
ThreeIds == {1, 2, 3}
TwoValues == {short, long}

(* One row of "short" and one of "long" do not fit together in a LIST,     *)
(* and two of "short" do: 2 + 3 = 5, 2 + 2 < 5.                            *)
Lengths == [v \in TwoValues |-> IF v = short THEN 2 ELSE 3]

Cmd(op, id, val) == [op |-> op, id |-> id, val |-> val]
Commands == {Cmd("ADD", 1, short), Cmd("ADD", 2, long), Cmd("ADD", 3, short),
             Cmd("DELETE", 1, short), Cmd("UPDATE", 1, long), Cmd("LIST", 1, short),
             Cmd("BAD", 1, short)}
OneAdd == {Cmd("ADD", 1, short)}

(***************************************************************************)
(* Two instances in one, chosen once.  "crowd": three terminals for two    *)
(* tokens, one command each, and one call of main that fails; since the    *)
(* terminals are alike, they connect in one order.  Otherwise two of them, *)
(* both served, type two commands and one of all kinds, and the first may  *)
(* be closed at any moment.                                                *)
(***************************************************************************)
VARIABLE crowd

Typed(c) == typed'[c] # typed[c]
LastTyped(c) == c2s'[c][Len(c2s'[c])]
InOrder(c, d) == cpc'[d] # "start" => cpc'[c] # "start"

Crowd == /\ InOrder(c1, c2) /\ InOrder(c2, c3)
         /\ \A c \in Clients : Typed(c) => typed[c] = 0 /\ LastTyped(c) \in OneAdd

Pair == /\ cpc'[c3] = "start" /\ faults' = 0 /\ ~Die(c2)
        /\ Typed(c2) => typed[c2] = 0
        /\ Typed(c1) \/ Typed(c2) => \A c \in TwoClients : wpc[c] \in Serving \cup {"done"}

MCInit == Init /\ crowd \in BOOLEAN
MCNext == Next /\ UNCHANGED crowd /\ IF crowd THEN Crowd ELSE Pair
MCSpec == MCInit /\ [][MCNext]_<<vars, crowd>> /\ Fairness
=============================================================================
