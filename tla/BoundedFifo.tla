----------------------------- MODULE BoundedFifo -----------------------------
(***************************************************************************)
(* What the buffer of hands-on 12 promises: the items leave in the order   *)
(* they entered, none lost, doubled or overwritten, and never more than    *)
(* Size are inside.                                                        *)
(***************************************************************************)
EXTENDS Naturals, Sequences

CONSTANTS Size, Items, None   \* Items: the sequence the producer makes

VARIABLES queue, made, taken  \* made: items put so far; taken: the last one got

Init == queue = <<>> /\ made = 0 /\ taken = None

Put == /\ made < Len(Items)
       /\ Len(queue) < Size
       /\ queue' = Append(queue, Items[made + 1])
       /\ made' = made + 1
       /\ UNCHANGED taken

Get == /\ queue # <<>>
       /\ taken' = Head(queue)
       /\ queue' = Tail(queue)
       /\ UNCHANGED made

Next == Put \/ Get

Spec == Init /\ [][Next]_<<queue, made, taken>>
=============================================================================
