------------------------------ MODULE ProdCons ------------------------------
(***************************************************************************)
(* The bounded buffer of hands-on 12, ho12/ex2_prod_cons.c: one producer   *)
(* and one consumer of NumItems items, a ring of BufferSize places, two    *)
(* counting semaphores and one used as a mutex.                            *)
(***************************************************************************)
EXTENDS Naturals, Sequences

CONSTANTS BufferSize, NumItems, None

SizesAssumption == BufferSize \in Nat \ {0} /\ NumItems \in Nat

VARIABLES ppc, cpc,                  \* the producer and the consumer
          p, c,                      \* their loop variables
          buffer, in, out,
          emptySlots, filledSlots, mutex,
          item,                      \* the consumer's local
          joined                     \* main has joined both

sems == <<emptySlots, filledSlots, mutex>>
producer == <<ppc, p, in>>
consumer == <<cpc, c, out, item>>
vars == <<producer, consumer, sems, buffer, joined>>

Places == 0..(BufferSize - 1)
Item(k) == 100 + k
Items == [k \in 1..NumItems |-> Item(k - 1)]
(* "lost": pthread_create failed, whose result main does not look at.      *)
Steps == {"slot", "mutex", "work", "release", "signal", "done", "lost"}

TypeOK == /\ ppc \in Steps /\ cpc \in Steps
          /\ p \in 0..NumItems /\ c \in 0..NumItems
          /\ buffer \in [Places -> {Items[k] : k \in DOMAIN Items} \cup {None}]
          /\ in \in Places /\ out \in Places
          /\ emptySlots \in 0..BufferSize /\ filledSlots \in 0..BufferSize
          /\ mutex \in 0..1
          /\ item \in {Items[k] : k \in DOMAIN Items} \cup {None}
          /\ joined \in BOOLEAN

Init == /\ ppc \in {"slot", "lost"} /\ cpc \in {"slot", "lost"}
        /\ p = 0 /\ c = 0
        /\ buffer = [k \in Places |-> None]
        /\ in = 0 /\ out = 0
        /\ emptySlots = BufferSize /\ filledSlots = 0 /\ mutex = 1
        /\ item = None
        /\ joined = FALSE

Advance(k) == (k + 1) % BufferSize

(* Mutation: the producer never waits for an empty place.                  *)
ProducerRuns == /\ ppc = "slot" /\ p < NumItems
                /\ emptySlots' = IF emptySlots > 0 THEN emptySlots - 1 ELSE 0
                /\ ppc' = "mutex"
                /\ UNCHANGED <<p, in, consumer, filledSlots, mutex, buffer, joined>>

WaitEmpty == /\ ppc = "slot" /\ p < NumItems
             /\ emptySlots > 0
             /\ emptySlots' = emptySlots - 1
             /\ ppc' = "mutex"
             /\ UNCHANGED <<p, in, consumer, filledSlots, mutex, buffer, joined>>

ProducerLocks == /\ ppc = "mutex"
                 /\ mutex > 0
                 /\ mutex' = mutex - 1
                 /\ ppc' = "work"
                 /\ UNCHANGED <<p, in, consumer, emptySlots, filledSlots, buffer, joined>>

Produce == /\ ppc = "work"
           /\ buffer' = [buffer EXCEPT ![in] = Item(p)]
           /\ in' = Advance(in)
           /\ ppc' = "release"
           /\ UNCHANGED <<p, consumer, sems, joined>>

ProducerUnlocks == /\ ppc = "release"
                   /\ mutex' = mutex + 1
                   /\ ppc' = "signal"
                   /\ UNCHANGED <<p, in, consumer, emptySlots, filledSlots, buffer, joined>>

PostFilled == /\ ppc = "signal"
              /\ filledSlots' = filledSlots + 1
              /\ p' = p + 1
              /\ ppc' = IF p' = NumItems THEN "done" ELSE "slot"
              /\ UNCHANGED <<in, consumer, emptySlots, mutex, buffer, joined>>

WaitFilled == /\ cpc = "slot" /\ c < NumItems
              /\ filledSlots > 0
              /\ filledSlots' = filledSlots - 1
              /\ cpc' = "mutex"
              /\ UNCHANGED <<c, out, item, producer, emptySlots, mutex, buffer, joined>>

ConsumerLocks == /\ cpc = "mutex"
                 /\ mutex > 0
                 /\ mutex' = mutex - 1
                 /\ cpc' = "work"
                 /\ UNCHANGED <<c, out, item, producer, emptySlots, filledSlots, buffer, joined>>

Consume == /\ cpc = "work"
           /\ item' = buffer[out]
           /\ out' = Advance(out)
           /\ cpc' = "release"
           /\ UNCHANGED <<c, producer, sems, buffer, joined>>

ConsumerUnlocks == /\ cpc = "release"
                   /\ mutex' = mutex + 1
                   /\ cpc' = "signal"
                   /\ UNCHANGED <<c, out, item, producer, emptySlots, filledSlots, buffer, joined>>

(* Mutation: the wrong semaphore is posted.                                *)
PostMutexAgain == /\ cpc = "signal"
                  /\ mutex' = mutex + 1
                  /\ c' = c + 1
                  /\ cpc' = IF c' = NumItems THEN "done" ELSE "slot"
                  /\ UNCHANGED <<out, item, producer, emptySlots, filledSlots, buffer, joined>>

PostEmpty == /\ cpc = "signal"
             /\ emptySlots' = emptySlots + 1
             /\ c' = c + 1
             /\ cpc' = IF c' = NumItems THEN "done" ELSE "slot"
             /\ UNCHANGED <<out, item, producer, filledSlots, mutex, buffer, joined>>

Producer == WaitEmpty \/ ProducerLocks \/ Produce \/ ProducerUnlocks \/ PostFilled
Consumer == WaitFilled \/ ConsumerLocks \/ Consume \/ ConsumerUnlocks \/ PostEmpty

(* The id of a thread that was not created is unset: joining it is         *)
(* undefined, and taken to return; if it crashes, the program stops.       *)
Join == /\ ~joined
        /\ ppc \in {"done", "lost"} /\ cpc \in {"done", "lost"}
        /\ joined' = TRUE
        /\ UNCHANGED <<producer, consumer, sems, buffer>>

Next == Producer \/ Consumer \/ Join

Spec == Init /\ [][Next]_vars

-----------------------------------------------------------------------------
(* The buffer as a queue: what lies between out and in.                    *)
Made == p + (IF ppc \in {"release", "signal"} THEN 1 ELSE 0)
Got == c + (IF cpc \in {"release", "signal"} THEN 1 ELSE 0)
Queue == [k \in 1..(Made - Got) |-> buffer[(out + k - 1) % BufferSize]]

AllStarted == ppc # "lost" /\ cpc # "lost"
fifo == INSTANCE BoundedFifo
        WITH Size <- BufferSize, queue <- Queue, made <- Made, taken <- item
=============================================================================
