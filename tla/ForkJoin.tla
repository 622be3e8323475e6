------------------------------ MODULE ForkJoin ------------------------------
(***************************************************************************)
(* The programs whose main thread cuts its input, has the parts worked on  *)
(* at the same time, waits for them in order and combines the results:     *)
(*   "primes"    ho8/prime_search.c      threads count primes of intervals  *)
(*   "affinity"  ho8/prime_affinity.c    the same, each thread on its core  *)
(*   "graph"     ho10/graph_solver.c     three threads, one operation each  *)
(*   "words"     ho18/mapreduce_lotr.py  Ray tasks count words of chunks    *)
(*   "federated" ho19/federated_learning.py  Ray actors train in rounds     *)
(* A task works on one item (number, operation, word, example) per step.    *)
(* A model's weights are represented by what went into them: the round of  *)
(* the global weights it started from and the examples it was trained on.   *)
(***************************************************************************)
EXTENDS Integers, Sequences, FiniteSets, Bags, SequencesExt, FiniteSetsExt

CONSTANTS
  MAX_NUMBER, MAX_THREAD,   \* ho8: 1000000 and 4
  NumCores,                 \* cores of the machine
  Texts, Space,             \* the texts to count; what is not a letter
  num_mappers,              \* ho18: 4
  num_examples,             \* size of the training set (external: MNIST)
  num_workers, num_rounds,  \* ho19: 6 and 3
  Garbage,                  \* bound: values an unset result pointer leads to
  None

ForkJoinAssumption ==
  /\ MAX_NUMBER \in Nat /\ MAX_THREAD \in Nat \ {0} /\ NumCores \in Nat \ {0}
  /\ num_mappers \in Nat \ {0} /\ num_workers \in Nat \ {0} /\ num_rounds \in Nat \ {0}
  /\ num_examples \in Nat /\ num_examples >= num_workers
  /\ Garbage \subseteq Int

VARIABLES
  program, text,  \* which of the programs runs, and on which text
  main,           \* "create", "join", "combine", "done" or "failed"
  next,           \* the task main creates or waits for
  round,          \* rounds finished
  pc,             \* per task: "new", "ready", "run", "done", "lost", "dead"
  left,           \* per task: the items of its part still to be worked on
  result,         \* per task: its result so far
  cpuset,         \* per task: the cores it may run on
  got,            \* the results main has waited for
  total           \* what main made of them

vars == <<program, text, main, next, round, pc, left, result, cpuset, got, total>>

Programs == {"primes", "affinity", "graph", "words", "federated"}
Counts == program \in {"primes", "affinity"}
Cores == 0 .. NumCores - 1
-----------------------------------------------------------------------------
(* The parts.                                                              *)

prime_chunk == MAX_NUMBER \div MAX_THREAD
start(i) == i * prime_chunk + 1

\* Mutation: the remainder of the division is forgotten.
EvenEnd(i) == (i + 1) * prime_chunk

end(i) == IF i = MAX_THREAD - 1 THEN MAX_NUMBER ELSE (i + 1) * prime_chunk

is_prime(n) == /\ n > 1
               /\ n = 2 \/ n % 2 # 0
               /\ \A i \in 3 .. n : i % 2 # 0 /\ i * i <= n => n % i # 0

Operands == << [op1 |-> 2, op2 |-> 6, operation |-> "*"],
               [op1 |-> 1, op2 |-> 4, operation |-> "+"],
               [op1 |-> 5, op2 |-> 2, operation |-> "-"] >>

compute(args) == CASE args.operation = "*" -> args.op1 * args.op2
                   [] args.operation = "+" -> args.op1 + args.op2
                   [] args.operation = "-" -> args.op1 - args.op2

chunk_size == Len(text) \div num_mappers
NumChunks == IF chunk_size = 0 THEN 0 ELSE (Len(text) + chunk_size - 1) \div chunk_size
chunk(i) == SubSeq(text, i * chunk_size + 1, Min({(i + 1) * chunk_size, Len(text)}))

\* The words of s, \w+: its longest runs of letters, by first and last place.
Letter(s, j) == j \in 1 .. Len(s) /\ s[j] # Space
Runs(s) == {r \in (1 .. Len(s)) \X (1 .. Len(s)) :
              /\ r[1] <= r[2] /\ \A j \in r[1] .. r[2] : Letter(s, j)
              /\ ~Letter(s, r[1] - 1) /\ ~Letter(s, r[2] + 1)}
findall(s) == LET Nth(k) == CHOOSE r \in Runs(s) :
                                Cardinality({q \in Runs(s) : q[1] <= r[1]}) = k
              IN  [k \in 1 .. Cardinality(Runs(s)) |-> SubSeq(s, Nth(k)[1], Nth(k)[2])]

\* np.array_split: the first shards have one example more.
Shard(i) == LET size == num_examples \div num_workers
                more == num_examples % num_workers
                first == i * size + Min({i, more})
            IN  first + 1 .. first + size + (IF i < more THEN 1 ELSE 0)

NumTasks == CASE Counts -> MAX_THREAD
              [] program = "graph" -> Len(Operands)
              [] program = "words" -> NumChunks
              [] program = "federated" -> num_workers
Tasks == 0 .. NumTasks - 1

Part(i) == CASE Counts -> [k \in 1 .. end(i) - start(i) + 1 |-> start(i) + k - 1]
             [] program = "graph" -> << Operands[i + 1] >>
             [] program = "words" -> findall(chunk(i))
             [] program = "federated" ->
                  [k \in 1 .. Cardinality(Shard(i)) |->
                     [base |-> round, example |-> Min(Shard(i)) + k - 1]]

-----------------------------------------------------------------------------
(* A task's result: of no items, and with one more.                        *)

Zero == CASE Counts -> 0
          [] program = "graph" -> 0
          [] program = "words" -> EmptyBag
          [] program = "federated" -> [base |-> 0, seen |-> {}]

Add(r, x) == CASE Counts -> IF is_prime(x) THEN r + 1 ELSE r
               [] program = "graph" -> compute(x)
               [] program = "words" -> r (+) SetToBag({x})
               [] program = "federated" -> [base |-> x.base, seen |-> r.seen \cup {x.example}]

\* What main makes of the results, in the order it waited for them; FedAvg
\* weighs each local model with its share of the examples.
Combined(rs) ==
  CASE Counts -> FoldSeq(LAMBDA r, sum : sum + r, 0, rs)
    [] program = "graph" -> rs[1] + rs[2] * rs[3]
    [] program = "words" -> FoldSeq(LAMBDA r, sum : sum (+) r, EmptyBag, rs)
    [] program = "federated" ->
         [k \in 1 .. Len(rs) |-> [weights |-> rs[k],
                                  num_examples |-> Cardinality(Shard(k - 1))]]
-----------------------------------------------------------------------------
Init == /\ program \in Programs
        /\ text \in IF program = "words" THEN Texts ELSE {<<>>}
        /\ main = "create" /\ next = 0 /\ round = 0
        /\ pc = [i \in Tasks |-> "new"]
        /\ left = [i \in Tasks |-> <<>>]
        /\ result = [i \in Tasks |-> None]
        /\ cpuset = [i \in Tasks |-> Cores]
        /\ got = <<>> /\ total = None

\* Main goes on to the next task, or after the last one to what comes then.
Onward(then) == IF next + 1 < NumTasks THEN next' = next + 1 /\ UNCHANGED main
                ELSE next' = 0 /\ main' = then

\* A task is created with its part of the input.  graph_solver does not look
\* at the result of pthread_create: a thread may be missing.
Create == /\ main = "create" /\ next \in Tasks
          /\ \/ pc' = [pc EXCEPT ![next] = "ready"]
             \/ program = "graph" /\ pc' = [pc EXCEPT ![next] = "lost"]
          /\ left' = [left EXCEPT ![next] = Part(next)]
          /\ Onward("join")
          /\ UNCHANGED <<program, text, round, result, cpuset, got, total>>

Stop == /\ main' = "failed"
        /\ UNCHANGED <<program, text, next, round, pc, left, result, cpuset, got, total>>

\* ho8: pthread_create fails and main exits, which ends the other threads.
CreateFails == main = "create" /\ Counts /\ Stop

\* ho18: range() refuses the step 0 of a text shorter than the mappers.
RangeFails == main = "create" /\ program = "words" /\ chunk_size = 0 /\ Stop

Running(i) == main \in {"create", "join", "combine"} /\ pc[i] = "run"

\* The task starts; in prime_affinity it asks for the core of its number, and
\* keeps all of them when the machine has no such core.
Start(i) == /\ main # "failed" /\ pc[i] = "ready"
            /\ pc' = [pc EXCEPT ![i] = "run"]
            /\ result' = [result EXCEPT ![i] = Zero]
            /\ cpuset' = IF program = "affinity" /\ i \in Cores
                         THEN [cpuset EXCEPT ![i] = {i}] ELSE cpuset
            /\ UNCHANGED <<program, text, main, next, round, left, got, total>>

Work(i) == /\ Running(i) /\ left[i] # <<>>
           /\ result' = [result EXCEPT ![i] = Add(@, Head(left[i]))]
           /\ left' = [left EXCEPT ![i] = Tail(@)]
           /\ UNCHANGED <<program, text, main, next, round, pc, cpuset, got, total>>

Exit(i) == /\ Running(i) /\ left[i] = <<>>
           /\ pc' = [pc EXCEPT ![i] = "done"]
           /\ UNCHANGED <<program, text, main, next, round, left, result, cpuset, got, total>>

\* An actor of ho19 dies in the middle of its training.
Dies(i) == /\ program = "federated" /\ Running(i)
           /\ pc' = [pc EXCEPT ![i] = "dead"]
           /\ UNCHANGED <<program, text, main, next, round, left, result, cpuset, got, total>>

\* Mutation: main takes the result of a thread that may still run.
TakeUnfinished == /\ main = "join" /\ pc[next] \in {"run", "done"}
                  /\ got' = Append(got, result[next])
                  /\ Onward("combine")
                  /\ UNCHANGED <<program, text, round, pc, left, result, cpuset, total>>

\* pthread_join or ray.get.  Waiting for a thread that was never created is
\* undefined: the program crashes (JoinFails) or takes what it finds.
Join == /\ main = "join" /\ pc[next] \in {"done", "lost"}
        /\ \E r \in IF pc[next] = "lost" THEN Garbage ELSE {result[next]} :
             got' = Append(got, r)
        /\ Onward("combine")
        /\ UNCHANGED <<program, text, round, pc, left, result, cpuset, total>>

JoinFails == /\ main = "join" /\ pc[next] \in {"lost", "dead"}
             /\ Stop

Combine == /\ main = "combine"
           /\ total' = Combined(got) /\ got' = <<>> /\ round' = round + 1
           /\ main' = IF program = "federated" /\ round' < num_rounds THEN "create" ELSE "done"
           /\ UNCHANGED <<program, text, next, pc, left, result, cpuset>>

Task(i) == Start(i) \/ Work(i) \/ Exit(i)
Main == Create \/ RangeFails \/ Join \/ JoinFails \/ Combine

SomeTask == \E i \in Tasks : Task(i)

Next == Main \/ CreateFails \/ SomeTask \/ \E i \in Tasks : Dies(i)

Spec == Init /\ [][Next]_vars /\ WF_vars(Main) /\ WF_vars(SomeTask)
-----------------------------------------------------------------------------
IsResult(r) == CASE Counts -> r \in Nat
                 [] program = "graph" -> r \in Int
                 [] program = "words" -> IsABag(r)
                 [] program = "federated" ->
                      r \in [base : 0 .. num_rounds, seen : SUBSET (1 .. num_examples)]

TypeOK == /\ program \in Programs
          /\ main \in {"create", "join", "combine", "done", "failed"}
          /\ next \in Tasks \cup {0} /\ round \in 0 .. num_rounds
          /\ pc \in [Tasks -> {"new", "ready", "run", "done", "lost", "dead"}]
          /\ cpuset \in [Tasks -> SUBSET Cores]
          /\ Len(got) <= NumTasks
          /\ \A i \in Tasks : result[i] = None \/ IsResult(result[i])

Ended == main \in {"done", "failed"}
-----------------------------------------------------------------------------
(* What the programs are to find, without any cutting.                     *)

Primes == {n \in 2 .. MAX_NUMBER : \A d \in 2 .. n - 1 : n % d # 0}

Letters(s) == Cardinality({j \in 1 .. Len(s) : Letter(s, j)})

\* The words that a chunk's end cuts in two.
Cuts == {j \in 1 .. Len(text) - 1 : /\ j % chunk_size = 0
                                    /\ Letter(text, j) /\ Letter(text, j + 1)}

WordsOf(s) == FoldSeq(LAMBDA w, sum : sum (+) SetToBag({w}), EmptyBag, findall(s))

PrimesRight ==
  Counts => /\ main = "done" => total = Cardinality(Primes)
            /\ \A i, j \in Tasks \cap Cores :
                 program = "affinity" /\ i # j /\ result[i] # None /\ result[j] # None
                   => cpuset[i] \cap cpuset[j] = {}

GraphRight ==
  program = "graph" =>
    /\ main = "done" /\ (\A i \in Tasks : pc[i] # "lost") => total = 27
    /\ main = "failed" => \E i \in Tasks : pc[i] = "lost"

WordsRight ==
  program = "words" =>
    /\ main = "done" =>
         /\ MapThenSumSet(LAMBDA w : total[w], BagToSet(total))
              = Cardinality(Runs(text)) + Cardinality(Cuts)
         /\ MapThenSumSet(LAMBDA w : total[w] * Len(w), BagToSet(total)) = Letters(text)
         /\ Cuts = {} => total = WordsOf(text)
    /\ main = "failed" => Len(text) < num_mappers

FederatedRight ==
  program = "federated" =>
    /\ round > 0 =>
         /\ \A k \in DOMAIN total : total[k].weights.base = round - 1
         /\ UNION {total[k].weights.seen : k \in DOMAIN total} = 1 .. num_examples
         /\ \A k \in DOMAIN total : total[k].num_examples = Cardinality(total[k].weights.seen)
         /\ MapThenSumSet(LAMBDA k : total[k].num_examples, DOMAIN total) = num_examples
    /\ main = "failed" => \E i \in Tasks : pc[i] = "dead"

\* However the tasks interleave, the programs find what a single thread would
\* (27 is the value of (2 * 6) + (1 + 4) * (5 - 2), graph_solver.c:39): the
\* primes up to MAX_NUMBER, each thread on a core of its own as far as there
\* are cores; every letter of the text in one word, with one word more for
\* each one that a chunk's end cuts; and in every round a model averaged from
\* the last global one with each example used once.  They give up only when a
\* thread or actor failed or the text is too short.
ResultRight == PrimesRight /\ GraphRight /\ WordsRight /\ FederatedRight
=============================================================================
