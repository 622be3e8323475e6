# Formal model of LabReSid24-25

The repository holds nineteen independent laboratory exercises
(`src/hands-on/ho1` … `ho19`), most of them small C programs about sockets,
threads, processes and distributed algorithms. This directory models the ones
that have behaviour of their own in TLA+: TLC checks the modules on the
programs' own numbers (or small ones), TLAPS proves the most important
properties for all numbers.

Contents

1. The system
2. The modules, and how they correspond to the code
3. What the runs check
4. Bounds
5. Fairness and timing
6. What is proved, and how
7. Where code and documentation disagree
8. What is only model-checked, what is not modelled
9. Plan

## 1. The system

The exercises do not call each other. Within an exercise the actors are
threads, processes or a server and its clients. The table has a row per
exercise; the last two rows are the ones that are not modelled.

| Part | State | Operations | Actors interact by | Hard because of | Correct when |
|---|---|---|---|---|---|
| **ho14** bank: `server.c`, `client.c` | table `db[]`, mutex `db_lock`, semaphore `thread_limiter`, sockets | ADD, DELETE, UPDATE, LIST, QUIT; accept loop; one thread per connection | TCP, shared table | threads interleave, tokens change hands, clients die, calls fail | it behaves like one table on which each command is atomic; tokens add up |
| **ho2** `server_tcp_block.c`, `server_tcp_nonblock.c`, `client_tcp.c` | validation state per connection, table of sockets | accept, check one Fibonacci number, hang up | TCP | places are reused; clients die; the table fills | a verdict depends on its own client only; one session does not disturb another |
| **ho3** `server_multiplex.c`, **ho4** `server_epoll.c`, `client_test.c` | table of sockets; epoll list | accept, acknowledge, hang up | TCP | the same | everyone who has a place is served |
| **ho16** `lcr.c` | `is_leader`, `leader`, one pipe per node of a ring | forward, discard, elect, announce | named pipes | a read swallows several messages | only the maximum leads; all learn of it |
| **ho16** `floodmax.c` | `max_uid_known`, round, a pipe per direction of each link | send to all, read from all, once a round | named pipes | rounds drift apart | rounds compute what a synchronous system would |
| **ho15** `flooding.c` | `informed`, `source`, timeout count | receive, pass on, give up | named pipes, `select` | order on cycles, early exits, blocked `open`, SIGPIPE | the wave reaches all, as a tree, and never queues twice on a link |
| **ho17** `bellman_ford.c` | `my_dist`, `next_hop`, timeout count | receive, improve, tell, give up | named pipes, `select` | the same, and lost updates | distances never too short, no loops, convergence |
| **ho11** `ex1_no_sync.c`, `ex2_sync.c`, `ex3_semaphore.c` | counter; semaphore | increment; enter, leave | shared memory | data race | final value; never more than two inside |
| **ho12** `ex1_barrier.c`, `ex2_prod_cons.c` | counter, semaphores, ring buffer | arrive, pass; produce, consume | semaphores | order of posts, full and empty ring, threads that were not created | rendezvous; first in, first out |
| **ho13** `ex1_join.c`, `ex2_barrier.c` | flag or count, mutex, condition | wait, signal, broadcast | condition variable | lost and spurious wakeups | join waits for the end; rendezvous |
| **ho1** `server_tcp.c`, `client_tcp.c` | one connection | accept, acknowledge, exit | TCP | others that connected are cut off | the one client is answered |
| **ho1** `server_udp.c`, `client_udp.c` | socket queues | one datagram, one answer | UDP | loss; a server that is not there | the answer is to one's own datagram |
| **ho5** `ICMP_raw.c` | identifier, checksum | echo request, one `recvfrom` with a timeout | raw socket | everybody's packets arrive; 16-bit arithmetic | own reply recognised, checksum verifies |
| **ho8** `prime_search.c`, `prime_affinity.c`, **ho10** `graph_solver.c` | part and result per thread | create, compute, join | shared arguments, join | a division with a remainder, a thread that was not created | the result is that of one thread |
| **ho18** `mapreduce_lotr.py` | partial counts | split, count, merge | Ray tasks | words across a chunk boundary, short texts | letters kept, extra words accounted for |
| **ho19** `federated_learning.py` | shards, global weights | rounds of train and average | Ray actors | unequal shards, actors that die | each round averages all examples, from the same weights |
| **ho6** multicast | group membership | send, print | UDP | — | — |
| **ho7**, **ho9**, `ho4/*.sh`, `build_reports.py` | — | configuration, linking, benchmarks, LaTeX | — | — | — |

`PROJECT.json` lists every part with its status, and under `hazards` every
place of the code where something can go wrong that a test would hardly reach.

## 2. The modules

Conventions: a program counter per actor (`pc`, `wpc`, `mpc`, …) gives each
blocking or externally visible call a step of its own; names of variables are
the program's where possible. Definitions commented `Mutation:` are plausible
bugs, used to show that each property can fail; no action refers to them.

### The bank (ho14)

`BankTypes` the vocabulary · `Bank` what the bank promises · `BankServer`
the program · `MCBankServer` instances · `BankServerProofs` proofs.

`BankServer` has four groups of actions: the terminal (`client.c`: `Connect`,
`SendRequest`, `ReceiveReply`, `TypeQuit`, and `Die` for a terminal that is
closed at any moment), `main` (`server.c:163-181`: `SemWait`, `AcceptConnection`,
`AcceptError`, `CreateThread`, `CreateFails`), the thread's loop
(`Start`, `Recv`, `Send`, `SemPost`) and `process_request` inside the lock (`DbLock`,
`Scan`, `AddRecord`, `DeleteRecord`, `UpdateRecord`, `ListRow`, `DbUnlock`).
LIST visits slots one by one, and a row that does not fit is left out, as at
lines 105–112. The thread is given the address of an integer with its socket
(`new_sock`) and reads it, some time later, into its own `client_sock` (`sock`):
`CreateThread` writes the one, `Start` reads it, and `main` may accept the next
connection in between. From then on the thread uses whatever socket it found
there. Names and amounts are one value with a length; bytes are a room
for rows. `Bank` is an atomic store with calls and answers;
its LIST prints rows that stay within the room and leaves out only rows that do
not fit beside them. `ImplementsBank` maps the table to the store and a call in flight to its place
(queue, thread, answer), so it states linearizability.

### The TCP servers of ho1 to ho4

`EventServer` holds all five servers (`EventServerProofs` the proofs); `kind`,
chosen once, says which one runs.
They share almost every line of their loops, and the module says where they
differ: the server of ho1 serves one connection and exits, which cuts off
whoever else had connected (`ServesOn`, `CutOff`); the blocking server has one
place and waits for its one client (`Ready`); the select servers have a table of `MAX_CLIENTS` and look at the
listening socket first, then at the places in order (`Turn`); epoll has no
table and any order. The servers of ho2 check the Fibonacci sequence
(`IsCorrect`, `Advance` on `states`), the others acknowledge anything. A client
may be killed: its connection then ends, or is *reset* when an answer was still
unread, and the select servers take the resulting −1 of `read()` for data and
die of SIGPIPE (`Disconnect`), which cuts off every other client (`CutOff`). Texts, ports and log lines are left out. One
constant set of clients may send a wrong number, as any program that is not
`client_tcp.c` might; the branch that answers ERROR needs one.

### Datagrams (ho5, ho1 over UDP)

`Datagrams` has the two programs that speak over a network that loses and
reorders packets; `program` says which one runs, with several clients.
"ping" is `ICMP_raw.c`: `Open`, `Send`, one `Receive` — a raw socket gets *every*
ICMP packet of the machine (`AtSockets`), and the first decides — or `Timeout`.
Words have 16 bits: `htons`/`ntohs`, `IdField` (the low half of the pid) and
`checksum`, two foldings of the sum of a request's words; the pinged machine
verifies it as RFC 1071 says (`Verifies`) and drops what does not. When the
machine pinged is one's own (`local`), the request itself comes in too. "hello"
is the UDP pair: no timeout, a server that may be bound late or never.
`DatagramsProofs` holds the proofs.

### The programs on named pipes (ho15, ho16, ho17)

`LCR`, `FloodMax`, `Flooding`, `BellmanFord`, each with an `MC…` module that
holds the program's topology and a `…Proofs` module. Every
process is a sequence of steps (open, select, read, handle, write, exit); `main` waits for all and
removes the pipes (`CleanUp`). The pipes are modelled as they are used:
a read takes everything queued and the program parses only the first message,
so what is queued behind is lost; `open(O_WRONLY)` blocks while there is no
reader; a write after the reader's exit raises SIGPIPE. Reading ends are opened
non-blocking or read–write as in the code.

### The thread exercises (ho11, ho12, ho13)

`SharedCounter`, `SemGate`, `SemBarrier`, `ProdCons`, `CondJoin`, `CondBarrier`
are one module per program (ho11's two counters share one); `Rendezvous` and
`BoundedFifo` are the abstract specifications that the two barriers and the
buffer implement. `MCThreadLabs` instantiates these six and `ForkJoin` under
disjoint variables and lets one of them, `lab`, run. Each operation on a semaphore, mutex or
condition is a step; waits may wake spuriously; the unprotected increment is a
load and a store (the Makefile of ho11 compiles without optimisation), and each
thread of the counter prints the value it finds after its loop, without the lock.
The programs of ho12 do not look at the result of `pthread_create`: any thread of
`SemBarrier` and `ProdCons` may be `lost` from the start. Joining it is undefined;
the model lets the join return, the case in which `main` goes on. Those of
ho11 and ho13 look at it and end the program, which is not modelled.

### Fork and join (ho8, ho10, ho18, ho19)

`ForkJoin` is one main that cuts an input (`Part`), creates tasks (`Create`),
waits for them in order (`Join`) and combines the results (`Combine`), with the
five programs' own cuts, work and combinations: the intervals of ho8 with the
remainder in the last, ho10's three operations, ho18's chunks of `chunk_size`
characters and `\w+`, ho19's `np.array_split`. A task works on one item a step,
so tasks interleave as threads do. Failures are the code's: `pthread_create`
fails and is noticed (ho8) or not (ho10, a join of a thread that does not
exist), `range()` refuses a step of zero (ho18), an actor dies (ho19). A model's weights are
what went into them: the round they started from and the examples seen.

`ThreadLabsProofs` holds the proofs about these and about the thread exercises.

## 3. What the runs check

| Run | Module | Shows |
|---|---|---|
| `bank` | MCBankServer | two instances in one, `crowd` says which. Two terminals, both served, type two commands and one, of seven, on two slots for three ids: `ImplementsBank` (linearizable), `UniqueIds`, `ScanStillTrue` (what a scan found still holds when it is used), `Answered` through every branch of a command. Or three terminals for two tokens, with one failing call: `TokenAccounting`, `Handover` (each thread serves the connection it was made for), `EveryoneServed` |
| `bank_thread_fails` | MCBankServer | *violation*: the token of a connection whose thread could not be created never returns |
| `event_servers` | EventServer | three clients, tables of two: `Verdicts` (each client is judged by its own numbers only, whoever had its place before, and cut off only by a dead server), `AllServed` (a client that has a place gets all its answers, whoever else is killed, and every place is freed; the formula names the two limits: a select server that a killed client brought down, and clients that found the table full) |
| `select_one_killed` | EventServer | *violation*: one of two clients of the select server is killed, and the other is cut off (`NoInterference`) |
| `lcr` | MCLCR | `LeaderIsMax`, `LeaderStopsLast` and `ReadTakesAll` (at most 38 of the 64 bytes of the buffer are ever queued) with any loss; `Elected` when paced |
| `floodmax` | MCFloodMax | `SynchronousRounds` (a node never holds less than the synchronous algorithm would, and not more as long as nothing is lost or there are two rounds), `Agreement` with any loss; `AllDecide` when paced |
| `flooding` | MCFlooding | `SpanningTree` (with some depth that grows along the tree), `OnePerLink` (a pipe holds the message at most once, and none goes back to its source) under any timing; `NobodyExitsUninformed`, `AllInformed` when nobody gives up early |
| `bellman_ford` | MCBellmanFord | `NeverTooShort`, `RoutesDescend` under any timing; `ExitsConverged`, `AllExit` under the timing they need |
| `bellman_ford_losses` | MCBellmanFord | *violation*: with nobody giving up early, two updates in one pipe leave node 3 at distance 6 |
| `thread_labs` | MCThreadLabs | `ImplementAbstract` (both barriers are a rendezvous, the ring is a bounded queue), `FinalValue` (what the counter's threads and main may print), `SemaphoresBalance`, `JoinWaits`, `ResultRight` (ho8, ho10, ho18, ho19: the combined result is that of one thread), `AllEnd` (those of ho12 if all threads could be started; ho8, ho10, ho18 and ho19 may end by giving up) |
| `datagrams` | Datagrams | `AnswersMatch` (with 16-bit pids a client is answered exactly by the reply to its own packet, every request verifies), `AllEnd` (a ping always ends; a hello unless a datagram of it was lost) |
| `icmp_pid` | Datagrams | *violation*: a ping whose pid needs more than 16 bits refuses its own reply |

Every passing run also checks the module's `TypeOK`. Deadlock checking is off where the program
legitimately stops or waits for ever (a server without clients, a program that
has ended, a process that lost its message); the liveness properties say where
it must not.

## 4. Bounds

- **bank**: `MaxOps` commands a terminal, `MaxFaults` failing calls of
  `FaultKinds`, two slots. `Pair` and `Crowd` of `MCBankServer` restrict the two
  instances: the pair types while both are served, and only the first may be
  closed at any moment; the crowd types one ADD each and connects in one order,
  as its terminals are alike. Two commands per terminal are enough to
  meet a stale slot (add, delete, add elsewhere), two slots for three ids to
  meet a full table, and rows of two lengths to meet a LIST in which a row no
  longer fits. A long row left out *before* a shorter one that is printed takes
  three slots: that case rests on the proof, which is for any table.
- **event servers**: three clients and two places, so that a place is reused
  while the other is busy and the third client may find the table full;
  `MAX_FIB` = 4 numbers reach both special cases and two steps of the
  recurrence; `WrongRounds` = {4} puts the one wrong number behind a complete
  right prefix; `MaxKills` = 1 client killed at any moment. The epoll batch is
  never full, since connections stay below `MAX_EVENTS`.
- **LCR, FloodMax, Flooding, Bellman-Ford**: the programs' own nodes, links,
  identifiers and costs. `MaxIdle` is the programs' 3 in `flooding` and in
  `bellman_ford_losses`; `bellman_ford` uses 2: more timeouts in a row add
  waiting but no new order of events. Pipes are unbounded sequences: the
  programs write a few bytes.
- **threads**: the programs' numbers (5 threads and 2 places, 5 and 4 threads
  at the barriers, a buffer of 5 and 15 items), except the counter: 2 threads
  of 5 increments instead of 10 of 10000. `FinalValue` states the exact range
  the racy program can print for the numbers given, and its lower end, 2,
  already needs two threads only.
- **fork and join**: small inputs that leave a remainder everywhere. Primes up to
  `MAX_NUMBER` = 29 in three parts (9, 9 and 11 numbers; 9 = 3·3 and 25 = 5·5 test
  the square-root bound), on 2 cores so that one thread has no core of its
  number; every text of up to 5 characters over {a, b, space} for 2 mappers
  (even and odd lengths, cut words, a text shorter than the mappers); 5 examples
  for 2 workers in 2 rounds; `Garbage` = {0} for the pointer nobody set.
- **datagrams**: three clients with pids 100, 54747 and 65535: two bytes that
  differ, a checksum that carries twice, and the largest word. `icmp_pid` uses
  65636, whose low half is 100.

## 5. Fairness and timing

Weak fairness on each thread, process or client means the scheduler runs
whoever can run. In the bank, users are under no obligation to type;
`EveryoneServed` assumes explicitly (`NobodyIdles`) that nobody stays at the
prompt. Failures, deaths and kills are never fair. In `MCThreadLabs` strong
fairness is assumed for the threads of the two condition-variable programs:
they compete for a mutex with others that may wake spuriously and take it again
without end. No other action is strongly fair. `ForkJoin` has weak fairness of
main and of *some* task; `Datagrams` of each client, of the UDP server's answer
and of the network, which delivers or loses what is under way but does neither
in favour of anyone; a server need never be started.

The pipe programs use pauses of one second and timeouts of one or two, three times
in a row, as if they were guarantees. The models separate what depends on that from
what does not, by environments chosen once at `Init`:

- `paced`: nothing is written behind an unread message;
- `prompt`: a process gives up only when nothing is under way anywhere.

They are assumptions, not consequences of the code. The `sleep(1)` of each node
spreads the messages, but it does not yield `paced`: node 2 of
`bellman_ford.c` tells node 3 two distances, about a second apart, and node 3, which
sleeps a second over every message, node 1's included, may not have read the first
when the second comes (section 7). And nothing relates three timeouts to the time a
wave takes.

Safety properties are checked and proved **without** either; convergence and
termination need them, and the antecedents of `Elected`, `AllDecide`,
`AllInformed`, `NobodyExitsUninformed`, `ExitsConverged`, `AllExit` name the ones they
need. So these properties say nothing of the hazards they exclude: a message lost
behind another (`lcr.c:44`, `floodmax.c:57`, `bellman_ford.c:109`), an exit while the
wave is under way (`flooding.c:117`, `bellman_ford.c:137`) and a neighbour that has exited
and blocks or kills a sender (`flooding.c:38`, `bellman_ford.c:47`). What remains true when
those happen is stated by `LeaderIsMax`, `LeaderStopsLast`, `SynchronousRounds`, `Agreement`,
`NeverTooShort`, `RoutesDescend`, `SpanningTree` and `OnePerLink`. Likewise `AllEnd`
of the thread programs holds on the condition that ho12 could start its threads,
and `AllEnd` of the datagrams on the condition that no datagram of a hello was lost.

## 6. What is proved

All theorems are of the form `Spec => []P` for **all** values of the constants
that satisfy the `ASSUME`s of the module, by an inductive invariant.

**BankServerProofs** — for any number of terminals, slots, tokens, commands and
faults. `TypeCorrect` and `HandoverCorrect`: a connection is in the accept queue
once, with `main`, or with one thread, and a thread serves the connection it was
made for. The two are proved by one induction (`TypeHandover`): a thread uses the
socket it found at the address it was given, so the types of the connections
depend on that being its own. `TokensCorrect` and `AtMostMaxNum`:
tokens, held tokens and main's own add up to `MAX_NUM`, by counting how each
step changes the set of holders (`Cardinality` of a set with one more or one
fewer element); it needs `Handover`, since a token moves from main to a thread
that must not already hold one. `ScanCorrect`: mutual exclusion, and the slot a
scan returned is still right when used, since only the lock's holder writes.
`UniqueIdsCorrect` rests on it: ADD inserts only when no active record has the id.

`BankImplemented` is the refinement: every behaviour of `BankServer` is one of
`Bank`, so the server is linearizable. A step of a terminal is `Invoke`, `Return`
or a stutter (`ClientMaps`); of a thread, `Add`, `Delete` or `Update` at the write
to the table, `List` at the last slot, `Reject` when `sscanf` fails, `Return` when
an answer meets a closed socket, or a stutter (`ThreadMaps`). It needs two more
invariants. `Session` says where a command and its answer are: with a terminal
that waits there is one command on its way, or a busy thread, or one answer, and
after a terminal has gone what is left before its end of stream. `Listing` says
that a LIST under way has gathered only rows it has passed, that they stay within
the room, and that it has left out only rows that do not fit beside them; the table stands still meanwhile (`ScanStillTrue`,
`WriterOnly`) and no row comes twice (`UniqueIds`). `Bank` states the length as a
fold over a set; `Length` is the same function, and `SumsExist`, `SumsUnique` and
`LengthRemove` show, by the least counterexample, that it exists for every finite
set and does not depend on the order. `RecordedCount` relates a full table to
`MaxRecords` recorded ids.

**LCRProofs** — for any ring with distinct identifiers, any loss.
`TypeCorrect`, `LeaderCorrect` (only the maximum is announced or believed),
`StopsLastCorrect`. None of them is inductive: a message's identifier says
nothing by itself. The invariant adds what it has *been through*:
`Travelled(m, n)` says that an identifier between its owner `o` and `n` has
passed only smaller ones, and an announcement only nodes stopped with it. `Seg`
is that stretch of the ring; when it closes, it is the whole ring.
`ReadsWholeMessages` (`ReadTakesAll`, for rings of up to eight nodes with identifiers
of at most two digits, as those of the program are; longer ones would need other
lengths than 7 and 10 bytes): no two messages on their way carry the same identifier (`Single`), only the maximum's
is ever an announcement, and N messages of which one is longer fit the 64 bytes of
the buffer up to N = 8.

**BellmanFordProofs** — for any network with symmetric costs, any
timing, early exits and losses. `TypeCorrect`, `DistancesCorrect`
(`NeverTooShort`) and `RoutesCorrect` (`RoutesDescend`: no loop, not even for a
moment). The strengthening: distances only fall, so a number in a pipe
(`PipeInv`) or in its reader's hands (`HeldInv`) is never below its sender's
present distance. `Shortest` is any solution of the shortest-path equations.
`ConvergedAtExit` (`ExitsConverged`) proves the result under the two assumptions about
timing that the property names: whatever a node's neighbours have not been told
of its distance is in a pipe or still to be written (`Told`), so when nothing is
under way (`Quiet`) no link can improve a distance, and among the nodes that are
wrong there is none nearest to the target (`QuietIsOver`); from then on nothing
changes (`Over`).

**FloodingProofs** — for any network, any timing, early exits and broken pipes
included. `TypeCorrect`, `OnePerLinkCorrect`, `TreeCorrect`. What a sender still
owes (`OwedInv`) lies in pipes that are still empty and never leads to its
source; who is not informed owes and has sent nothing. `SpanningTree` asks for a
depth that grows along `source`: the proof takes the number of agents informed
before, which every step that informs another one extends. `NobodyLeftBehind`
(`NobodyExitsUninformed`, networks that are connected): when the first agent gives
up nothing is under way, so over each link from an informed agent the message has
passed (`SpreadInv`): the informed agents are closed under links, hence all.

**FloodMaxProofs** — for any network whose diameter is at most `Diameter`, any
timing and loss. `TypeCorrect`, `AgreementCorrect`: whoever decides holds the
largest identifier. Rounds drift apart and one read may swallow two messages;
the invariant (`LinkInv`) says that a neighbour's r-th read finds its r-th message or a
*later* one, and a later maximum is only larger. So a node that ends has
seen at least what the synchronous algorithm would have shown it (`NodeInv`,
with the recursive function `Ball`), and identifiers are never invented
(`RealInv`). `RoundsCorrect` (`SynchronousRounds`): after r rounds a node holds no
less than any identifier at most r links away, and, when nothing is lost or there
are at most two rounds, one of those. Without that condition it is false: on a
line of four nodes, with three rounds and losses, the second read can swallow the
message of the second round and find that of the third, which comes from farther.

**DatagramsProofs** — for any set of clients. `TypeCorrect`, `AnswersCorrect`.
`NtohsHtons`: the identifier of a 16-bit pid comes back unchanged;
`ChecksumFacts`: two foldings are enough for the sums of these requests and the
result verifies, for every identifier. The invariant says of every packet, on
its way, queued or received, who sent it and with which identifier.

**EventServerProofs** — for each of the five servers, any number of clients,
wrong numbers and killed clients, any table and length of the sequence.
`TypeCorrect`, `VerdictsCorrect`. The invariant follows a number from its client to the
answer: between the two there is one number or its answer (`ConnInv`); where a
number waits at a place, the place's state expects exactly the number the client
is at, and where an answer is on its way the state is one ahead (`PlaceInv`,
`Expects`), whoever had the place before; a client has one place at most
(`SeatInv`), is queued once (`QueueInv`), and what was reported ready stays so
until it is handled (`ReadyInv`).

**ThreadLabsProofs** — for any numbers of threads, increments, places, items and
buffer slots. A step of the whole is a step or a stutter of each exercise
(`Frame`); each exercise has its own invariant. `CounterFinalValue`: with the lock no
update is lost; without it the final value is at most the full count and at least
two (for two threads of two increments or more), by what each thread's register and
the number of its increments still to come allow (`AtMostMade`, `TwoSurvive`). `SemaphoresInBalance`: free places and threads
inside add up, and the posts of the barrier are those of the threads let through
and the ones to come, none when a thread is missing (`SemPostInv`). `ParentWaits`: the hand-made join.
`LabsImplement`: both barriers implement `Rendezvous`, and the ring implements
`BoundedFifo`: what lies between its two indices is exactly what has been made and not yet
taken, in order (`ContentInv`), and the semaphores count it (`BookInv`).
`TypeCorrect` covers `ForkJoin` as well.

`ResultsRight` (`ResultRight`) is about the fork-join programs alone, for any bound
of the prime search, any text over the alphabet, any training set and any numbers of
tasks, cores and rounds. `ResultInv` says where every task is (`PcInv`), that what it
has found is the `Value` of the items it is past (`WorkInv`), and that main has the
values of whole parts in the order of the tasks (`GotInv`). The rest is about data, and
independent of the interleaving:

- The intervals of ho8, the shards of ho19 and the chunks of ho18 are slices of one
  range (`IsCut`; `PrimeCuts`, `ShardCuts`, `ChunkCuts`), so they are disjoint and leave
  nothing out (`SlicesMeet`), whatever the remainder of the division.
- `is_prime` is right (`PrimeTest`): a number without a divisor up to its root has none.
- A fold of the community modules is a function of the subsets of its indices;
  `SameFold` compares it with a count or a bag by a least set on which the two differ, so no
  induction is needed (`SetSumIs`, `SeqSumIs`, `BagSumIs`, `WordSumIs`).
- The words of the chunks are pieces of the text that do not meet and hold every letter
  (`AllPiecesFacts`). A piece begins where a word of the text does, or just after a cut
  (`PiecesBegin`), hence one piece more per cut (`PiecesCounted`) and, without cuts,
  the words of the text (`UncutPieces`). `findall` lists each word once (`FindallIs`);
  it takes the words by their rank, which says the order without sorting.

Assumptions: `BoundsAssumption` and `BankTypes`' own (finite sets, distinct
`None`), `RingAssumption` (distinct identifiers), `GraphAssumption` (symmetric
links, listed once) and `ShortestAssumption` (symmetric natural costs),
`DiameterAssumption` (`Diameter` rounds reach every node), `EventServerAssumption`
(finite clients, tokens that are not numbers), `DatagramsAssumption` (finitely many
clients, with positive pids), `ConnectedAssumption` (every network of `Flooding` is
connected; only `NobodyLeftBehind` uses it), `LabsAssumption` (positive numbers of
threads, places and slots). `ReadsWholeMessages` assumes `N <= 8` in its statement. TLC
evaluates each of them in the runs of its module.

## 7. Where code and documentation disagree

1. `ho14/server.c:180` ignores the result of `pthread_create`. The report says a
   client that leaves gives its token back; when the thread was never created
   nobody does (`bank_thread_fails`, `TokenComesBack`).
2. `ho17/bellman_ford.c:109` reads all queued updates and parses the first.
   The comment at line 30 says node 3 ends with 4; a schedule exists in which
   every node exits normally, nobody giving up early, and node 3 keeps 6 (`bellman_ford_losses`,
   `AbsoluteConvergence`).
3. `ho5/ICMP_raw.c:152` compares the 16-bit identifier of the reply with the
   whole `getpid()`. The comment at line 149 says it must correspond to the one
   sent; with a pid above 65535 it does and the reply is refused all the same
   (`icmp_pid`, `OwnReplyAccepted`).
4. `ho3/server_multiplex.c:127` takes only 0 for the end of a connection. `read()`
   returns −1 when a client was killed with an answer unread; the server then sends
   on the reset connection and dies of SIGPIPE, with every other session.
   `Report_HO3.tex:179` promises "l'assenza di interferenze tra le sessioni"
   (`select_one_killed`, `NoInterference`). `ho2/server_tcp_nonblock.c:117` has the same
   test.

Seen while modelling, without a run of its own: `Report_HO8.tex:189` shows
`CPU_SET(data->id % num_cores, …)`, while `prime_affinity.c:39` has no modulo. On a
machine with fewer cores than threads the call fails and the thread keeps all
cores, which is what `Start` of `ForkJoin` does; `ResultRight` claims cores of one's
own only for threads that have one.

## 8. Only model-checked, and not modelled

Only model-checked: all liveness (`Answered`, `EveryoneServed`, `AllServed`,
`Elected`, `AllDecide`, `AllInformed`, `AllExit`, `AllEnd`) — the prover has no
backend for fairness and `ENABLED`. Every other property of a passing run is a
theorem.

Abstracted: texts, formats and log lines; record contents; the exact byte count
of a LIST (hazard at `server.c:116`); a TCP message split over several reads
(hazard at `client.c:48`); the weights of ho19; errors of `socket`, `bind`, `listen`, `mkfifo` at
start, after which the programs exit.

Not modelled: ho6 (one sender in a loop, receivers that print; the state is the
kernel's); the numbers of ho19 (floating point: the model says of which examples
each average is made, not its value); ho7, ho9, the benchmark scripts of ho4 and
the report builder (configuration, linking, measurement, LaTeX: no logic). See
`components` in `PROJECT.json`.

## 9. Plan

The order is by importance: first the bank, the one program with shared mutable
state, concurrency, failures and a specification; then the distributed
algorithms, where timing hides losses; then the servers and the small thread
programs.

Done: the modules of section 2, the runs of section 3, the theorems of section 6.

All safety properties and both groups of refinements are proved.

Left: a closer look at the byte count of a LIST and at partial reads. The other hazards
without a property are things the code does and no document denies (a client that
finds the table full, a lost hello, an exit while the message is under way, a
`pthread_create` of ho10 that fails); the conditions of the properties name them.
