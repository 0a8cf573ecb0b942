# A verification development for WSBB

WSBB solves flowshop instances by branch and bound on a cluster.  Each machine
runs a peer; peers steal work from each other, tell each other about better
schedules, and vote in a tree to find out that the search is over.  A separate
manager builds that tree.  This directory holds TLA+ modules for the parts
that make the search correct, TLC configurations that check them on small
instances, and TLAPS proofs of the most important facts for every instance.

Paths below are those of the repository, e.g. `src/work_stealing/protocol.cpp`.

## 1. Inventory

| part | state it keeps | operations | speaks to |
|---|---|---|---|
| **CPU work-stealing peer** `protocol.cpp`, `node.cpp`, `explorer.cu` | pool of subproblems (`tr`), best schedule (`wsltns`, `tr->cout`), `MTR`, `pendingWorkRequest`, `terminationSignal`, `sentTerminateDetection`, the children with their votes, `jobFinished`, `trigger` | one loop: handle packets, serve requests, explore a batch; without work: take a stand, reject, steal, vote, decide (root) | peers by packets, its listener by the packets queue |
| **Packets queue** `packets.cpp` | doubly linked containers, `number_of_packets`, one mutex | `add_packet`, `get_packet`, the unlocked test in the handlers' loop | listener thread, processing thread |
| **Socket layer** `communication.cpp` | none that lasts | `send_message` (look up, connect, ten retries of each, write, close), `receive_remote_msg` (one read of the header, a loop for the data, queue) | everyone |
| **Manager** `manager.cpp` | `peers_data`, `current_parent_id`, `current_parent_nchilds` | number a peer and give it a parent, broadcast addresses, broadcast the start | every peer, once |
| **Branching** `decompose_beginend.cpp`, `bb_problem_calculator.cpp`, `problems.cpp` | a permutation with a fixed prefix and suffix | children at the beginning or at the end, whichever promises more; the last two jobs at once | explorer, bound |
| **Bound** `bound_flowshop.cpp` | tables made from the instance | Johnson's rule on pairs of machines; makespan of a complete permutation | branching |
| **Solutions store** `solutions.cpp`, `eliminate_pareto.cpp` | list of schedules, `changed`, the flag `betterSolutionState` of `pbab` | `inserable`, `insert`, `readOptimalSolution` | explorer, gossip handlers |
| **Pool order** `tree.cpp`, `select_worst.cpp` | heap or stack of subproblems, their `ranks` | `take`, `insert`, three orders | explorer |
| **GPU explorer** `explorer.cu`, `gpu.cu` | a ring of pools in pinned memory with a stream each, its two indices, the pools sent | collect subproblems, write their children, start the device, wait, prune | the explorer's pool, the device |
| **GPU bound** `bound_flowshop_gpu.cu` | its own sorted tables, copied to the device | quicksort on the host, one kernel thread per child | GPU explorer |
| **GPU master and CPU slaves**, second half of `protocol.cpp` and `node.cpp` | slaves with `MTS`/`STM` | serve slaves, prune for a master | peers, slaves |
| **Interval works** `works.cpp`, `work.cpp`, `weights.cpp` | works as intervals of leaves in three indexes, a checkpoint file | `request` with its four answers, `save`, `init` | workers of an older farmer protocol; the peers do not call it |
| **Big integers** `src/int/` | blocks of 32 bits, a sign | compare, add, subtract, multiply, divide, to and from digits | interval works, weights |
| statistics, formatting, command line | counters, options | | |

**How they interact.**  A peer has a listener thread (`peerBootstrap`), which
reads one packet per connection and queues it, and one processing thread.  All
of a CPU peer's state but the queue belongs to the processing thread: handlers
and exploration run in the same loop and never overlap.  Sends are synchronous:
`send_message` connects, writes and closes before the handler goes on.

**What is hard.**  Packets of different senders interleave; a node's knowledge
of the best schedule is stale; requests cross each other, a request may reach a
node that has just run dry or has finished; the vote is taken while work is
moving; a restart of the vote overtakes nothing but crosses votes, work and
schedules of other nodes; the queue's count is read without its mutex; nothing
is acknowledged: a sender learns of a failed connection only, a read or write
that fails is taken for -1 bytes, and the manager sleeps until it believes the
overlay complete.  On a GPU peer the device works
while the processor goes on, and what it returns is matched to what was sent by
two indices alone; a network of both kinds of peer mixes two conventions about
what a pool may hold.  The coordinator of the interval works gives the same
work to two workers on purpose, and meets intervals that are out of date.
`PROJECT.json` lists each hazard with its line and the properties for it.

**What correctness means**, part by part:

* search: no subproblem is lost or explored by two nodes; nothing is discarded
  unless some node has a schedule at least as good; the result is optimal;
* stealing: a request has one answer; work goes only to nodes that have none;
* termination: announced only when nothing is open; it is announced in the
  end; a finished node knows the optimum;
* vote: one vote per node and round; a negative vote cannot be outvoted;
* branching: the children of a subproblem share its schedules out, none twice
  and none left over; the leaves counted are the schedules there are;
* bound: never above the makespan of a schedule below; Johnson's order is the
  best of its two machines; the order of the pool is strict;
* queue: the list is sound whenever the mutex is free; FIFO, nothing lost;
* sockets: packets of one sender arrive in order and once, however connections
  fail, and whole unless one of their own reads or writes returned -1; all are
  handled unless a process ends or the listener hangs;
* GPU: a pool is pruned with its own bounds; nothing better is lost and every
  leaf counted on the way through the pools; the device's bound is the host's;
* interval works: an unexplored leaf is always in a work that can be given; the
  three indexes agree; the arithmetic on blocks is that of the integers;
* overlay: the complete tree of the given degree; each child registers once;
  when a peer starts, the tree and the address lists are complete.

## 2. Modules and how they correspond to the code

### `SearchPool` (abstract)

Two variables, the open subproblems `todo` and the `incumbent`.  `Evaluate` is
a leaf (`solutions::insert`), `Expand` is `decompose`, `Discard` is
`solutions::inserable` saying no.  A subproblem is an element of `Task` with a
`Bound`, and `Branch[t]` is the *set of child sets* that branching may return,
since `decompose_beginend` chooses between the beginning and the end.
`OptAssumption` says what the bound and the branching must guarantee.
`MCSearchPool` builds these constants from a flowshop instance with three jobs
on two machines, so that the assumption is evaluated on something real.

### `WorkStealing`

The CPU peers from the moment the overlay is complete.

* **One action per handler** of `cpuProcessingIncomingPackets` (`Recv...`), per
  outcome of an exploration turn (`ExploreLeaf`, `ExploreBranch`,
  `ExplorePrune`, each with the requests served before it, as
  `cpuServeWorkRequestsInWorkstealing` does), and per outcome of an idle turn
  (`KeepAsking`, `CastVote`, `RestartVote`, `DetectTermination`, each with the
  stand taken, the requests rejected and the peer asked in the same turn).
  `AskForWork` is the part they share.
* **The network** is `net[s][d]`, a queue per pair: connections are
  synchronous and one listener queues them in the order they are accepted, so
  packets of one sender stay in order; different senders interleave freely,
  which allows at least every order that `accept` can produce.
* **Batches.**  `_explore_cpu` explores up to 251 subproblems, or one while
  requests wait, before the loop looks at its packets again.  A batch is
  several turns of the model without a packet in between, so the model's
  behaviours include the program's.
* **Sharing.**  `Sharings(n)` gives each requester a non-empty part and keeps
  at least one subproblem; the exact part depends on measured speeds
  (`computing_capability`) and is left open.
* **Flags.**  `workerState` is not a variable: an idle turn is entered with an
  empty pool and `workerState` is idle exactly then.  `RTM` is only counted.
  `gotAllWRFromSlaves` is true in this mode, which has no slaves.
  `betterSolutionState` has no initial value in the code: `BetterInit` is the
  set of values it may have.  A peer that has finished handles nothing more;
  the program keeps its process for ten seconds.
* **Pool order** is left open: any subproblem of the pool may be taken.

### `WorkStealingRefinement`

Maps `WorkStealing` to `SearchPool`: the open subproblems are those in pools
*and* in work packets, the incumbent is the best schedule of any node.
`ImplementsPool` is safety, `ImplementsFairPool` adds that the nodes together
do not stop while something is open.  `FinishedIsExact` says what a user sees.

### `Branching`, `FlowshopBound` and `Explorer`

`SearchPool` and `WorkStealing` have abstract subproblems; these three modules
have the real ones, permutations with `limite1` and `limite2`.

* `Branching` is `bb_problem_calculator` and the generators of
  `decompose_beginend`, function by function: the swap, the limits, the depth
  that skips `Size - 1`, the last two jobs as two leaves, the ranks and the
  weights.
* `FlowshopBound` is `bound_flowshop::bornes_calculer` with the tables that
  `init` makes.  `quicksort` is modelled by what it returns, any order that
  `estInf` allows: jobs that tie come in any order.  What feeds only lateness,
  which the code no longer counts (`lambda1 = 0`), is left out.
* `Explorer` composes them into the rounds of `_explore_cpu`: `Evaluate`,
  `Branch` and `Prune` are its three branches on the subproblem that `top`
  yields, and `Receive` inserts a schedule from another peer between two rounds.
  `tables` holds what `init` made and never changes.  A schedule is kept by its
  cost (`wsltns`), a subproblem costs `couts_somme`, a natural number.
  `strategy` is "d" or "b"; the third, a stack, orders by the same comparator as
  "d".  `solutions::init` finds no schedule, for `save` writes the list before
  the new one is added, so the file begins with an empty list.  The limit of 250
  rounds and the sharing of work between batches belong to `WorkStealing`.

### `PacketQueue` and `FifoQueue`

`PacketQueue` has the fields of `packets` and of every container, by address;
addresses are reused as `malloc` may.  `add_packet` is two actions, since the
unlocked test of the pass can fall between the count and the links
(`adding` marks the mutex as held by the listener); `get_packet` holds the
mutex throughout and writes the count once, so it is one.  `chain` and
`atStart` are auxiliary.  `FifoQueue` is what it promises; `ImplementsQueue`
checks it, `WellLinked` and `InOrder` say why.

### `Sockets`

Extends `PacketQueue` and is the environment its packets come from.  A packet is
the number of its bytes, since a stream neither reorders nor alters them, and
`kept`, what calls that failed have left of it: all, its header, or nothing.

* A **sender** is `send_message` with its steps: `SendMessage`, `Lookup`,
  `Connect`, any of which may fail (`TryFails`: again after a sleep, and the
  process exits when `MaxAttempts` are used up), and `Write`, which puts as many
  bytes into the connection as fit.  `Dies` ends the sender's process between
  two writes, as its other thread may at any time; the connection stays,
  half-written.  When the receiving process has ended, connecting fails.  When
  it has, or when the listener has closed the connection on a spoilt packet, a
  write goes nowhere or ends the sender too (`WriteToNobody`).
* The **listener** is `receive_remote_msg`: `Accept` takes the oldest
  connection, `ReadHeader` is its single `read`, `ReadData` its loop, and only
  then `CheckHeader` tests what the first read returned: a header in two parts
  ends the process.  Until then the size is whatever `malloc` returned, and a
  connection closed before that many bytes came leaves the listener in its loop
  for ever, as in the code; so does a sender that ends in the middle.  `Deliver`
  and `Link` are `add_packet` in the two steps of `PacketQueue`.
* **Calls that return -1** are not noticed, since the number is added and
  compared as it is.  `ReadHeaderFails`: as a `size_t` it is `SIZE_MAX`, which
  is no less than a header, so that the packet is queued with a header that
  nobody has read.  The memory it asks for is anything (`AnySize`), or more than
  there is, which ends the process (`AllocateData`); the header's bytes are then
  read as data.  `ReadDataFails` and `WriteFails`: one byte back in the buffer
  and one more to go, which shifts the data, and the header too if it was not
  yet written.  A shifted read also waits for a byte that nobody sends.  The
  model follows which packets this spoils (`Spoilt`), and claims no more than
  the code gives: a packet is whole if none of its own calls failed
  (`WholeAndInOrder`), and it is handled unless the listener then hangs
  (`WaitsForever`).  What a handler does with a spoilt packet is not modelled.

### `Overlay`

The manager and the peers until the search starts: `HandleJoinRequest`, the two
broadcasts send by send, and the handlers of `JOINING_DATA`, `ADD_REQUEST`,
address list and trigger.  `sleep(15)` and `sleep(10)` are `Settled`: if
`sleepsSuffice`, which is chosen in the initial state, a broadcast waits until
the packets it is meant to wait for have been handled; otherwise it may begin at
any time.  The state that `StartsComplete` describes is the initial state of
`WorkStealing`.

### `GpuBound` and `GpuExplorer`

`GpuBound` is the bound of `bound_flowshop_gpu`: the host's own tables with
`quicksort` step by step (partition and all, so ties come in the order the code
leaves them), and the kernel for one child with its coefficients in place of
branches, its byte-wide processing times and its loop over every pair of
machines.

`GpuExplorer` extends `Explorer` and is `_explore_cpu_gpu`.  A turn collects
(`Collect`: dropped and counted, kept, or put back because its children do not
fit), sends (`Send`: all children of both ends into the slot
`current_index_gpu`) and repeats while slots are left; then `PrunePool` waits for
the stream of `starting_index_gpu`, cuts the pool into families by the first
child's depth, keeps the better end of each and handles its children by rank.
`Device` finishes any slot at any time after it was sent.  Between two turns the
peer handles packets: `ReceiveSchedule`, `Give` and `RecvWork`, where `away` is
the pool of the other peer.  In `GpuSpec` that is another GPU peer at rest; in
`MixedSpec` it is a CPU peer that runs `Explorer` on it.  The code counts a
subproblem's children up to the compile-time `MAX_NBJOBS` (20, `tree.h:31`), in
`fils` and in `FamilySize`; the model counts up to `Size`, that is, it models a
program compiled for as many jobs as the instance has, as `prune` presupposes.
`cosf` is exact for counts below 355, so for every count up to `MAX_NBJOBS`.
`Suited` is what the
theorems ask of a run; `MCGpuExplorer` assumes it, so TLC has evaluated it for
both instances.

### `BigUnsigned`, `BigInteger` and `IntervalWorks`

`BigUnsigned` is the arithmetic of `src/int` on sequences of blocks of `N` bits,
operation by operation: carries and borrows are recognised by the wrap-around
of a block, products and quotients shift and add, and leading zero blocks are
zapped.  `BigInteger` adds the sign, with quotients rounded down, and the
conversion to digits and back.

`IntervalWorks` is the coordinator: `request` updates the work a worker reports
on, then answers with that work, one whose worker is believed dead, the second
half of the largest, or the oldest once more.  `works::sizes`, `ids` and
`times` are three indexes over references to works, each with the code's
insertion and deletion.  `Save` and `Restart` are the checkpoint.  The workers
are external: `Explore` takes the interval from the left, `Die` loses it.  `late`
is the outcome of a comparison of clocks and may be either.  Once a new process
has given an identity that is in use (`reused`), requests and checkpoints are
followed no further.  `Calculates` is what the works need of the arithmetic.

### Proof modules

`Sums` (induction over the naturals, recursive functions, folds and sums, for
the next two and for `IntervalWorksProofs`), `ExplorerProofs` (the lower bound,
the device's tables and bound, branching, pruning and counting),
`GpuExplorerProofs` (the ring, and the subproblems on their way to the device and
back), `SearchPoolProofs`, `WorkStealingProofs` (types, the vote, requests and
their answers, the distributed search as the abstract one, the news of
schedules, the end with two nodes), `PacketQueueProofs` (the list and its
refinement, the sockets below it), `OverlayProofs` (the manager's tree and the
start) and `IntervalWorksProofs` (the indexes and the intervals), see section 5.
`MC*` modules hold the instances.

## 3. Runs

| run | instance | checks | distinct states |
|---|---|---|---|
| `ws_pair` | 2 nodes, 9 subproblems, two ways to branch the root, flag 0 or 1 | `TypeOK`, `TerminationSound`, `OneHolder`, `FinishedIsExact`, `ImplementsFairPool` | 38 thousand |
| `ws_star` | root with 2 children, 4 subproblems | `ImplementsPool` | 463 thousand |
| `ws_live` | 3 nodes in a line, 3 subproblems, fair | `RequestAccounting`, `ThiefHasNoWork`, `VoteAccounting`, `PositiveVotesAreDeep`, `EveryNodeFinishes` | 127 thousand |
| `ws_false_termination` | root with 2 children | `TerminationSound`, **violated** | |
| `search_pool` | flowshop, 3 jobs and 2 machines | `OptimumInReach`, `Exact` | 45 thousand |
| `explorer` | 5 instances of 4 jobs and 3 machines, depth first and best first | `TypeOK`, `NothingLost`, `NoScheduleTwice`, `LeavesAccounted`, `BoundAdmissible`, `JohnsonOptimal`, `RanksDiffer`, `TreeStaysSmall` | 6 thousand |
| `packet_queue` | 2 senders with 3 packets, 3 containers, fair | `WellLinked`, `InOrder`, `PassHandlesHalf`, `WholeAndInOrder`, `ImplementsQueue`, `EveryPacketHandled` | 671 thousand |
| `packet_pass` | the same | `PassHandlesAll`, **violated** | |
| `overlay` | 4 peers, degree 2, sleeps that suffice and sleeps that do not, fair | `CompleteTree`, `ViewsAgree`, `RegisteredOnce`, `StartsComplete`, `EveryPeerStarts` | 132 thousand |
| `gpu_explorer` | 2 instances of 4 jobs and 3 machines, 2 slots of up to 13 children, another GPU peer | `GpuTypeOK`, `BoundsBelong`, `GpuNothingLost`, `GpuLeavesAccounted`, `DeviceBoundAgrees` | 75 thousand |
| `gpu_leaf_lost` | 3 jobs and 2 machines, a CPU peer | `GpuNothingLost`, **violated** | |
| `works` | 2 workers, 6 leaves, blocks of 2 bits, one death or restart | `NoIntervalLost`, `IndexesAgree`, `ArithmeticExact` | 58 thousand up to symmetry |

**Bounds.**  No counter is cut off in `WorkStealing` or `Overlay`: requests
are limited by `MTR`, votes by the accounting, schedules by the finitely many
makespans, so the state spaces are finite as they are.  Two nodes suffice for
every interaction of two; a star lets two thieves wait at one victim, or the
victim's thief be the other's victim; a line makes an inner node vote, restart
and forward.  Nine subproblems on two levels let a bound prune what another
node found useless; three leaves allow a share to be shared again.  In `packet_queue`, `MaxPackets` bounds
the arrivals; three packets in three containers reach an empty, a single and a
full list, and reuse of an address that is still in a stale pointer.  A header
of two bytes can arrive in two parts, a connection of two holds less than the
largest packet, and one retry (`MaxAttempts = 1`) tells a connection that
recovers from one that ends the process.  One read or write of the run may
return -1 (`MaxErrors = 1`), at any point of any packet, so that there are whole
packets before it, after it and beside it; a header that is not the packet's
asks for fewer bytes than the packet has, or for more (`AnySize = {4}`, besides
the packet's own size).  `SIZE_MAX = 9` need only be more than a header.  Four peers of degree two fill one
parent and begin the next.

In `explorer` four jobs are the least with subproblems at three depths and the
last two jobs fixed together; three machines are the least with a lag between
two of them, a head and a tail.  The instances were chosen so that many
subproblems survive, both ends are branched and some jobs tie in Johnson's
order.  Any of the 24 schedules may arrive at any time.  The limits `best` and
`costv` are those of the code, far above any makespan.

In `gpu_explorer` a pool has room for the children of two families
(`pool_size = 14`), so that families of different depths share one, a
subproblem is put back, and both slots are in use when the first is read; every
slot comes round several times.  In `works` a block of two bits makes every sum
of ends carry and every size borrow; six leaves are divided twice.
`MaxFailures = 1` bounds deaths and restarts together.  `Save` keeps the last
checkpoint only, the one a restart reads.  `Base = 3` is the base of the digits
in the file, ten in the program; any base that is not a power of the block's
passes through the same divisions.

`search_pool` has `CHECK_DEADLOCK FALSE`: an exhausted pool stops; so have
`explorer`, `gpu_explorer` and `gpu_leaf_lost`, where a search that is over and
has learned the best schedule has nothing left to do, and `works`, where all
workers end when they are told that all is finished.  The other modules have an
explicit last state (`Finished`, `Running`, `Ended`) or run for ever.

Each property of a passing run has a mutant, an operator next to the definition
it replaces (comment "Mutant of ..."), that breaks the property.

**Fairness.**  In `WorkStealing` every processing thread keeps turning its
loop: weak fairness on its turn (explore or idle) and on handling the packets
of each sender, as the queue is first in, first out, and on the delivery of the
trigger.  Nothing is assumed about what a turn chooses: whom to ask, what to
share or what to explore.  The state space has cycles (ask, reject, ask again)
and `EveryNodeFinishes` holds all the same, since the vote goes on in the same
turns.  In `Sockets` every sender, the listener and the processing thread keep
running: weak fairness on the steps of each, and none on `Dies` and `CallFails`.  Failing to
connect is a sender's step like another, since it uses up an attempt.  A
pthread mutex is not fair, so weak fairness is all the processing thread has:
it is overtaken only while packets arrive, and they are finitely many.  Between
the first write and the last the sender may block on a full connection and the
listener on an empty one; `EveryPacketHandled` shows that they do not wait in a
circle, unless a process ends, or the listener waits for ever for bytes that
half a header or a failed call made it expect.  In `Overlay` each process and
the manager keep running, whichever sleeps they had.

## 4. What the runs found

* **The vote can end the search too early** (`ws_false_termination`, three nodes
  or more).  A node marks work it gives away by a negative vote
  (`node.cpp:669-672`).  A restart packet of the *previous* round that arrives
  after that resets the mark (`protocol.cpp:345-346`).  The thief's new
  positive vote may be on its way before the work reaches it, the donor votes
  positively once it has run dry, and the root announces the end with the work
  still in a packet or in the thief's pool.  With two nodes this cannot happen
  (`ws_pair`, and `TwoEndSound` for every search tree): the only restart goes
  from the root to the one other node.
* **A pass over the queue leaves packets behind** (`packet_pass`).  The comment
  at `protocol.cpp:94` says that all the waiting packets are extracted; the loop
  compares a growing index with a shrinking count and handles about half
  (`PassHandlesHalf` is what holds).  Nothing is lost, the next pass goes on.

* **A GPU peer drops complete schedules it is given** (`gpu_leaf_lost`).
  `decompose_on_cpu` (`gpu.cu:193-202`) makes children of whatever was
  collected.  A CPU peer keeps the two schedules of `leaves_generate` in its
  pool like other subproblems and may give one away; it has no open job, so it
  has no children and is neither evaluated nor counted.  Among GPU peers no pool
  holds one, and nothing is lost (`gpu_explorer`).

Met while modelling, and excluded by an assumption or followed no further:

* `id_generator` starts at 0 in a new process while loaded works keep their
  identities (`work.cpp:75`, `works.cpp:304`): after a restart from a checkpoint
  a division may give an identity that is in use.  `reused` marks it,
  `IndexesAgree` says that it needs a checkpoint, and the model stops there.
* `works::save` writes `bab.works` (`works.cpp:73`), `works::init` reads
  `data/bab.works` (`works.cpp:50`): a restart loads a checkpoint only if
  somebody moved it.  `Restart` allows both.
* A `pool_size` that cannot hold one family makes the collecting loop put the
  subproblem back for ever (`explorer.cu:166`); `PoolAssumption` excludes it.
* The bounds are read only when `cpu_operation` is work stealing
  (`explorer.cu:214`).  `EndTurn` has both cases; the runs have this one.
* `leaves_generate3` writes the depth and the end of its children to the first
  child of the whole pool (`decompose_beginend.cpp:131-137` writes to `child`, not
  to `child + *index`).  Depth first that is harmless: subproblems are collected
  deepest first, so the first family of such a pool is one of leaves itself.
  Best first it is not: with `Strategies = {"b"}` and one slot TLC finds a state
  that violates `GpuTypeOK`.  The runs are depth first.

## 5. Proofs

Each holds for every value of the constants that meet the assumptions their
modules name: in `WorkStealing` every number of nodes, every tree the manager
may build (`OverlayAssumption`: a parent has a smaller id) and every set of
subproblems.

* `WorkStealingProofs!TypeCorrect`: `Spec => []TypeOK`.  Types are not trivial
  here: that a vote sent is never 0 rests on the stand taken in the same turn,
  that a share is not empty on `Sharings`.
* `WorkStealingProofs!VotesAccounted`: `Spec => []VoteAccounting`.  The
  inductive invariant `VoteInv` adds `OnlyParentsRestart`: restart packets
  travel only from a parent to its child.  Without it a restart from elsewhere
  would reset a vote nobody has counted.
* `WorkStealingProofs!NoOutvotedNegative`: `Spec => []PositiveVotesAreDeep`.
  The invariant `DeepInv` adds that a node with a positive vote on its way or
  noted has only positive votes below it, and that a noted negative vote
  makes its parent's own stand negative until a restart.  The lemma `LateVote`
  carries it: while the vote of one child is not noted, its parent has no vote
  out, by the accounting, so a late vote unsettles nothing noted above.
* `ExplorerProofs!SearchedOnce`: `Spec => []NoScheduleTwice`, for every number of
  jobs, every instance and whatever the bound computes.  The invariant adds that
  every open subproblem is `WellFormed`; the lemma `Decomposed` shows that a
  schedule below a subproblem is below exactly one of its children.  It rests
  on `ChildCompletions` (the swap disturbs no fixed position, so a child's
  schedules are those with its job at the branched end) and, for the two last
  jobs fixed at once, on a permutation being onto.
* `ExplorerProofs!BoundBelow`: for every instance, whatever the number of jobs
  and machines, `bornes_calculer` never exceeds the makespan of a schedule below
  the subproblem, and is the makespan of a leaf.  The tables are any that
  `initialiserVar` can build, with any order that quicksort may leave; the
  subproblem is any `Frame` (a permutation and two limits).  Along the
  argument: a pair of machines gives a term (`BorneInfBelow`: the loop keeps the
  greatest term met before it stops, so it is enough that no term is too
  great); in a schedule below, the second machine ends its open jobs no earlier
  than the two-machine recurrence with lags says (`RunPair`), which is no earlier
  than in Johnson's order (`JohnsonBest`); the heads (`RunReady`) and the tails
  (`RunTail`) are what the schedule needs at least.  `JohnsonBest` uses no
  exchange of neighbours: the end on the second machine is the greatest of the
  lengths of the paths through the jobs (`ClosedForm`), and for each job where
  Johnson's order turns down, any other order has a path as long
  (`JohnsonTerm`).  `BoundType`: the cost is a natural number.
* Sums, folds and recursive functions are proved about in the same module.  The
  library's induction theorems take an operator, which the provers cannot
  instantiate; that the naturals are well-founded takes none, so every set of
  naturals has a least element (`LeastNumber`), which is induction over a set
  (`UpTo`).  From it: a function defined by recursion exists (`Recursion`), and
  what a fold over a finite set, an interval or a sequence keeps
  (`FoldOverSets`, `FoldOverPlaces`, `FoldOverPrefixes`).
* `ExplorerProofs!NoBetterScheduleLost`: `NothingLost` and `BoundAdmissible` are
  invariants, with no hypothesis on the instance: `BoundBelow` gives both that a
  branch is cut only when nothing better is below it and that a leaf is stored
  with its own makespan.  `JohnsonAlwaysOptimal`: `Spec => []JohnsonOptimal`.
* `ExplorerProofs!ExplorerTypes`, `RanksAlwaysDiffer` and `DepthFirstStaysSmall`:
  `TypeOK`, `RanksDiffer` and `TreeStaysSmall` are invariants.  They are proved
  together, as `LevelInv`: any two open subproblems part at a rank that both
  have set (`RanksApart`), so the order is strict; depth first, what comes first
  is not the shallower (`DeepestFirst`); so down to each level the pool holds the
  siblings along one path, and one fewer once something deeper is open
  (`LevelsSmall`), which adds up to the triangle.
* `ExplorerProofs!LeavesAlwaysAccounted`: `Spec => []LeavesAccounted`.  A subproblem
  weighs what its children at either end weigh together (`WeightOfChildren`), so
  branching moves a weight and pruning turns it into leaves; that no child is
  already in the pool, which a sum over a set needs, is `RanksApart`.
* `ExplorerProofs!SearchIsExact`: when an explorer's tree is exhausted, the cost
  it keeps is the least makespan of all schedules, for any instance and either
  order of the search.  `NothingLost` gives that nothing is better; that the
  cost is some schedule's (`Attained`) needs that a leaf carries its own makespan.
* `SearchPoolProofs!OptimumKept` and `SearchExact`: for every bound and
  branching that meet `OptAssumption`, the optimum is never lost and an
  exhausted pool has found it.  The invariant adds only the types.

* `WorkStealingProofs!RequestsAccounted` and `ThiefsAreIdle`: a node that
  asked for work is owed exactly one answer, others none, and it has no work
  meanwhile.  A sum over all nodes is not what a step disturbs, so the invariant
  `RequestInv` says it per peer (`OneVictim`): of a node's requests, queue
  entries and answers, none is at any peer, or exactly one at exactly one peer,
  its victim.  Each action moves that one from one place to the next.
* `WorkStealingProofs!TwoEndSound`: with two nodes and any search tree,
  `Spec => []TerminationSound`.  From three nodes on it is false (section 4), so
  `N = 2` is a hypothesis and not a bound.  `Pending` says that, unless the root's
  own vote is negative, a restart follows all the work on its way to the child,
  and that a positive vote of the child, on its way or noted, stands for an idle
  child whose work given away is ahead of the vote; `Ends`, that the end comes
  after all this and from the root alone.  It rests on the accounting of votes
  and on `ToOthers`, proved for every `N`: nobody sends to itself.
* `WorkStealingProofs!SearchRefinesPool`: `Spec => ImplementsPool`, for
  every number of nodes, overlay and search tree.  The invariant `OpenInv` adds
  to the types `Apart` (two subproblems that are open, in a pool or a packet,
  have no schedule in common) and `Known` (there is a best schedule, and none
  is flooded that nobody has).  Every step is an abstract step or a stutter: a
  turn that explores is one, sharing and receiving move subproblems, and what is
  discarded is discarded against a schedule somebody has.
* `WorkStealingProofs!WorkIsNeverCopied`: `Spec => []OneHolder`, from
  `Apart`.  `DistributedExact` carries `OptimumInReach` and `Exact` over to the
  distributed search: whatever is stolen and pruned, the optimum is stored
  somewhere or below an open subproblem.  The two assumptions are about the
  search tree and not about the nodes.  `OptAssumption`: bounds are admissible
  and children attain the optimum of their parent.  `BelowAssumption`: the children
  have schedules of their parent, no two the same one.  For the code's bound and
  branching this is `BoundAdmissible` and the lemma `Decomposed`, above.
* `WorkStealingProofs!NewsIsOnItsWay`: `Spec => []Gossip`, for every `N`.
  A better schedule is never kept from a neighbour: each parent and child has
  one as good or is being told one (`Told`), and nobody tells what it has not
  stored (`Fresh`).
* `WorkStealingProofs!TwoNodesExact`: with two nodes, `Spec =>
  []FinishedIsExact`, whatever was stolen, pruned, flooded and voted before.
  `NewsIsOnItsWay` is not enough, the news could come after the end; `LateInv`
  adds that the child's schedule is ahead of its positive vote (`RootKnows`) and
  the root's ahead of the end (`ChildKnows`).  With `TwoEndSound` no subproblem is
  open then, and with `DistributedExact` the schedule both have is optimal.
* `PacketQueueProofs!ListSound`, `ListInOrder` and `SocketsRefineQueue`:
  `SocketSpec => []WellLinked`, `[]InOrder` and `ImplementsQueue`.  The invariant
  `QueueInv` is the types, `WellLinked` and `InOrder` together: that a new
  container is linked nowhere yet follows from the first two, the number of the
  packet in it, between the two steps of `add_packet`, from the third.  Every step of the sockets leaves the list alone or is `AddCount` or
  `AddLink`.
* `PacketQueueProofs!PassTakesHalf`: `SocketSpec => []PassHandlesHalf`.  The count is
  read without the mutex; `Underway` says what can be relied on all the same:
  only the processing thread lowers it, so what waited at the start of the pass
  and has not been taken is still counted.
* `PacketQueueProofs!PacketsWholeAndInOrder`: `SocketSpec => []WholeAndInOrder`, for
  every number of senders, sizes, buffers and failed calls.  `SocketInv` has
  `Streams` (as long as all of a packet is kept, what is on its connection and
  what its sender has yet to write never exceed what the listener still expects,
  so that nothing of it is left unread), `Ordered` (a sender's packets are
  received and then queued on connections in their order) and `NoneSkipped` (each
  packet sent and not received is on a connection), the last only while neither
  end has ended.  A spoilt packet may be received before it is written, hence
  `Reached`.  What it does not say is that every packet is whole: the code does
  not give that, a packet one of whose own calls returned -1 is queued too.
  `WorkStealing` assumes that this does not happen.
* `OverlayProofs!TreeComplete` and `ManagerViewsAgree`, for every number of peers
  and every degree.  The invariant `TreeInv` has `Filling` (the parent being
  filled and how full it is follow from the number of peers that joined:
  `current_peers = current_parent_id * nchilds + current_parent_nchilds`) and
  `Placed` (the parent and height of each earlier peer, and that a parent's list
  of children is its children in the order of their ids, which makes the next
  id its new last one).
* `OverlayProofs!ChildrenRegisterOnce`: `Spec => []RegisteredOnce`, for any number
  of peers and degree and whatever the sleeps were.  `RegisterInv` adds to the
  tree that a process applies once (`Applicants`), that its joining data comes
  once, before it knows its id, and names its parent (`Announced`, `KnowsItself`),
  and that only a child registers, and with its parent (`OnlyChildren`).
* `OverlayProofs!StartIsComplete`: `Spec => []StartsComplete`.  `StartInv` adds the
  phases of the manager, that whoever joined has its id or mail with it
  (`Reached`), and what the sleeps are trusted for, from one send to the next
  (`Slept`): it is guarded by `sleepsSuffice`, as the property is.  Without the
  sleeps nothing in the code makes a peer wait for its children.
* `GpuExplorerProofs!BoundsAreTheirs`: `GpuSpec => []BoundsBelong`, for every ring
  and pool size and instance.  The invariant `RingInv` has `Consecutive` (the
  pools sent fill the slots from `starting_index_gpu` up to
  `current_index_gpu`, round the end of the ring, and never more than there are)
  and `Filled` (a slot in use holds the children it was sent with and, once the
  device has finished, their bounds).  It needs that a turn collects only while
  a slot is free, which is what `Turn` tests.
* `ExplorerProofs!DeviceTables`: for every instance, the tables that the host
  makes for the device are some that `initialiserVar` could have made.  Most of it
  is that `quicksort_g` sorts.  Its two indices start outside the range and
  swap what they stop at: `ScanStops` has that each finds a place to stop, and not
  beyond the other by more than the pivot, `TradeScans` what a swap keeps,
  `Met` and `RoundScans` that they have crossed after as many rounds as there are
  jobs; `Partitioned`, that what is left of the cut never sorts after what is
  right of it and that both halves are shorter than the whole, on which the
  recursion rests (`SortExists`, `CallsSort`).
* `ExplorerProofs!DeviceBound`: for every subproblem, the device's bound is the
  host's, whichever way either sorted its ties, if times are below 256 (a block
  keeps bytes) and no schedule takes longer than `leMeilleur` (the host's loop over
  pairs ends there, the device's does not).  The order of ties cannot matter,
  for each end on the second machine is no later than the other (`JohnsonBest`,
  twice); without jobs fixed at the end the heuristic's second machine alone
  counts; with some, its first machine has all the open jobs in any order.
* `GpuExplorerProofs!GpuTypes`, `DeviceAgrees`, `NothingLostOnDevice` and
  `LeavesOnDeviceAccounted`: `GpuSpec => []GpuTypeOK`, `[]DeviceBoundAgrees`,
  `[]GpuNothingLost` and `[]GpuLeavesAccounted`, for any number of jobs and
  machines, any ring and pool size and any instances, if `Suited`: the search is
  depth first (best first `GpuTypeOK` is false, see section 4), `cpu_operation` is
  work stealing (else nothing reads the bounds), times are below 256, and every
  makespan is at least 1 and at most `costv` and `leMeilleur`, the values that
  stand for no schedule.  They are about GPU peers; with a CPU peer
  `GpuNothingLost` is false, as `gpu_leaf_lost` shows.

  The children in a pool carry no bound, overlap with those of the other end and
  may have a depth that is not theirs, so no invariant can be about them alone.
  `GpuInv` says where they come from instead.  `Located(D)` names for each pool
  sent the set `D[k]` of subproblems it was made of: the pool is their families
  one after the other, in an order in which none is deeper than the one before
  (`Fathered`, `Laid`); no subproblem is a father twice or also being collected
  (`Underway`); tree, fathers, collected subproblems and the other peer's pool
  together are `Whole`: distinct subproblems with admissible bounds, that part
  before the ranks that nobody has set, whose completions are all schedules
  better than the best known one, and whose weights with the leaves counted make
  all schedules; and while a turn collects, all that was taken comes before what
  is left (`Foremost`).

  Three things carry the steps.  `ChildrenLaid`: the fold of `Children` over the
  fathers lays their families side by side.  Here depth first is needed:
  `leaves_generate3` sets fields of the pool's first child, which is right only
  if the first family is one of leaves whenever any is.  `FamiliesAre`: `Families`
  cuts at the same places, though it sees the depth of one child of each only.
  `FamilyDone`: one family handled is its father replaced by the children of the
  better end, the bounded ones counted (`OpenHandled`, `LeavesHandled`, for any
  order that agrees with the ranks), so `PrunePool` keeps `Whole` family by family
  (`PoolPruned`).  That the bounds it reads are the children's is
  `BoundsAreTheirs`, and that they are admissible `DeviceBound` with `BoundBelow`.

* `IntervalWorksProofs!WorksAgree` and `NothingLostInWorks`: `Spec =>
  []IndexesAgree` and `Spec => []NoIntervalLost`, for any number of jobs, workers,
  deaths and restarts, if `Calculates`: up to the number of leaves the operations
  on blocks are those of the integers, and a number that is written is read again.
  It is what the prover cannot know of the recursion over blocks, a statement about
  constants only; `MCWorks` assumes it, so TLC has evaluated it, and TLC has found
  it true for 24 and 120 leaves too, in blocks of three and four bits.

  `WorksInv` is inductive (TLC has it on the instance of `works`, and with one
  worker and two failures).  It says that the works are `Sound`; that every
  unexplored leaf is in one of them; that a worker is `Ahead` of the work of its
  identity, which ends no later than the worker's copy and whose numbers up to where
  the worker stands are explored; and that a checkpoint may be read (`TextsOK`:
  its intervals hold every unexplored leaf, its identities differ and its sizes add
  up to at most all leaves).  `Ahead` is why the intersection in `_update` drops only
  explored numbers, even when the work was divided meanwhile or given to another
  worker too.  Without a checkpoint every identity in use is at most the last one
  given, so none is given twice.

  Within a request the indexes are out of step, so `Indexed(s, Z, F, I, T)` says
  which works each of them holds, and one lemma per function of `works.cpp` what it
  does to the four sets (`SizesDelete`, `TimesUpdate`, `IdInsert` ...).  The order of
  the calls matters: an interval changes before `sizes_delete` looks its entry up,
  which succeeds because the entry is found by the size that was noted.
  `RemovedOnce` and `InsertedOnce` are what a list without repetitions becomes,
  `TotalRenamed` that the sizes in a checkpoint, written in the order of
  identities, add up to the total.

Only model-checked:

* the liveness properties `EveryNodeFinishes`, `EveryPacketHandled` and
  `EveryPeerStarts` and the fairness that `ImplementsFairPool` adds to
  `ImplementsPool`: they need `ENABLED`, which is out of the prover's reach;
* the arithmetic on blocks (`ArithmeticExact`, and `Calculates`, which the proofs of
  the works start from): its carries ripple through a recursion over blocks.

## 6. Not modelled

* **The GPU master and its CPU slaves.**  The mode is unfinished, there is no
  behaviour in which it does its work.  A GPU peer registers slaves
  (`protocol.cpp:687`) and queues their requests (`protocol.cpp:801`), but
  `serveWorkRequestsInCpuPruneDecompose` (`node.cpp:733`), which would answer
  them, is called nowhere: the branch that would lead to it is commented out
  (`explorer.cu:256`).  A slave that had work would be set to exploring and wait
  to be idle again (`protocol.cpp:597-602`); the thread that would explore and
  set it idle, `cpu_exploration_bootstrap` (`protocol.cpp:554`), is never
  started.  A slave's `MTS`, which decides whether the master still waits for one
  (`protocol.cpp:746`), has no initial value (`node.cpp:1097-1110`).
* A GPU peer's own requests and votes: `protocol.cpp` repeats for it what the
  CPU peer does, which `WorkStealing` models.  Several devices in one process,
  `cudaMemcpy` and block shapes.
* The effect of an ended process or a spoilt packet on the search: `Sockets` has
  failures and ends, `WorkStealing` runs while all processes live and packets are
  whole.  A request to a peer that has
  finished is there one that nobody reads.
* Operations of the works that nothing calls (`range_get`, union, subtraction,
  `pbab::divideWork`) and the bit operations of the big integers.
* The loop of the host bound's `quicksort` (the device's copy of it is modelled
  step by step), the reading of an instance, and widths of the host's integers:
  makespans are far below 2^31.
* Memory: leaks, the decremented first iterator (`solutions.cpp:58`), the heap
  of the library.
* The manager's running-time limit and its own copy of the packets queue.

## 7. Plan

The most important behaviour first.  Done:

1. `SearchPool`, `WorkStealing`, `WorkStealingRefinement`: the search.
2. `PacketQueue` over `FifoQueue`: the threads of a peer.
3. `Overlay`: how the initial state of 1 comes about.
4. Proofs of types, of the vote and of the abstract search.
5. `Branching`, `FlowshopBound`, `Explorer`: one peer down to the permutations.
6. Proofs that branching covers every schedule once and pruning loses none.
7. `Sockets` under 2: connections, retries, partial and failed reads and writes,
   processes that end.
8. `GpuBound` and `GpuExplorer`: the ring of pools and the device.
9. `BigUnsigned`, `BigInteger`, `IntervalWorks`: the works and the checkpoint.
10. Proofs of the requests, the queue through the sockets, the manager's tree
    and the ring.
11. Proofs that the distributed search is the abstract one, of the news, of the
    end with two nodes, of the packets through the sockets, of the registration
    and the start, and of the pool's order.

12. Proofs about the lower bound, from the recurrence of a schedule to what the
    loop over pairs of machines returns, and about the count of leaves.
13. Proofs that the end of an explorer's search is optimal (`Explorer` is no
    refinement of `SearchPool`, which nothing reaches from outside), that the
    device sorts, and that its bound is the host's.
14. Proofs that a family survives the pool, the device and `Families`: nothing is
    lost or counted twice on the GPU's side.
15. Proofs that the indexes of the works agree and no interval is lost.

Left:

16. `WorkStealing` over `Sockets`' failures: a search whose peers may end.
