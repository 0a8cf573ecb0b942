----------------------------- MODULE GpuExplorer -----------------------------
(***************************************************************************)
(* The explorer of a GPU peer: _explore_cpu_gpu with gpu::decompose_on_cpu *)
(* and gpu::prune.  A turn collects subproblems, writes all their children *)
(* at both ends into a slot of a ring, starts the device on the slot's     *)
(* stream, and repeats while slots are left; then it waits for the         *)
(* streams in the order of the ring, cuts each pool back into families and *)
(* keeps the better end of each.  Between two turns the peer handles       *)
(* packets: it learns of schedules, gives subproblems away and, when it    *)
(* has none, receives some of another peer's.                              *)
(***************************************************************************)
EXTENDS Explorer, GpuBound

CONSTANTS
    pool_size,      \* gpu::pool_size, --pool_size or 8192
    MAX_SIZE_INPUTQUEUE_TO_GPU,     \* the number of slots and streams
    cpu_operation   \* --cpu_operation; only work stealing reads the bounds

ASSUME PoolAssumption ==        \* a family of the root fits in a pool
    /\ pool_size \in Nat /\ pool_size - 1 > 2 * Size
    /\ MAX_SIZE_INPUTQUEUE_TO_GPU \in Nat \ {0}
    /\ cpu_operation \in -1 .. 4

CPU_WORKSTEALING == 0

VARIABLES
    pc,                     \* where _explore_cpu_gpu is, "packets" outside
    fathers,                \* the subproblems collected for the next pool
    tables_g,               \* the device's copy of the instance and its tables
    pool_to_evaluate_h,     \* slot |-> the children in pinned memory
    bounds_h,               \* slot |-> the bounds copied back
    stream,                 \* the slots whose stream is still at work
    readyPoolToGPU,         \* the pools sent, oldest first
    current_index_gpu,      \* the slot of the next pool
    starting_index_gpu,     \* the slot whose bounds are read next
    explored_leaves,
    away                    \* the other peer's open subproblems

ring == <<pool_to_evaluate_h, bounds_h, stream, readyPoolToGPU,
          current_index_gpu, starting_index_gpu>>
gpuVars == <<vars, pc, fathers, tables_g, ring, explored_leaves, away>>

Slot == 0 .. MAX_SIZE_INPUTQUEUE_TO_GPU - 1
NextSlot(i) == (i + 1) % MAX_SIZE_INPUTQUEUE_TO_GPU

(* This peer has the root, the other one nothing. *)
GpuInit ==
    /\ Init
    /\ tables_g = initialiserVar_g(tables.tempsJob)
    /\ away = {}
    /\ pc = "packets"
    /\ fathers = <<>>
    /\ pool_to_evaluate_h = [i \in Slot |-> <<>>]
    /\ bounds_h = [i \in Slot |-> <<>>]
    /\ stream = {}
    /\ readyPoolToGPU = <<>>
    /\ current_index_gpu = 0
    /\ starting_index_gpu = 0
    /\ explored_leaves = 0

-----------------------------------------------------------------------------
(* Collecting.  A subproblem that is no better than the best schedule is  *)
(* dropped and counted; one whose children do not fit goes back.          *)
bound(p) == p.couts_somme < cout

(* problems::push_back1 with max = pool_size - 1.  Here and in FamilySize  *)
(* the code counts up to MAX_NBJOBS (20, tree.h:31) where the model has    *)
(* the instance's Size: it is of a program compiled for as many jobs as    *)
(* the instance has, without which prune's families would not come out.    *)
fils(p) == 2 * (Size - p.depth)
size1 == MapThenSumSet(LAMBDA k : fils(fathers[k]), DOMAIN fathers)
Fits(p) == size1 + fils(p) < pool_size - 1

StartTurn ==
    /\ pc = "packets"
    /\ pc' = "turn"
    /\ UNCHANGED <<vars, fathers, tables_g, ring, explored_leaves, away>>

(* Mutant of Turn: one more pool than there are slots. *)
TurnOneMore ==
    /\ pc = "turn"
    /\ pc' = IF tree # {} /\ Len(readyPoolToGPU) <= MAX_SIZE_INPUTQUEUE_TO_GPU
             THEN "collect" ELSE "process"
    /\ UNCHANGED <<vars, fathers, tables_g, ring, explored_leaves, away>>

(* The outer loop's test. *)
Turn ==
    /\ pc = "turn"
    /\ pc' = IF tree # {} /\ Len(readyPoolToGPU) < MAX_SIZE_INPUTQUEUE_TO_GPU
             THEN "collect" ELSE "process"
    /\ UNCHANGED <<vars, fathers, tables_g, ring, explored_leaves, away>>

CollectDrop(p) ==
    /\ ~bound(p)
    /\ tree' = tree \ {p}
    /\ explored_leaves' = explored_leaves + weights[p.depth]
    /\ UNCHANGED <<pc, fathers>>

CollectKeep(p) ==
    /\ bound(p) /\ Fits(p)
    /\ fathers' = Append(fathers, p)
    /\ tree' = tree \ {p}
    /\ UNCHANGED <<pc, explored_leaves>>

(* Mutant of CollectFull: the subproblem that did not fit does not go back. *)
CollectFullForgotten(p) ==
    /\ bound(p) /\ ~Fits(p)
    /\ pc' = "send"
    /\ tree' = tree \ {p}
    /\ UNCHANGED <<fathers, explored_leaves>>

CollectFull(p) ==
    /\ bound(p) /\ ~Fits(p)
    /\ pc' = "send"
    /\ UNCHANGED <<tree, fathers, explored_leaves>>

CollectNone ==
    /\ tree = {}
    /\ pc' = "send"
    /\ UNCHANGED <<tree, fathers, explored_leaves>>

Collect ==
    /\ pc = "collect"
    /\ CollectNone \/ \E p \in tree : top(p) /\ (CollectDrop(p) \/ CollectKeep(p) \/ CollectFull(p))
    /\ UNCHANGED <<tables, strategy, wsltns, cout, cpu_explored_leaves, tables_g, ring, away>>

-----------------------------------------------------------------------------
(* Sending.  problems_generate3 writes one child per open job; *)
(* leaves_generate3 writes two schedules, and sets the depth and the end  *)
(* of the first child of the pool instead of theirs.                      *)
Child(father, j, begin_end) ==
    [problem |-> create_raw_problem3(father, j, begin_end), begin_end |-> begin_end]

problems_generate3(pool, father, begin_end) ==
    pool \o [k \in 1 .. Cardinality(Free(father)) |-> Child(father, father.limite1 + k, begin_end)]

leaves_generate3(pool, father) ==
    LET two == pool \o <<Child(father, father.limite1 + 1, BEGIN_ORDER),
                         Child(father, father.limite1 + 2, BEGIN_ORDER)>>
    IN  [two EXCEPT ![1].problem.depth = Size, ![1].begin_end = BEGIN_ORDER]

Children(pool, father) ==
    IF simple(father) THEN leaves_generate3(pool, father)
    ELSE problems_generate3(problems_generate3(pool, father, BEGIN_ORDER), father, END_ORDER)

AllChildren == FoldLeft(Children, <<>>, fathers)

(* decompose_on_cpu: nothing is sent when there are no children. *)
Send ==
    LET pool == AllChildren
    IN  /\ pc = "send"
        /\ IF pool = <<>> THEN UNCHANGED ring
           ELSE /\ pool_to_evaluate_h' = [pool_to_evaluate_h EXCEPT ![current_index_gpu] = pool]
                /\ stream' = stream \cup {current_index_gpu}
                /\ readyPoolToGPU' = Append(readyPoolToGPU,
                      [children_d |-> current_index_gpu, children_size |-> Len(pool)])
                /\ current_index_gpu' = NextSlot(current_index_gpu)
                /\ UNCHANGED <<bounds_h, starting_index_gpu>>
        /\ fathers' = <<>>
        /\ pc' = "turn"
        /\ UNCHANGED <<vars, tables_g, explored_leaves, away>>

(* The stream copies the pool in, evaluates it and copies the bounds out, *)
(* at any time after it was sent.                                         *)
Bounds(pool) == [k \in DOMAIN pool |-> Evaluate_ON_GPU(tables_g, pool[k].problem)]

Device(i) ==
    /\ i \in stream
    /\ bounds_h' = [bounds_h EXCEPT ![i] = Bounds(pool_to_evaluate_h[i])]
    /\ stream' = stream \ {i}
    /\ UNCHANGED <<vars, pc, fathers, tables_g, pool_to_evaluate_h, readyPoolToGPU,
                   current_index_gpu, starting_index_gpu, explored_leaves, away>>

-----------------------------------------------------------------------------
(* Pruning.  Mutant of FamilySize: the second end's children are left out. *)
FamilySizeOneEnd(child) == Size + 1 - child.problem.depth

(* prune recognises a family by its first child's depth alone; MAX_NBJOBS  *)
(* is Size, as in fils.                                                    *)
FamilySize(child) == (Size + 1 - child.problem.depth) * 2

FamilyAt(pool, k) == SubSeq(pool, k, k + FamilySize(pool[k]) - 1)

Families(pool) ==
    LET cut(acc, k) ==
            IF k < acc.next THEN acc
            ELSE [next |-> k + FamilySize(pool[k]),
                  families |-> Append(acc.families, FamilyAt(pool, k))]
    IN  FoldLeft(cut, [next |-> 1, families |-> <<>>], [k \in 1 .. Len(pool) |-> k]).families

(* The end that choise keeps; both ends rank their siblings alike. *)
Problems(family, begin_end) ==
    {family[k].problem : k \in {l \in DOMAIN family : family[l].begin_end = begin_end}}
Kept(family) ==
    IF choise(Problems(family, BEGIN_ORDER), Problems(family, END_ORDER))
    THEN BEGIN_ORDER ELSE END_ORDER

(* One child of the end that is kept: a schedule is inserted, an open      *)
(* subproblem is pushed or dropped.  The beginning asks tree::bound, the   *)
(* end solutions::inserable.                                               *)
Handled(acc, p, begin_end) ==
    LET better == \A i \in acc.wsltns : ~(i <= p.couts_somme)
        keep == IF begin_end = BEGIN_ORDER THEN p.couts_somme < acc.cout ELSE better
    IN  IF leaf(p)
        THEN [acc EXCEPT !.wsltns = IF better THEN {p.couts_somme} ELSE @,
                         !.cout = IF better /\ @ > p.couts_somme THEN p.couts_somme ELSE @,
                         !.explored = @ + weights[p.depth]]
        ELSE IF keep THEN [acc EXCEPT !.tree = @ \cup {p}]
        ELSE [acc EXCEPT !.explored = @ + weights[p.depth]]

FamilyPruned(acc, family) ==
    LET end == Kept(family)
    IN  FoldSet(LAMBDA p, a : Handled(a, p, end), acc, Ranked(Problems(family, end), 0))

Pruned(pool) ==
    FoldLeft(FamilyPruned,
             [wsltns |-> wsltns, cout |-> cout, tree |-> tree, explored |-> explored_leaves],
             Families(pool))

(* The oldest pool is paired with the bounds of the next stream, once that *)
(* stream is done.                                                         *)
PrunePool ==
    LET pp == Head(readyPoolToGPU)
        children == pool_to_evaluate_h[pp.children_d]
        bounds == bounds_h[starting_index_gpu]
        result == Pruned([k \in 1 .. pp.children_size |->
                            [children[k] EXCEPT !.problem.couts_somme = bounds[k]]])
    IN  /\ pc = "process"
        /\ cpu_operation = CPU_WORKSTEALING
        /\ readyPoolToGPU # <<>>
        /\ starting_index_gpu \notin stream
        /\ wsltns' = result.wsltns
        /\ cout' = result.cout
        /\ tree' = result.tree
        /\ explored_leaves' = result.explored
        /\ readyPoolToGPU' = Tail(readyPoolToGPU)
        /\ starting_index_gpu' = NextSlot(starting_index_gpu)
        /\ UNCHANGED <<tables, strategy, cpu_explored_leaves, pc, fathers, tables_g,
                       pool_to_evaluate_h, bounds_h, stream, current_index_gpu, away>>

EndTurn ==
    /\ pc = "process"
    /\ cpu_operation = CPU_WORKSTEALING => readyPoolToGPU = <<>>
    /\ pc' = "packets"
    /\ UNCHANGED <<vars, fathers, tables_g, ring, explored_leaves, away>>

-----------------------------------------------------------------------------
(* Between two turns: packets.  A donor gives subproblems off the top of  *)
(* its pool and keeps at least one.                                       *)
Ahead(p, q) == IF strategy = "d" THEN Deeper(p, q) ELSE p.couts_somme <= q.couts_somme
Shares(pool) ==
    {given \in SUBSET pool \ {{}, pool} : \A p \in given, q \in pool \ given : Ahead(p, q)}

ReceiveSchedule ==
    /\ pc = "packets"
    /\ Receive
    /\ UNCHANGED <<pc, fathers, tables_g, ring, explored_leaves, away>>

(* gpuServeWorkRequestsInWorkstealing, for a thief without work. *)
Give ==
    /\ pc = "packets"
    /\ away = {}
    /\ \E given \in Shares(tree) : tree' = tree \ given /\ away' = given
    /\ UNCHANGED <<tables, strategy, wsltns, cout, cpu_explored_leaves, pc, fathers,
                   tables_g, ring, explored_leaves>>

(* recvWorkInWorkStealingGPU3, when this peer has no work. *)
RecvWork ==
    /\ pc = "packets"
    /\ tree = {}
    /\ \E given \in Shares(away) : tree' = given /\ away' = away \ given
    /\ UNCHANGED <<tables, strategy, wsltns, cout, cpu_explored_leaves, pc, fathers,
                   tables_g, ring, explored_leaves>>

GpuNext ==
    \/ StartTurn \/ Turn \/ Collect \/ Send \/ PrunePool \/ EndTurn
    \/ \E i \in Slot : Device(i)
    \/ ReceiveSchedule \/ Give \/ RecvWork

(* Among GPU peers: the other peer's pool holds no schedule. *)
GpuSpec == GpuInit /\ [][GpuNext]_gpuVars

(* With a CPU peer, that searches its pool; both peers learn of its *)
(* schedules at once.                                               *)
Other == INSTANCE Explorer WITH tree <- away

CpuTurn ==
    /\ Other!Explore
    /\ UNCHANGED <<tree, pc, fathers, tables_g, ring, explored_leaves>>

MixedSpec == GpuInit /\ [][GpuNext \/ CpuTurn]_gpuVars

-----------------------------------------------------------------------------
(* The children in the pools that were sent and not read yet. *)
Pool(k) == pool_to_evaluate_h[readyPoolToGPU[k].children_d]
Sent == UNION {{Pool(k)[j] : j \in DOMAIN Pool(k)} : k \in DOMAIN readyPoolToGPU}
Open == tree \cup away \cup {fathers[k] : k \in DOMAIN fathers}

(* The fields of every subproblem agree as problem.h describes them, those *)
(* of the children in the pools too, and there are no more pools than      *)
(* slots.  (The type invariant.)                                           *)
GpuTypeOK ==
    /\ pc \in {"packets", "turn", "collect", "send", "process"}
    /\ current_index_gpu \in Slot /\ starting_index_gpu \in Slot /\ stream \subseteq Slot
    /\ Len(readyPoolToGPU) <= MAX_SIZE_INPUTQUEUE_TO_GPU
    /\ \A p \in Open \cup {c.problem : c \in Sent} : WellFormed(p)
    /\ \A cost \in wsltns : cost = cout

(* The ring pairs every pool with its own bounds: when the stream that the *)
(* oldest pool waits for is done, the bounds that prune reads are those of *)
(* the pool's children, as many as it counts.  Two indices and a queue     *)
(* have to move in step for it, and no slot may be written while it is     *)
(* still to be read.                                                       *)
BoundsBelong ==
    readyPoolToGPU # <<>> /\ starting_index_gpu \notin stream =>
        /\ bounds_h[starting_index_gpu] = Bounds(Pool(1))
        /\ readyPoolToGPU[1].children_size = Len(Pool(1))

(* No schedule better than the best one known is lost on its way through    *)
(* the pools: it completes a subproblem of a peer, one that is being       *)
(* collected, or a child in a pool.                                        *)
GpuNothingLost ==
    \A s \in Schedule :
        \/ \E p \in Open \cup {c.problem : c \in Sent} : Completes(s, p)
        \/ cout <= criteres_calculer(tables, s)

(* The leaves that ~tree reports: those counted so far and those below the *)
(* open subproblems are all the schedules; of a family in a pool, either   *)
(* end stands for the whole.                                               *)
GpuLeavesAccounted ==
    LET sent(k) ==
            LET begins == {j \in 1 .. Len(Pool(k)) : Pool(k)[j].begin_end = BEGIN_ORDER}
            IN  SumFunction([j \in begins |-> weights[Pool(k)[j].problem.depth]])
    IN  explored_leaves + cpu_explored_leaves
            + SumFunction([p \in tree |-> weights[p.depth]])
            + SumFunction([p \in away |-> weights[p.depth]])
            + SumFunction([k \in DOMAIN fathers |-> weights[fathers[k].depth]])
            + SumFunction([k \in DOMAIN readyPoolToGPU |-> sent(k)]) = weights[0]

(* The device's bound of a child is the host's, though its tables were     *)
(* sorted apart, it has no branches and its times are bytes: peers of both *)
(* kinds cut the same subtrees, and a schedule costs its makespan.         *)
DeviceBoundAgrees ==
    \A c \in Sent : Evaluate_ON_GPU(tables_g, c.problem) = bornes_calculer(tables, c.problem)

-----------------------------------------------------------------------------
(* What a run of a GPU peer is given: it searches depth first and steals   *)
(* work, the device can agree with the host, and every schedule takes some *)
(* time, less than the first value of cout.                                *)
Suits(t) == Short(t) /\ \A s \in Schedule : criteres_calculer(t, s) \in 1 .. costv

Suited ==
    /\ Strategies = {"d"}
    /\ cpu_operation = CPU_WORKSTEALING
    /\ \A tempsJob \in Instances : \A t \in initialiserVar(tempsJob) : Bytes(t) /\ Suits(t)
=============================================================================
