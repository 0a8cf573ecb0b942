--------------------------- MODULE IntervalWorks ---------------------------
(***************************************************************************)
(* The coordinator's works: the leaves of the search tree are numbered     *)
(* from 0, a work is an interval of numbers that are still to be explored, *)
(* and works::request exchanges a worker's interval for what it is to do   *)
(* next.  Works are indexed by identity, by size and by the time of their  *)
(* last exchange; a checkpoint writes them to a file.                      *)
(*                                                                         *)
(* The workers that call request are not in the repository any more: here  *)
(* a worker explores its interval from the left, asks when it likes, and   *)
(* may die.                                                                *)
(***************************************************************************)
EXTENDS BigInteger, FiniteSets, SequencesExt

CONSTANTS Size,                                 \* pbb->size, the number of jobs
          Worker,
          MaxFailures                           \* bound: deaths and restarts

(* The number of jobs fits into a block, as BigInt needs.                  *)
ASSUME SizeAssumption == Size \in 2 .. U!Radix - 1

VARIABLES ws,           \* the works object, and id_generator
          holds,        \* worker |-> its copy of a work
          explored,     \* the numbers somebody has explored
          file,         \* <<>> before the first checkpoint, then <<works>>
          reused,       \* an identity was given that somebody still uses
          loaded,       \* the coordinator began with a checkpoint
          failures      \* workers that died, and restarts

vars == <<ws, holds, explored, file, reused, loaded, failures>>

(* weights: the number of leaves below a subproblem of each depth. *)
depths[d \in 0 .. Size] ==
    IF d >= Size - 1 THEN BigInt(1) ELSE multiply(depths[d + 1], BigInt(Size - d))

Leaves == 0 .. Value(depths[0]) - 1

-----------------------------------------------------------------------------
(* Class work.  Its time is 0 or that of an exchange, of which only the    *)
(* order matters; pbb is not set by the constructor that reads a stream.   *)

size_of(w) == IF Less(w.begin, w.end) THEN subtract(w.end, w.begin) ELSE BigInt(0)
empty(w) == ~Less(w.begin, w.end)
big(w) == Less(BigInt(2), size_of(w))

(* Has the worker been silent for longer than 1.2 periods?  Always when    *)
(* the time is 0; for a work without pbb the period is any memory.         *)
fault(w, late) == late \/ (w.pbb /\ w.time = 0)

intersection(w, other) == [w EXCEPT !.begin = Larger(@, other.begin),
                                    !.end = Smaller(@, other.end)]

(* Mutant of Cut: the second half begins one number late. *)
CutBetween(coupe) == [first |-> coupe, second |-> increment(coupe)]

(* work::divide: where the first half ends and where the second begins. *)
Middle(w) == divideWithRemainder(add(w.begin, w.end), BigInt(2)).q
Cut(coupe) == [first |-> coupe, second |-> coupe]

Numbers(w) == Value(w.begin) .. Value(w.end) - 1

(* A work in a stream: its ends in digits, and its identity. *)
Written(w) == [begin |-> TextOf(w.begin), end |-> TextOf(w.end), id |-> w.id]
Read(text) == [begin |-> NumberOf(text.begin), end |-> NumberOf(text.end), id |-> text.id]

Copy(w) == Read(Written(w))                     \* work::operator=

Fresh == [begin |-> BigInt(0), end |-> BigInt(0), id |-> -1]
set_finished(w) == [w EXCEPT !.begin = BigInt(-1), !.end = BigInt(-1)]
finished(w) == w.begin = BigInt(-1)

-----------------------------------------------------------------------------
(* Class works: its three indexes hold references to works, sizes from the *)
(* largest, times from the longest without an exchange.                    *)

NULL == 0
NoWorks == [work |-> <<>>, ids |-> <<>>, sizes |-> <<>>, times |-> <<>>,
            size |-> BigInt(0), id_generator |-> 0]

Refs(s) == DOMAIN s.work
NewRef(s) == Min((1 .. Cardinality(Refs(s)) + 1) \ Refs(s))
With(f, x, y) == [z \in DOMAIN f \cup {x} |-> IF z = x THEN y ELSE f[z]]

InsertSized(s, r, size) ==
    LET larger == {n \in DOMAIN s.sizes : ~Less(s.sizes[n].size, size)}
    IN  [s EXCEPT !.work[r].size = size,
                  !.size = add(@, size),
                  !.sizes = InsertAt(@, Cardinality(larger) + 1, [size |-> size, ref |-> r])]

sizes_insert(s, r) == InsertSized(s, r, size_of(s.work[r]))

sizes_delete(s, r) ==
    LET entry == [size |-> s.work[r].size, ref |-> r]
    IN  IF entry \in ToSet(s.sizes)
        THEN [s EXCEPT !.size = subtract(@, entry.size), !.sizes = RemoveFirst(@, entry)]
        ELSE s

(* Mutant of sizes_update: the new size is noted beside the old one. *)
sizes_updateKeepsOld(s, r) == sizes_insert(s, r)

sizes_update(s, r) == sizes_insert(sizes_delete(s, r), r)

(* An identity that is in use keeps its work. *)
id_insert(s, r) ==
    IF s.work[r].id \in DOMAIN s.ids THEN s ELSE [s EXCEPT !.ids = With(@, s.work[r].id, r)]

id_delete(s, r) == [s EXCEPT !.ids = Restrict(@, DOMAIN @ \ {s.work[r].id})]

times_insert(s, r, is_fault) ==
    [s EXCEPT !.work[r].time = IF is_fault THEN 0 ELSE 1, !.times = Append(@, r)]

times_delete(s, r) == [s EXCEPT !.times = RemoveFirst(@, r)]
times_update(s, r) == times_insert(times_delete(s, r), r, FALSE)

work_free(s, r) == [s EXCEPT !.work = Restrict(@, DOMAIN @ \ {r})]

(* new work(begin, end, pbb) takes the next identity. *)
NewWork(s, begin, end, pbb) ==
    LET w == [begin |-> begin, end |-> end, size |-> BigInt(0), time |-> 0,
              id |-> s.id_generator + 1, pbb |-> pbb]
    IN  [s EXCEPT !.work = With(@, NewRef(s), w), !.id_generator = @ + 1]

-----------------------------------------------------------------------------
(* What a request does, and which work it answers with.                    *)

(* The worker's progress shortens the work of its identity. *)
Updated(met, r) ==
    IF empty(met.work[r])
    THEN [s |-> work_free(id_delete(sizes_delete(times_delete(met, r), r), r), r), ref |-> NULL]
    ELSE [s |-> sizes_update(times_update(met, r), r), ref |-> r]

_update(s, w) ==
    LET r == s.ids[w.id]
    IN  IF w.id \notin DOMAIN s.ids THEN [s |-> s, ref |-> NULL]
        ELSE Updated([s EXCEPT !.work[r] = intersection(@, w)], r)

times_oldest(s) == Head(s.times)
times_fault(s, late) == IF fault(s.work[times_oldest(s)], late) THEN times_oldest(s) ELSE NULL
sizes_big(s) == IF big(s.work[Head(s.sizes).ref]) THEN Head(s.sizes).ref ELSE NULL

(* A work whose worker is believed dead is given again. *)
_fault(s, late) ==
    LET r == times_fault(s, late)
    IN  [s |-> IF r = NULL THEN s ELSE times_update(s, r), ref |-> r]

(* The largest work is divided and its second half given. *)
Divided(s, r, cut) ==
    [NewWork(s, cut.second, s.work[r].end, s.work[r].pbb) EXCEPT !.work[r].end = cut.first]

_big(s) ==
    LET r1 == sizes_big(s)
        r2 == NewRef(s)
        divided == Divided(s, r1, Cut(Middle(s.work[r1])))
    IN  IF r1 = NULL THEN [s |-> s, ref |-> NULL]
        ELSE [s |-> times_insert(id_insert(sizes_insert(sizes_update(divided, r1), r2), r2),
                                 r2, FALSE),
              ref |-> r2]

(* The work that was longest without an exchange is given twice. *)
_oldest(s) == [s |-> times_update(s, times_oldest(s)), ref |-> times_oldest(s)]

Or(answer, other) == IF answer.ref # NULL THEN answer ELSE other

Found(updated, late) ==
    IF DOMAIN updated.s.ids = {} THEN [s |-> updated.s, ref |-> NULL]
    ELSE Or(updated, Or(_fault(updated.s, late), Or(_big(updated.s), _oldest(updated.s))))

request(s, w, late) == Found(_update(s, w), late)

(* What it leaves in the worker's copy. *)
Answered(answer, w) ==
    IF answer.ref = NULL THEN set_finished(w) ELSE Copy(answer.s.work[answer.ref])

-----------------------------------------------------------------------------
(* works::init without a file: all the leaves, to be given at once. *)
AllLeaves ==
    times_insert(sizes_insert(id_insert(
        NewWork(NoWorks, BigInt(0), depths[0], TRUE), 1), 1), 1, TRUE)

(* works::init with a file: every work is read, "all the peers are in      *)
(* fault", and identities are counted from 0 again.                        *)
Recalled(s, n, text) ==
    LET w == Read(text)
        held == [NewWork(s, w.begin, w.end, FALSE) EXCEPT !.work[n].id = w.id, !.id_generator = 0]
    IN  times_insert(id_insert(sizes_insert(held, n), n), n, TRUE)

Loaded(texts) ==
    LET read[n \in 0 .. Len(texts)] ==
            IF n = 0 THEN NoWorks ELSE Recalled(read[n - 1], n, texts[n])
    IN  read[Len(texts)]

Init ==
    /\ ws = AllLeaves
    /\ holds = [p \in Worker |-> Fresh]
    /\ explored = {}
    /\ file = <<>>
    /\ reused = FALSE
    /\ loaded = FALSE
    /\ failures = 0

Explore(p) ==
    /\ ~empty(holds[p])
    /\ explored' = explored \cup {Value(holds[p].begin)}
    /\ holds' = [holds EXCEPT ![p].begin = increment(@)]
    /\ UNCHANGED <<ws, file, reused, loaded, failures>>

(* Once an identity has been given to two, the model follows the works no  *)
(* further.                                                                *)
Request(p) ==
    /\ ~reused
    /\ ~finished(holds[p])
    /\ \E answer \in {request(ws, holds[p], late) : late \in BOOLEAN} :
          /\ ws' = answer.s
          /\ holds' = [holds EXCEPT ![p] = Answered(answer, @)]
    /\ reused' = (/\ ws'.id_generator # ws.id_generator
                  /\ ws'.id_generator \in DOMAIN ws.ids \cup {holds[q].id : q \in Worker})
    /\ UNCHANGED <<explored, file, loaded, failures>>

(* A worker dies, with an interval to lose, and another takes its place. *)
Die(p) ==
    /\ failures < MaxFailures
    /\ failures' = failures + 1
    /\ ~empty(holds[p])
    /\ holds' = [holds EXCEPT ![p] = Fresh]
    /\ UNCHANGED <<ws, explored, file, reused, loaded>>

(* The n-th of the identities, from the smallest. *)
Nth(S, n) == CHOOSE x \in S : Cardinality({y \in S : y < x}) = n - 1

(* works::save, whenever its period has passed.  Only a checkpoint that a  *)
(* restart may read is modelled: the last one, so that none replaces it.   *)
Save ==
    /\ ~reused
    /\ failures < MaxFailures
    /\ file = <<>>
    /\ file' = <<[n \in 1 .. Cardinality(DOMAIN ws.ids) |->
                    Written(ws.work[ws.ids[Nth(DOMAIN ws.ids, n)]])]>>
    /\ UNCHANGED <<ws, holds, explored, reused, loaded, failures>>

(* The coordinator starts again, with new workers.  It finds the file only *)
(* if somebody moved it: save writes bab.works, init reads data/bab.works. *)
Restart ==
    /\ failures < MaxFailures
    /\ failures' = failures + 1
    /\ \/ ws' = AllLeaves /\ loaded' = FALSE
       \/ file # <<>> /\ ws' = Loaded(file[1]) /\ loaded' = TRUE
    /\ holds' = [p \in Worker |-> Fresh]
    /\ file' = <<>>
    /\ reused' = FALSE
    /\ UNCHANGED explored

Next ==
    \/ \E p \in Worker : Explore(p) \/ Request(p) \/ Die(p)
    \/ Save
    \/ Restart

Spec == Init /\ [][Next]_vars

-----------------------------------------------------------------------------
(* No leaf is lost, whatever workers overtake each other, die, come back   *)
(* with an interval that was divided meanwhile or given twice, and after a *)
(* restart: a number nobody has explored is in a work that can be given,   *)
(* and a worker is told that all is finished only if it is                 *)
(* (works::request).  The one thing that can break it is an identity that  *)
(* a new process gives once more (work.cpp:75, works.cpp:304).             *)
NoIntervalLost ==
    ~reused =>
        /\ Leaves \ explored \subseteq UNION {Numbers(ws.work[ws.ids[id]]) : id \in DOMAIN ws.ids}
        /\ (\E p \in Worker : finished(holds[p])) => explored = Leaves

(* The three indexes hold the same works, under keys that are still true   *)
(* after every change of an interval, and the total is the sum of the      *)
(* sizes: save relies on it to know the end.  No identity is given twice   *)
(* in a process that began without a checkpoint (works::_update, _big).    *)
IndexesAgree ==
    /\ reused => loaded
    /\ ~reused =>
          /\ \A id \in DOMAIN ws.ids : ws.work[ws.ids[id]].id = id
          /\ Range(ws.ids) = Refs(ws)
          /\ Len(ws.sizes) = Cardinality(Refs(ws))
          /\ \A r \in Refs(ws) : [size |-> size_of(ws.work[r]), ref |-> r] \in ToSet(ws.sizes)
          /\ Len(ws.times) = Cardinality(Refs(ws)) /\ ToSet(ws.times) = Refs(ws)
          /\ Value(ws.size) = SumFunction([r \in Refs(ws) |-> Value(size_of(ws.work[r]))])

(* The arithmetic on blocks is that of the integers, for the ends and      *)
(* sizes that the works really have, with either sign: a carry or a borrow *)
(* is passed on through any blocks, no leading zero block is kept, and     *)
(* negative quotients are rounded down (BigUnsigned.cc, BigInteger.cc).    *)
ArithmeticExact ==
    /\ \A w \in Range(holds) : ExactOn(w.begin, w.end)
    /\ \A begin \in {holds[p].begin : p \in Worker} : ExactOn(negate(ws.size), begin)
    /\ NumberOf(TextOf(negate(ws.size))) = negate(ws.size)

-----------------------------------------------------------------------------
(* What the works need of the arithmetic: up to the number of leaves (and  *)
(* twice that, for the sum of two ends) the operations are those of the    *)
(* integers, and a number that is written is read again.                   *)
LeafCount == Value(depths[0])
Counted[k \in Nat] == IF k = 0 THEN BigInt(0) ELSE increment(Counted[k - 1])

Calculates ==
    /\ LeafCount \in Nat /\ depths[0] = Counted[LeafCount]
    /\ \A x \in 0 .. 2 * LeafCount :
          /\ Value(Counted[x]) = x
          /\ divideWithRemainder(Counted[x], BigInt(2)).q = Counted[x \div 2]
    /\ \A x, y \in 0 .. LeafCount :
          /\ Less(Counted[x], Counted[y]) <=> x < y
          /\ add(Counted[x], Counted[y]) = Counted[x + y]
          /\ y <= x => subtract(Counted[x], Counted[y]) = Counted[x - y]
    /\ \A x \in 0 .. LeafCount : NumberOf(TextOf(Counted[x])) = Counted[x]
    /\ Counted[0] = BigInt(0)
    /\ \A x \in 0 .. LeafCount : increment(Counted[x]) = Counted[x + 1]
    /\ Value(BigInt(-1)) = -1
=============================================================================
