---------------------------- MODULE MCSearchPool ----------------------------
(* Three jobs on two machines.  A subproblem fixes jobs at the beginning   *)
(* and at the end of the permutation and may be branched at either end; it *)
(* is bounded by the load of each machine.                                 *)
EXTENDS SearchPool, Sequences, FiniteSets

Jobs == 1 .. 3
Time == << <<2, 1, 4>>, <<3, 1, 2>> >>      \* Time[machine][job]

Fixed(s) == {s[i] : i \in 1 .. Len(s)}
Arrangements(S) ==
    {s \in [1 .. Cardinality(S) -> S] : \A i, k \in DOMAIN s : i # k => s[i] # s[k]}
Rest(t) == Jobs \ (Fixed(t.begin) \cup Fixed(t.end))

MCTask ==
    UNION {[begin : Arrangements(A), end : Arrangements(B)] :
             <<A, B>> \in {p \in (SUBSET Jobs) \X (SUBSET Jobs) : p[1] \cap p[2] = {}}}
MCRoot == [begin |-> << >>, end |-> << >>]

MCBranch ==
    [t \in MCTask |->
        IF Rest(t) = {} THEN {}
        ELSE {{[t EXCEPT !.begin = Append(@, j)] : j \in Rest(t)},
              {[t EXCEPT !.end = <<j>> \o @] : j \in Rest(t)}}]

(* Completion of the k-th job of schedule s on the machines. *)
Done(s) ==
    LET done[k \in 0 .. Len(s)] ==
            IF k = 0 THEN <<0, 0>>
            ELSE LET first == done[k - 1][1] + Time[1][s[k]]
                     ready == IF first > done[k - 1][2] THEN first ELSE done[k - 1][2]
                 IN  <<first, ready + Time[2][s[k]]>>
    IN  done[Len(s)]
Makespan(s) == Done(s)[2]

Least(S) == CHOOSE c \in S : \A d \in S : c <= d
MCOpt == [t \in MCTask |-> Least({Makespan(t.begin \o s \o t.end) : s \in Arrangements(Rest(t))})]

Load(m, S) ==
    LET load[T \in SUBSET Jobs] ==
            IF T = {} THEN 0
            ELSE LET j == CHOOSE k \in T : TRUE IN Time[m][j] + load[T \ {j}]
    IN  load[S]
MCBound ==
    [t \in MCTask |->
        IF Rest(t) = {} THEN MCOpt[t]
        ELSE LET later == Rest(t) \cup Fixed(t.end)
                 one == Done(t.begin)[1] + Load(1, later)
                 two == Done(t.begin)[2] + Load(2, later)
             IN  IF one > two THEN one ELSE two]
=============================================================================
