--------------------------- MODULE MCGpuExplorer ---------------------------
(* Instances whose pools hold several families, branched at either end.  *)
EXTENDS GpuExplorer, TLC

Row(a, b, c, d) == (0 :> a) @@ (1 :> b) @@ (2 :> c) @@ (3 :> d)
Matrix(r0, r1, r2) == (0 :> r0) @@ (1 :> r1) @@ (2 :> r2)
MCInstances ==
    {Matrix(Row(3, 1, 7, 2), Row(6, 6, 2, 1), Row(4, 2, 4, 2)),
     Matrix(Row(6, 3, 1, 3), Row(4, 4, 2, 1), Row(3, 1, 1, 3))}

(* Three jobs on two machines, for the network with a CPU peer. *)
MCThreeJobs == {(0 :> (0 :> 2 @@ 1 :> 4 @@ 2 :> 1)) @@ (1 :> (0 :> 3 @@ 1 :> 1 @@ 2 :> 5))}
=============================================================================
