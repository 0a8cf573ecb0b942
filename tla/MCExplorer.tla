----------------------------- MODULE MCExplorer -----------------------------
(* Four jobs on three machines: instances on which the bound prunes least, *)
(* branched at either end, some with jobs that tie in Johnson's order.     *)
EXTENDS Explorer, TLC

Row(a, b, c, d) == (0 :> a) @@ (1 :> b) @@ (2 :> c) @@ (3 :> d)
Matrix(r0, r1, r2) == (0 :> r0) @@ (1 :> r1) @@ (2 :> r2)
MCInstances ==
    {Matrix(Row(3, 1, 7, 2), Row(6, 6, 2, 1), Row(4, 2, 4, 2)),
     Matrix(Row(2, 4, 3, 3), Row(7, 7, 2, 1), Row(2, 4, 2, 7)),
     Matrix(Row(6, 3, 1, 3), Row(4, 4, 2, 1), Row(3, 1, 1, 3)),
     Matrix(Row(2, 3, 6, 3), Row(1, 7, 6, 3), Row(2, 1, 5, 3)),
     Matrix(Row(2, 2, 5, 1), Row(3, 3, 1, 1), Row(1, 4, 2, 3))}
=============================================================================
