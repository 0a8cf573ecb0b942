------------------------------ MODULE MCOverlay ------------------------------
(* Four peers, degree two: one parent is full and another begun. *)
EXTENDS Overlay

CONSTANTS p1, p2, p3, p4
Four == {p1, p2, p3, p4}
=============================================================================
