------------------------------ MODULE MCWorks ------------------------------
(* Two workers and the six leaves of three jobs, in blocks of two bits.    *)
EXTENDS IntervalWorks, TLC

ASSUME CalculatesAssumption == Calculates
Symmetry == Permutations(Worker)
=============================================================================
