--------------------------- MODULE MCWorkStealing ---------------------------
(* Small overlays and search trees for TLC. *)
EXTENDS WorkStealingRefinement

(* Overlays the manager builds: two nodes, and three with degree 2 and 1. *)
Pair == [c \in {1} |-> 0]
Star == [c \in {1, 2} |-> 0]
Chain == [c \in {1, 2} |-> c - 1]

(* A root that may be branched from either end, two levels above leaves:   *)
(* "y" is optimal, and finding it makes "b" and "c" useless.               *)
WideTask == {"r", "a", "b", "c", "d", "x", "y", "z", "w"}
WideBranch ==
    [t \in WideTask |->
        CASE t = "r" -> {{"a", "b"}, {"c", "d"}}
          [] t = "a" -> {{"x", "y"}}
          [] t = "b" -> {{"z", "w"}}
          [] t = "c" -> {{"x", "z"}}
          [] t = "d" -> {{"y", "w"}}
          [] OTHER -> {}]
WideBound ==
    [r |-> 0, a |-> 1, b |-> 2, c |-> 3, d |-> 2, x |-> 3, y |-> 2, z |-> 4, w |-> 3]
WideOpt ==
    [r |-> 2, a |-> 2, b |-> 3, c |-> 3, d |-> 2, x |-> 3, y |-> 2, z |-> 4, w |-> 3]
WideBelow ==
    [t \in WideTask |->
        CASE t = "r" -> {"x", "y", "z", "w"}
          [] t = "a" -> {"x", "y"}
          [] t = "b" -> {"z", "w"}
          [] t = "c" -> {"x", "z"}
          [] t = "d" -> {"y", "w"}
          [] OTHER -> {t}]

(* Three leaves under the root: enough for a share and a second hand. *)
TinyTask == {"r", "x", "y", "z"}
TinyBranch == [t \in TinyTask |-> IF t = "r" THEN {{"x", "y", "z"}} ELSE {}]
TinyBound == [r |-> 0, x |-> 1, y |-> 1, z |-> 1]
TinyOpt == [r |-> 1, x |-> 1, y |-> 1, z |-> 1]
TinyBelow == [t \in TinyTask |-> IF t = "r" THEN {"x", "y", "z"} ELSE {t}]

(* The least tree that can be shared.                                     *)
TwigTask == {"r", "x", "y"}
TwigBranch == [t \in TwigTask |-> IF t = "r" THEN {{"x", "y"}} ELSE {}]
TwigBound == [r |-> 0, x |-> 1, y |-> 1]
TwigOpt == [r |-> 1, x |-> 1, y |-> 1]
TwigBelow == [t \in TwigTask |-> IF t = "r" THEN {"x", "y"} ELSE {t}]
=============================================================================
