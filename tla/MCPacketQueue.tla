---------------------------- MODULE MCPacketQueue ----------------------------
(* Two senders with three packets, in three containers. *)
EXTENDS Sockets, TLC

CONSTANTS c1, c2, c3, s1, s2
MCContainer == {c1, c2, c3}
MCSender == {s1, s2}
MCDataSize == (s1 :> <<0, 1>>) @@ (s2 :> <<0>>)
MCAnySize == {4}        \* more than any packet's bytes; a packet's data are fewer
=============================================================================
