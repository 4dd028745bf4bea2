---------------------------- MODULE MC_NodeAgent ----------------------------
(* One host with one or two instances. *)
EXTENDS NodeAgent

CONSTANTS r1, r2

VolumesValue == [r \in Releases |-> IF r = r1 THEN <<1, 2>> ELSE <<>>]
=============================================================================
