------------------------------ MODULE MCNodes ------------------------------
(* The instance of Nodes for TLC: two nodes, one server that is there and    *)
(* one that may be made.  Liveness is checked, so there is no symmetry.      *)
EXTENDS Nodes

CONSTANTS n1, n2, u1, u2

MCNodeNames == {n1, n2}
MCUuids == {u1, u2}
MCExisting == {u1}
=============================================================================
