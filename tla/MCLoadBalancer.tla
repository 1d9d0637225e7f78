--------------------------- MODULE MCLoadBalancer ---------------------------
(* Instances of LoadBalancer for TLC.  Services are told apart by a number,  *)
(* so that each has a default name.                                          *)
EXTENDS LoadBalancer, TLC

CONSTANTS s1, s2, n1, n2, n3

MCDefaultName == [s \in Services |-> IF s = s1 THEN n1 ELSE n2]

UuidSymmetry == Permutations(Uuids)
=============================================================================
