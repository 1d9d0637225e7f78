--------------------------- MODULE MCAnnotations ---------------------------
(* The instance of Annotations for TLC: two services and one Floating IP.    *)
(* The first service has another annotation from the start, the second need  *)
(* not have any; so they are no symmetry set.                                *)
EXTENDS Annotations

CONSTANTS s1, s2

MCServices == {s1, s2}
MCAnnotated == {s1}
MCClaiming == {s1}
=============================================================================
