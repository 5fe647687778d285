---------------------------- MODULE MCMobileSync ----------------------------
(* Instances of MobileSync for TLC: one or two entities, a and b, whose    *)
(* contents are told apart but otherwise interchangeable.                  *)
EXTENDS MobileSync, TLC

CONSTANTS a, b, v, w

Interchangeable == Permutations(Values)
=============================================================================
