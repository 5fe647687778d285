---------------------------- MODULE MCGatewayLog ----------------------------
(* Instances of GatewayLog for TLC: a work with its project entity, an     *)
(* entity a and a row b that a owns (a character and its AI configuration, *)
(* or, where b is not OrmOwned, a character and one of its relations).     *)
EXTENDS GatewayLog, TLC

CONSTANTS p1, root, a, b, v1, v2, m1, m2

MCProjects == {p1}
MCProjectOf == [k \in Keys |-> p1]
MCRootOf == (p1 :> root)
MCWorks == {Keys}
MCOwner == [k \in Keys |-> IF k = b THEN a ELSE NoOwner]

(* Contents and push ids are interchangeable.                              *)
Interchangeable == Permutations(Values) \cup Permutations(PushIds)
=============================================================================
