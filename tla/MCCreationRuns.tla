--------------------------- MODULE MCCreationRuns ---------------------------
(* Small instances of CreationRuns.                                        *)
EXTENDS CreationRuns

CONSTANTS r1, r2, r3, k1, k2, s1, s2, s3, whole, entity

WholeOrEntity == {[stages |-> {s1}, unit |-> u] : u \in {whole, entity}}

WholeEntityOrConcepts == WholeOrEntity \cup {[stages |-> {s3}, unit |-> whole]}

AllOrConcepts == {[stages |-> S, unit |-> whole] : S \in {{s1, s2}, {s3}}}
=============================================================================
