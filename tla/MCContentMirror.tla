-------------------------- MODULE MCContentMirror --------------------------
EXTENDS ContentMirror, TLC

CONSTANTS p, c, d, o, k, w, m, t1, t2

\* A project, two chapters, an outline node and a manifest they mention, a
\* character appearance of the first chapter, a chapter draft.
OwnersDef ==
    [r \in Rows |-> IF r = p THEN {} ELSE IF r = k THEN {c} ELSE {p}]

MentionsDef ==
    [r \in Rows |-> CASE r = c -> {o} \cap Rows [] r = d -> {m} \cap Rows [] OTHER -> {}]

LaterDef == [r \in Chapters |-> IF r = c THEN Chapters \cap {d} ELSE {}]
\* Nothing tells one serving thread from another.
AnyThread == Permutations(Threads)
=============================================================================
