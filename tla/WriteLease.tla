------------------------------ MODULE WriteLease ------------------------------
(***************************************************************************)
(* What database/write_coordination.py promises SQLite, whatever processes *)
(* and threads write: the write transactions are one after the other. A    *)
(* connection that has uncommitted changes is the only one to have any.    *)
(***************************************************************************)
CONSTANT Conns

VARIABLE writing \* connections with changes that are not committed

Init == writing = {}

(* A connection makes its first change, and more.                          *)
Change(c) == writing \subseteq {c} /\ writing' = {c}

(* Its transaction ends, by a commit, a rollback or the process's end.     *)
End(c) == writing' = writing \ {c}

Next == \E c \in Conns : Change(c) \/ End(c)

Spec == Init /\ [][Next]_writing
===============================================================================
