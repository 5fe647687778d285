-------------------------- MODULE SyncStoreProofs --------------------------
(***************************************************************************)
(* The promises of the sync store hold for every set of entities and       *)
(* contents and every bound on the revisions.  StoreIInv, the conjunction  *)
(* of the store's invariants with its type, is inductive: the state row    *)
(* being the last change is what makes a new change's base the change      *)
(* before it, and head being the newest row is what makes the new          *)
(* revisions larger than every old one.  Deleting a whole work, and with   *)
(* it any of the newest rows, keeps it: what the other works have in the   *)
(* four tables never refers to a row of this one.                          *)
(***************************************************************************)
EXTENDS SyncStore, TLAPS

StoreIInv == StoreTypeOK /\ StoreInv

(* The tables are empty at first.                                          *)
LEMMA StoreInitIInv == StoreInit => StoreIInv
  BY StoreAssumption
     DEF StoreInit, StoreIInv, StoreTypeOK, StoreInv, OneRowPerRevision, MutationOnce,
         StateIsLastChange, NoSkippedVersion, TombstoneOfDeleted,
         ConflictIsDivergence, Revisions, Contents, State, Disputed

(* What every row of an appended transaction is.                           *)
LEMMA AppendedRow ==
    ASSUME StoreIInv, AppendChanges
    PROVE  \A c \in changes' : c \notin changes =>
              /\ c = Row(c.rev, c.id, c.key, c.value)
              /\ c.key \in Keys
              /\ c.value \in Contents
              /\ c.rev \in Nat /\ c.rev > head /\ c.rev <= head'
              /\ c.base \in Nat /\ c.base <= head
              /\ c.base = entity[c.key].rev
              /\ ~Logged(c.id) /\ ~Disputed(c.id)
              /\ entity'[c.key] = [rev |-> c.rev, value |-> c.value]
              /\ tombstone'[c.key] = IF c.value = None THEN c.rev ELSE 0
  <1> SUFFICES ASSUME NEW c \in changes' \ changes
               PROVE  /\ c = Row(c.rev, c.id, c.key, c.value)
                      /\ c.key \in Keys
                      /\ c.value \in Contents
                      /\ c.rev \in Nat /\ c.rev > head /\ c.rev <= head'
                      /\ c.base \in Nat /\ c.base <= head
                      /\ c.base = entity[c.key].rev
                      /\ ~Logged(c.id) /\ ~Disputed(c.id)
                      /\ entity'[c.key] = [rev |-> c.rev, value |-> c.value]
                      /\ tombstone'[c.key] = IF c.value = None THEN c.rev ELSE 0
    OBVIOUS
  <1>2. /\ c = Row(c.rev, c.id, c.key, c.value)
        /\ c.rev \in (head + 1) .. head'
        /\ c.key \in Keys
        /\ c.value \in Contents
        /\ Fresh(c.id)
        /\ entity'[c.key] = [rev |-> c.rev, value |-> c.value]
        /\ tombstone'[c.key] = IF c.value = None THEN c.rev ELSE 0
    BY DEF AppendChanges
  <1>3. head \in Nat /\ head' \in Nat
    BY StoreAssumption DEF StoreIInv, StoreTypeOK, AppendChanges, Revisions
  <1>4. entity[c.key] \in State
    BY <1>2 DEF StoreIInv, StoreTypeOK
  <1>5. entity[c.key].rev \in 0 .. head
    <2>1. CASE entity[c.key].rev = 0
      BY <2>1, <1>3
    <2>2. CASE entity[c.key].rev # 0
      BY <2>2, <1>2, <1>3 DEF StoreIInv, StoreInv, StateIsLastChange, OneRowPerRevision
    <2> QED BY <2>1, <2>2
  <1>6. c.base = entity[c.key].rev
    BY <1>2 DEF Row
  <1> QED BY <1>2, <1>3, <1>5, <1>6 DEF Fresh

(* The revisions of an appended row.                                       *)
LEMMA AppendedRevision ==
    ASSUME StoreIInv, AppendChanges
    PROVE  \A c \in changes' : c \notin changes =>
              /\ c.rev \in Nat /\ c.rev > head /\ c.rev <= head'
              /\ c.base \in Nat /\ c.base <= head
  <1> SUFFICES ASSUME NEW c \in changes', c \notin changes
               PROVE  /\ c.rev \in Nat /\ c.rev > head /\ c.rev <= head'
                      /\ c.base \in Nat /\ c.base <= head
    OBVIOUS
  <1> QED BY AppendedRow, Zenon

(* The id of an appended row is new to the log and to the conflicts.       *)
LEMMA AppendedFresh ==
    ASSUME StoreIInv, AppendChanges
    PROVE  \A c \in changes' : c \notin changes =>
              /\ \A d \in changes : d.id # c.id
              /\ \A d \in conflicts : d.id # c.id
  <1> SUFFICES ASSUME NEW c \in changes', c \notin changes
               PROVE  /\ \A d \in changes : d.id # c.id
                      /\ \A d \in conflicts : d.id # c.id
    OBVIOUS
  <1>1. ~Logged(c.id) /\ ~Disputed(c.id)
    BY AppendedRow, Zenon
  <1> QED BY <1>1 DEF Logged, Disputed

(* Appending keeps the tables well typed; a verdict keeps conflicts so.    *)
LEMMA AppendKeepsType ==
    ASSUME StoreIInv, AppendChanges
    PROVE  /\ head' \in Revisions
           /\ changes' \subseteq Change'
           /\ entity' \in [Keys -> State]
           /\ tombstone' \in [Keys -> Revisions]
  <1>0. head \in Nat /\ head' \in Nat /\ MaxRevision \in Nat
    BY StoreAssumption DEF StoreIInv, StoreTypeOK, AppendChanges, Revisions
  <1>1. head' \in Revisions
    BY StoreAssumption DEF StoreIInv, StoreTypeOK, AppendChanges, Revisions
  <1>2. ASSUME NEW c \in changes' PROVE c \in Change'
    <2>1. CASE c \in changes
      BY <2>1 DEF StoreIInv, StoreTypeOK, Change, AppendChanges, Revisions, Contents
    <2>2. CASE c \notin changes
      <3>1. /\ c = Row(c.rev, c.id, c.key, c.value)
            /\ c.key \in Keys /\ c.value \in Contents
            /\ c.rev \in Revisions \ {0} /\ c.base \in Revisions
        <4>1. c.rev \in Nat /\ c.rev > head /\ c.rev <= head' /\ c.base \in Nat /\ c.base <= head
          BY <2>2, AppendedRevision
        <4>2. /\ c = Row(c.rev, c.id, c.key, c.value)
              /\ c.key \in Keys /\ c.value \in Contents
          BY <2>2, AppendedRow, Zenon
        <4>3. head' <= MaxRevision
          BY <1>0, <1>1 DEF Revisions
        <4> QED BY <4>1, <4>2, <4>3, <1>0 DEF Revisions
      <3>2. c.id \in {d.id : d \in changes'}
        OBVIOUS
      <3> QED BY <3>1, <3>2 DEF Change, Row
    <2> QED BY <2>1, <2>2
  <1> QED BY <1>1, <1>2 DEF AppendChanges

(* Every old row stays below the new ones.                                 *)
LEMMA OldRow ==
    ASSUME StoreIInv
    PROVE  \A c \in changes : /\ c.rev \in Nat /\ c.rev >= 1 /\ c.rev <= head
                              /\ c.base \in Nat
                              /\ c.key \in Keys
  BY StoreAssumption DEF StoreIInv, StoreInv, StoreTypeOK, OneRowPerRevision, Change, Revisions

(* Appending keeps at most one row to a revision, and head the newest.     *)
LEMMA AppendKeepsRevisions ==
    ASSUME StoreIInv, AppendChanges
    PROVE  OneRowPerRevision'
  <1>0. head \in Nat /\ head' \in Nat /\ head <= head'
    BY StoreAssumption DEF StoreIInv, StoreTypeOK, AppendChanges, Revisions
  <1>1. \A c \in changes' : c.rev \in 1 .. head'
    <2> SUFFICES ASSUME NEW c \in changes' PROVE c.rev \in 1 .. head'
      OBVIOUS
    <2>1. CASE c \in changes
      BY <2>1, <1>0, OldRow
    <2>2. CASE c \notin changes
      BY <2>2, <1>0, AppendedRevision
    <2> QED BY <2>1, <2>2
  <1>2. head' # 0 => \E c \in changes' : c.rev = head'
    <2>1. CASE head' = head
      BY <2>1 DEF StoreIInv, StoreInv, OneRowPerRevision, AppendChanges
    <2>2. CASE head' # head
      <3>1. head' \in (head + 1) .. head'
        BY <1>0, <2>2
      <3> QED BY <3>1 DEF AppendChanges
    <2> QED BY <2>1, <2>2
  <1>3. \A c, d \in changes' : c.rev = d.rev => c = d
    <2> SUFFICES ASSUME NEW c \in changes', NEW d \in changes', c.rev = d.rev
                 PROVE  c = d
      OBVIOUS
    <2>1. CASE c \in changes /\ d \in changes
      BY <2>1 DEF StoreIInv, StoreInv, OneRowPerRevision
    <2>2. CASE c \notin changes /\ d \notin changes
      BY <2>2 DEF AppendChanges
    <2>3. CASE c \in changes /\ d \notin changes
      BY <2>3, <1>0, OldRow, AppendedRevision
    <2>4. CASE c \notin changes /\ d \in changes
      BY <2>4, <1>0, OldRow, AppendedRevision
    <2> QED BY <2>1, <2>2, <2>3, <2>4
  <1> QED BY <1>1, <1>2, <1>3 DEF OneRowPerRevision

(* Appending keeps each state row at its entity's last change.             *)
LEMMA AppendKeepsState ==
    ASSUME StoreIInv, AppendChanges
    PROVE  StateIsLastChange'
  <1>0. head \in Nat /\ head' \in Nat /\ head <= head'
    BY StoreAssumption DEF StoreIInv, StoreTypeOK, AppendChanges, Revisions
  <1> SUFFICES ASSUME NEW k \in Keys
               PROVE  /\ \A d \in changes' : d.key = k => d.rev <= entity'[k].rev
                      /\ entity'[k].rev = 0 => entity'[k].value = None
                      /\ entity'[k].rev # 0 =>
                            \E d \in changes' : /\ d.key = k
                                                /\ d.rev = entity'[k].rev
                                                /\ d.value = entity'[k].value
    BY DEF StateIsLastChange
  <1>1. CASE \E c \in changes' \ changes : c.key = k
    <2>1. PICK c \in changes' \ changes : c.key = k
      BY <1>1
    <2>2. entity'[k] = [rev |-> c.rev, value |-> c.value]
          /\ c.rev > head /\ c.rev \in Nat
      BY <2>1, AppendedRow DEF Revisions
    <2>3. \A d \in changes' : d.key = k => d.rev <= entity'[k].rev
      <3> SUFFICES ASSUME NEW d \in changes', d.key = k
                   PROVE  d.rev <= entity'[k].rev
        OBVIOUS
      <3>1. CASE d \in changes
        BY <3>1, <2>2, <1>0, OldRow
      <3>2. CASE d \notin changes
        BY <3>2, <2>1, <2>2 DEF AppendChanges
      <3> QED BY <3>1, <3>2
    <2> QED BY <2>1, <2>2, <2>3, <1>0
  <1>2. CASE \A c \in changes' \ changes : c.key # k
    <2>1. entity'[k] = entity[k]
      BY <1>2 DEF AppendChanges
    <2> QED BY <1>2, <2>1 DEF StoreIInv, StoreInv, StateIsLastChange, AppendChanges
  <1> QED BY <1>1, <1>2

(* Appending bases each change on the one before it.                       *)
LEMMA AppendKeepsVersions ==
    ASSUME StoreIInv, AppendChanges
    PROVE  NoSkippedVersion'
  <1> SUFFICES ASSUME NEW c \in changes'
               PROVE  /\ c.base < c.rev
                      /\ c.base # 0 => \E d \in changes' : d.key = c.key /\ d.rev = c.base
                      /\ \A d \in changes' :
                            d.key = c.key /\ d.rev < c.rev => d.rev <= c.base
    BY DEF NoSkippedVersion
  <1>0. head \in Nat
    BY StoreAssumption DEF StoreIInv, StoreTypeOK, Revisions
  <1>1. CASE c \in changes
    <2>1. c.rev <= head
      BY <1>1, OldRow
    <2>2. \A d \in changes' : d.key = c.key /\ d.rev < c.rev => d.rev <= c.base
      <3> SUFFICES ASSUME NEW d \in changes', d.key = c.key, d.rev < c.rev
                   PROVE  d.rev <= c.base
        OBVIOUS
      <3>1. CASE d \in changes
        BY <3>1, <1>1 DEF StoreIInv, StoreInv, NoSkippedVersion
      <3>2. CASE d \notin changes
        BY <3>2, <2>1, <1>0, <1>1, OldRow, AppendedRevision
      <3> QED BY <3>1, <3>2
    <2> QED BY <1>1, <2>2 DEF StoreIInv, StoreInv, NoSkippedVersion, AppendChanges
  <1>2. CASE c \notin changes
    <2>1. /\ c.key \in Keys /\ c.rev \in Nat /\ c.base \in Nat
          /\ c.rev > head /\ c.base = entity[c.key].rev /\ c.base <= head
      BY <1>2, AppendedRow DEF Revisions
    <2>2. c.base # 0 => \E d \in changes : d.key = c.key /\ d.rev = c.base
      BY <2>1 DEF StoreIInv, StoreInv, StateIsLastChange
    <2>3. \A d \in changes' : d.key = c.key /\ d.rev < c.rev => d.rev <= c.base
      <3> SUFFICES ASSUME NEW d \in changes', d.key = c.key, d.rev < c.rev
                   PROVE  d.rev <= c.base
        OBVIOUS
      <3>1. CASE d \in changes
        BY <3>1, <2>1 DEF StoreIInv, StoreInv, StateIsLastChange
      <3>2. CASE d \notin changes
        BY <3>2, <1>2, <2>1 DEF AppendChanges
      <3> QED BY <3>1, <3>2
    <2> QED BY <1>0, <2>1, <2>2, <2>3 DEF AppendChanges
  <1> QED BY <1>1, <1>2

(* Appending keeps tombstones on deleted entities only.                    *)
LEMMA AppendKeepsTombstones ==
    ASSUME StoreIInv, AppendChanges
    PROVE  TombstoneOfDeleted'
  <1> SUFFICES ASSUME NEW k \in Keys
               PROVE  tombstone'[k] =
                         IF entity'[k].value = None THEN entity'[k].rev ELSE 0
    BY DEF TombstoneOfDeleted
  <1>1. CASE \E c \in changes' \ changes : c.key = k
    <2>1. PICK c \in changes' \ changes : c.key = k
      BY <1>1
    <2>2. /\ entity'[k] = [rev |-> c.rev, value |-> c.value]
          /\ tombstone'[k] = IF c.value = None THEN c.rev ELSE 0
      BY <2>1, AppendedRow
    <2> QED BY <2>2
  <1>2. CASE \A c \in changes' \ changes : c.key # k
    BY <1>2 DEF AppendChanges, StoreIInv, StoreInv, TombstoneOfDeleted
  <1> QED BY <1>1, <1>2

(* Appending, whatever happens to the verdicts of conflicts meanwhile,     *)
(* never uses a mutation id twice.                                         *)
LEMMA AppendKeepsOnce ==
    ASSUME StoreIInv, AppendChanges,
           \A c \in conflicts' : \E d \in conflicts : d.id = c.id,
           \A c, d \in conflicts' : c.id = d.id => c = d
    PROVE  MutationOnce'
  <1>1. \A c, d \in changes' : c.id = d.id => c = d
    <2> SUFFICES ASSUME NEW c \in changes', NEW d \in changes', c.id = d.id
                 PROVE  c = d
      OBVIOUS
    <2>1. CASE c \in changes /\ d \in changes
      BY <2>1 DEF StoreIInv, StoreInv, MutationOnce
    <2>2. CASE c \notin changes /\ d \notin changes
      BY <2>2 DEF AppendChanges
    <2>3. CASE c \in changes /\ d \notin changes
      BY <2>3, AppendedFresh
    <2>4. CASE c \notin changes /\ d \in changes
      BY <2>4, AppendedFresh
    <2> QED BY <2>1, <2>2, <2>3, <2>4
  <1>2. \A c \in changes' : ~Disputed(c.id)'
    <2> SUFFICES ASSUME NEW c \in changes', NEW d \in conflicts', d.id = c.id
                 PROVE  FALSE
      BY DEF Disputed
    <2>1. CASE c \in changes
      BY <2>1 DEF StoreIInv, StoreInv, MutationOnce, Disputed
    <2>2. CASE c \notin changes
      BY <2>2, AppendedFresh
    <2> QED BY <2>1, <2>2
  <1> QED BY <1>1, <1>2 DEF MutationOnce

(* A conflict that is settled keeps all of itself but its verdict.         *)
LEMMA SettledConflicts ==
    ASSUME StoreIInv, Settle
    PROVE  /\ conflicts' \subseteq Conflict'
           /\ \A c \in conflicts' : \E d \in conflicts :
                 /\ d.id = c.id /\ d.key = c.key /\ d.base = c.base
                 /\ d.serverRev = c.serverRev /\ d.theirs = c.theirs
           /\ \A c, d \in conflicts' : c.id = d.id => c = d
  <1>1. PICK c \in conflicts, verdict \in Verdicts \ {"open"} :
           conflicts' = (conflicts \ {c}) \cup {[c EXCEPT !.verdict = verdict]}
    BY DEF Settle
  <1>2. conflicts \subseteq Conflict
    BY DEF StoreIInv, StoreTypeOK
  <1> DEFINE s == [c EXCEPT !.verdict = verdict]
  <1>3. /\ s.id = c.id /\ s.key = c.key /\ s.base = c.base
        /\ s.serverRev = c.serverRev /\ s.theirs = c.theirs
    BY <1>2 DEF Conflict
  <1>4. \A d \in conflicts' : \E e \in conflicts :
           /\ e.id = d.id /\ e.key = d.key /\ e.base = d.base
           /\ e.serverRev = d.serverRev /\ e.theirs = d.theirs
    BY <1>1, <1>3
  <1>5. conflicts' \subseteq Conflict'
    <2>1. {d.id : d \in conflicts'} = {d.id : d \in conflicts}
      BY <1>1, <1>3
    <2> QED BY <1>1, <1>2, <2>1 DEF Conflict, Contents, Revisions, Verdicts
  <1>6. \A d, e \in conflicts' : d.id = e.id => d = e
    <2>1. \A d, e \in conflicts : d.id = e.id => d = e
      BY DEF StoreIInv, StoreInv, MutationOnce
    <2>2. conflicts' = (conflicts \ {c}) \cup {s} /\ s.id = c.id
      BY <1>1, <1>3
    <2> HIDE DEF s
    <2> QED BY <2>1, <2>2
  <1> QED BY <1>4, <1>5, <1>6

(* A conflict's server side is in the log, and the log only grows.         *)
LEMMA AppendKeepsDivergence ==
    ASSUME StoreIInv, AppendChanges,
           \A c \in conflicts' : \E d \in conflicts :
              /\ d.key = c.key /\ d.base = c.base
              /\ d.serverRev = c.serverRev /\ d.theirs = c.theirs
    PROVE  ConflictIsDivergence'
  <1>1. changes \subseteq changes'
    BY DEF AppendChanges
  <1> QED BY <1>1 DEF StoreIInv, StoreInv, ConflictIsDivergence

(* A conflict that is recorded is a divergence, under an id of its own.    *)
LEMMA DisputeKeepsIInv ==
    ASSUME StoreIInv, Dispute
    PROVE  StoreIInv'
  <1>1. PICK c \in conflicts' :
           /\ conflicts' = conflicts \cup {c}
           /\ c = Collision(c.id, c.key, c.base, c.value)
           /\ Fresh(c.id)
           /\ c.key \in Keys
           /\ c.value \in Contents
           /\ c.base \in Nat
           /\ c.base # entity[c.key].rev
    BY DEF Dispute
  <1>2. UNCHANGED <<head, changes, entity, tombstone>>
    BY DEF Dispute
  <1>3. entity[c.key] \in State
    BY <1>1 DEF StoreIInv, StoreTypeOK
  <1>4. StoreTypeOK'
    <2>1. c \in Conflict'
      <3>1. c.id \in {d.id : d \in conflicts'}
        BY <1>1
      <3>2. /\ entity[c.key].rev \in Revisions
            /\ entity[c.key].value \in Contents
            /\ "open" \in Verdicts
        BY <1>3 DEF State, Verdicts
      <3>3. c = [id |-> c.id, key |-> c.key, base |-> c.base, value |-> c.value,
                 serverRev |-> entity[c.key].rev, theirs |-> entity[c.key].value,
                 verdict |-> "open"]
        BY <1>1, Zenon DEF Collision
      <3>4. [id |-> c.id, key |-> c.key, base |-> c.base, value |-> c.value,
             serverRev |-> entity[c.key].rev, theirs |-> entity[c.key].value,
             verdict |-> "open"] \in
               [id : {d.id : d \in conflicts'}, key : Keys, base : Nat,
                value : Contents, serverRev : Revisions, theirs : Contents,
                verdict : Verdicts]
        BY <1>1, <3>1, <3>2
      <3> QED BY <3>3, <3>4, Zenon DEF Conflict, Contents, Revisions, Verdicts
    <2>2. conflicts \subseteq Conflict'
      BY <1>1 DEF StoreIInv, StoreTypeOK, Conflict, Contents, Revisions
    <2> QED BY <1>1, <1>2, <2>1, <2>2
          DEF StoreIInv, StoreTypeOK, Change, State, Revisions, Contents
  <1>5. MutationOnce'
    BY <1>1, <1>2 DEF StoreIInv, StoreInv, MutationOnce, Fresh, Logged, Disputed
  <1>6. ConflictIsDivergence'
    <2>1. c.serverRev = entity[c.key].rev /\ c.theirs = entity[c.key].value
      BY <1>1 DEF Collision
    <2> QED BY <1>1, <1>2, <2>1
          DEF StoreIInv, StoreInv, ConflictIsDivergence, StateIsLastChange
  <1>7. (OneRowPerRevision /\ StateIsLastChange /\ NoSkippedVersion /\ TombstoneOfDeleted)'
    BY <1>2 DEF StoreIInv, StoreInv, OneRowPerRevision, StateIsLastChange,
                NoSkippedVersion, TombstoneOfDeleted
  <1> QED BY <1>4, <1>5, <1>6, <1>7 DEF StoreIInv, StoreInv

(* An append, alone or with a verdict, keeps the invariant.                *)
LEMMA AppendKeepsIInv ==
    ASSUME StoreIInv, AppendChanges,
           conflicts' \subseteq Conflict',
           \A c \in conflicts' : \E d \in conflicts :
              /\ d.id = c.id /\ d.key = c.key /\ d.base = c.base
              /\ d.serverRev = c.serverRev /\ d.theirs = c.theirs,
           \A c, d \in conflicts' : c.id = d.id => c = d
    PROVE  StoreIInv'
  <1>1. StoreTypeOK'
    BY AppendKeepsType DEF StoreTypeOK, State, Revisions, Contents
  <1>2. MutationOnce'
    BY AppendKeepsOnce
  <1>3. ConflictIsDivergence'
    BY AppendKeepsDivergence
  <1> QED BY <1>1, <1>2, <1>3, AppendKeepsRevisions, AppendKeepsState,
             AppendKeepsVersions, AppendKeepsTombstones DEF StoreIInv, StoreInv

(* The log's own steps keep the invariant.                                 *)
LEMMA LogNextKeepsIInv ==
    ASSUME StoreIInv, [LogNext]_storeVars
    PROVE  StoreIInv'
  <1>1. CASE AppendChanges /\ UNCHANGED conflicts
    <2>1. /\ conflicts' \subseteq Conflict'
          /\ \A c, d \in conflicts' : c.id = d.id => c = d
      BY <1>1 DEF StoreIInv, StoreTypeOK, StoreInv, MutationOnce, Conflict,
                  Contents, Revisions
    <2> QED BY <1>1, <2>1, AppendKeepsIInv
  <1>2. CASE Dispute
    BY <1>2, DisputeKeepsIInv
  <1>3. CASE Settle
    <2>1. AppendChanges
      BY <1>3 DEF Settle
    <2> QED BY <1>3, <2>1, SettledConflicts, AppendKeepsIInv
  <1>4. CASE UNCHANGED storeVars
    BY <1>4 DEF storeVars, StoreIInv, StoreTypeOK, StoreInv, OneRowPerRevision,
                MutationOnce, StateIsLastChange, NoSkippedVersion,
                TombstoneOfDeleted, ConflictIsDivergence, Disputed, Change,
                Conflict, State, Revisions, Contents
  <1> QED BY <1>1, <1>2, <1>3, <1>4 DEF LogNext

(* A deleted work takes whole rows, and no other work's row refers to them. *)
LEMMA ForgetKeepsIInv ==
    ASSUME StoreIInv, NEW w \in SUBSET Keys, Forget(w)
    PROVE  StoreIInv'
  <1>1. /\ changes' = {c \in changes : c.key \notin w}
        /\ conflicts' = {c \in conflicts : c.key \notin w}
        /\ entity' = [k \in Keys |-> IF k \in w THEN [rev |-> 0, value |-> None] ELSE entity[k]]
        /\ tombstone' = [k \in Keys |-> IF k \in w THEN 0 ELSE tombstone[k]]
        /\ head' \in {0} \cup {c.rev : c \in changes'}
        /\ \A c \in changes' : c.rev <= head'
    BY DEF Forget
  <1>2. /\ head \in Nat /\ MaxRevision \in Nat /\ head <= MaxRevision
        /\ 0 \in Revisions /\ None \in Contents
        /\ \A c \in changes' : c \in changes /\ c.key \notin w
        /\ \A c \in conflicts' : c \in conflicts /\ c.key \notin w
    BY <1>1, StoreAssumption DEF StoreIInv, StoreTypeOK, Revisions, Contents
  <1>3. \A c \in changes' : c.rev \in 1 .. head /\ c.rev \in Nat /\ c.key \in Keys
    BY <1>2, OldRow
  <1>4. head' \in Nat /\ head' <= MaxRevision /\ head' \in Revisions
    BY <1>1, <1>2, <1>3 DEF Revisions
  <1>5. StoreTypeOK'
    <2>1. changes' \subseteq Change'
      <3> SUFFICES ASSUME NEW c \in changes' PROVE c \in Change'
        OBVIOUS
      <3>1. c \in Change
        BY <1>2 DEF StoreIInv, StoreTypeOK
      <3>2. c.id \in {d.id : d \in changes'}
        OBVIOUS
      <3> QED BY <3>1, <3>2 DEF Change, Revisions, Contents
    <2>2. conflicts' \subseteq Conflict'
      <3> SUFFICES ASSUME NEW c \in conflicts' PROVE c \in Conflict'
        OBVIOUS
      <3>1. c \in Conflict
        BY <1>2 DEF StoreIInv, StoreTypeOK
      <3>2. c.id \in {d.id : d \in conflicts'}
        OBVIOUS
      <3> QED BY <3>1, <3>2 DEF Conflict, Revisions, Contents, Verdicts
    <2>3. entity' \in [Keys -> State]
      BY <1>1, <1>2 DEF StoreIInv, StoreTypeOK, State
    <2>4. tombstone' \in [Keys -> Revisions]
      BY <1>1, <1>2 DEF StoreIInv, StoreTypeOK
    <2> QED BY <1>4, <2>1, <2>2, <2>3, <2>4
          DEF StoreTypeOK, State, Revisions, Contents
  <1>6. OneRowPerRevision'
    <2>1. \A c \in changes' : c.rev \in 1 .. head'
      BY <1>1, <1>3, <1>4
    <2>2. head' # 0 => \E c \in changes' : c.rev = head'
      BY <1>1
    <2>3. \A c, d \in changes' : c.rev = d.rev => c = d
      BY <1>2 DEF StoreIInv, StoreInv, OneRowPerRevision
    <2> QED BY <2>1, <2>2, <2>3 DEF OneRowPerRevision
  <1>7. MutationOnce'
    BY <1>2 DEF StoreIInv, StoreInv, MutationOnce, Disputed
  <1>8. StateIsLastChange'
    <2> SUFFICES ASSUME NEW k \in Keys
                 PROVE  /\ \A d \in changes' : d.key = k => d.rev <= entity'[k].rev
                        /\ entity'[k].rev = 0 => entity'[k].value = None
                        /\ entity'[k].rev # 0 =>
                              \E d \in changes' : /\ d.key = k
                                                  /\ d.rev = entity'[k].rev
                                                  /\ d.value = entity'[k].value
      BY DEF StateIsLastChange
    <2>1. CASE k \in w
      BY <1>1, <1>2, <2>1
    <2>2. CASE k \notin w
      <3>1. entity'[k] = entity[k]
        BY <1>1, <2>2
      <3>2. \A d \in changes : d.key = k => d \in changes'
        BY <1>1, <2>2
      <3> QED BY <1>2, <3>1, <3>2 DEF StoreIInv, StoreInv, StateIsLastChange
    <2> QED BY <2>1, <2>2
  <1>9. NoSkippedVersion'
    <2>1. \A c \in changes', d \in changes : d.key = c.key => d \in changes'
      BY <1>1, <1>2
    <2> QED BY <1>2, <2>1 DEF StoreIInv, StoreInv, NoSkippedVersion
  <1>10. TombstoneOfDeleted'
    BY <1>1 DEF StoreIInv, StoreInv, TombstoneOfDeleted
  <1>11. ConflictIsDivergence'
    <2>1. \A c \in conflicts', d \in changes : d.key = c.key => d \in changes'
      BY <1>1, <1>2
    <2> QED BY <1>2, <2>1 DEF StoreIInv, StoreInv, ConflictIsDivergence
  <1> QED BY <1>5, <1>6, <1>7, <1>8, <1>9, <1>10, <1>11 DEF StoreIInv, StoreInv

(* StoreIInv is inductive.                                                 *)
LEMMA StoreNextKeepsIInv ==
    ASSUME StoreIInv, [StoreNext]_storeVars
    PROVE  StoreIInv'
  <1>1. CASE [LogNext]_storeVars
    BY <1>1, LogNextKeepsIInv
  <1>2. ASSUME NEW w \in Works, Forget(w) PROVE StoreIInv'
    BY <1>2, StoreAssumption, ForgetKeepsIInv
  <1> QED BY <1>1, <1>2 DEF StoreNext

(* The store's tables keep their types.                                    *)
THEOREM StoreTypeCorrect == StoreSpec => []StoreTypeOK
  <1>1. StoreIInv => StoreTypeOK
    BY DEF StoreIInv
  <1> QED BY <1>1, StoreInitIInv, StoreNextKeepsIInv, PTL DEF StoreSpec

(* Idempotence, optimistic concurrency and the agreement of log, states,   *)
(* tombstones and conflicts hold in every reachable state of the store.    *)
THEOREM StoreSafe == StoreSpec => []StoreInv
  <1>1. StoreIInv => StoreInv
    BY DEF StoreIInv
  <1> QED BY <1>1, StoreInitIInv, StoreNextKeepsIInv, PTL DEF StoreSpec

(* A step of the log keeps every conflict, and every final verdict.        *)
LEMMA StepKeepsVersions ==
    ASSUME StoreTypeOK, [LogNext]_storeVars
    PROVE  \A c \in conflicts :
              \E d \in conflicts' :
                 /\ [d EXCEPT !.verdict = c.verdict] = c
                 /\ c.verdict # "open" => d = c
  <1> SUFFICES ASSUME NEW c \in conflicts
               PROVE  \E d \in conflicts' :
                         /\ [d EXCEPT !.verdict = c.verdict] = c
                         /\ c.verdict # "open" => d = c
    OBVIOUS
  <1>1. c \in Conflict
    BY DEF StoreTypeOK
  <1>2. [c EXCEPT !.verdict = c.verdict] = c
    BY <1>1 DEF Conflict
  <1>3. CASE c \in conflicts'
    BY <1>2, <1>3
  <1>4. CASE c \notin conflicts'
    <2>1. Settle
      BY <1>4 DEF LogNext, Dispute, storeVars
    <2>2. PICK e \in conflicts, verdict \in Verdicts \ {"open"} :
             /\ e.verdict = "open"
             /\ conflicts' = (conflicts \ {e}) \cup {[e EXCEPT !.verdict = verdict]}
      BY <2>1 DEF Settle
    <2>3. e = c
      BY <1>4, <2>2
    <2>4. [[c EXCEPT !.verdict = verdict] EXCEPT !.verdict = c.verdict] = c
      BY <1>1 DEF Conflict
    <2> QED BY <2>2, <2>3, <2>4
  <1> QED BY <1>3, <1>4

(* A conflict that goes goes with all that the tables have of its work.    *)
LEMMA ForgottenWhole ==
    ASSUME StoreTypeOK, NEW w \in Works, Forget(w)
    PROVE  \A c \in conflicts : c \in conflicts' \/ Forgotten(c.key)'
  <1> SUFFICES ASSUME NEW c \in conflicts, c \notin conflicts'
               PROVE  Forgotten(c.key)'
    OBVIOUS
  <1>1. /\ w \subseteq Keys
        /\ c.key \in w
        /\ \A d \in changes' \cup conflicts' : d.key \notin w
    BY StoreAssumption DEF Forget
  <1>2. \A j \in w : entity'[j] = [rev |-> 0, value |-> None] /\ tombstone'[j] = 0
    BY <1>1 DEF Forget
  <1> QED BY <1>1, <1>2 DEF Forgotten

(* No transaction of the store drops a version a conflict holds, or        *)
(* changes a verdict that was given, but by dropping with it everything    *)
(* the tables hold of its work.                                            *)
THEOREM StoreKeepsBothVersions == StoreSpec => BothVersionsKept
  <1>1. ASSUME StoreTypeOK, [StoreNext]_storeVars
        PROVE  \A c \in conflicts :
                  \/ \E d \in conflicts' :
                        /\ [d EXCEPT !.verdict = c.verdict] = c
                        /\ c.verdict # "open" => d = c
                  \/ Forgotten(c.key)'
    <2>1. CASE [LogNext]_storeVars
      BY <1>1, <2>1, StepKeepsVersions, Zenon
    <2>2. ASSUME NEW w \in Works, Forget(w), NEW c \in conflicts
          PROVE  \/ \E d \in conflicts' :
                       /\ [d EXCEPT !.verdict = c.verdict] = c
                       /\ c.verdict # "open" => d = c
                 \/ Forgotten(c.key)'
      <3>1. c \in conflicts' \/ Forgotten(c.key)'
        BY <1>1, <2>2, ForgottenWhole
      <3>2. [c EXCEPT !.verdict = c.verdict] = c
        BY <1>1, <2>2 DEF StoreTypeOK, Conflict
      <3> QED BY <3>1, <3>2
    <2> QED BY <1>1, <2>1, <2>2 DEF StoreNext
  <1>2. StoreTypeOK /\ [StoreNext]_storeVars =>
           [\A c \in conflicts :
               \/ \E d \in conflicts' :
                     /\ [d EXCEPT !.verdict = c.verdict] = c
                     /\ c.verdict # "open" => d = c
               \/ Forgotten(c.key)']_storeVars
    BY <1>1
  <1> QED BY <1>2, StoreTypeCorrect, PTL DEF StoreSpec, BothVersionsKept
=============================================================================
